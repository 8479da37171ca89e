------------------------------- MODULE MiniFs -------------------------------
(***************************************************************************)
(* minifs: the inodes, directories and free list of kernel/fs.c, the file  *)
(* calls of kernel/proc.c that change them, and the device nodes that      *)
(* kernel/dev.c makes at boot, on a disk that may lose power between any   *)
(* two block writes.                                                       *)
(*                                                                         *)
(* The kernel is not preempted and none of this code sleeps, so a call is  *)
(* one step of the kernel's memory.  The disk is another matter: bwrite()  *)
(* passes each block on as soon as it is modified, in program order.  A    *)
(* call therefore leaves in `todo' the writes it makes, Flush carries them *)
(* out one at a time, and Crash may come before each.  Nothing else runs   *)
(* before the last one is done.                                            *)
(*                                                                         *)
(* The functions of fs.c are operators from a record s to a record: s.fl,  *)
(* s.ic and s.d are the superblock's free list, the inode cache and the    *)
(* disk as the kernel sees it, s.log the writes made so far.               *)
(*                                                                         *)
(* A buffer holds what the disk holds (BufCache checks that), but bmap()   *)
(* and fs_iput() keep a pointer into the indirect block's buffer while     *)
(* they read other blocks, and bread() may have reused it: s.buf says what *)
(* becomes of it.  A cache whose buffers are all valid always reuses       *)
(* bufs[0], so it is one choice for a call: another buffer is "kept", that *)
(* one is "reused", and balloc() and bfree(), which come to the superblock *)
(* last, leave the superblock in it.  Once a call has used such a buffer   *)
(* it is "stolen"; what later calls make of the disk is not followed, and  *)
(* the properties are about what comes before.                             *)
(*                                                                         *)
(* The unit of data is the Cell: 32 bytes that hold one directory entry,   *)
(* one block pointer or one piece of a file.  A free block's link is in    *)
(* its first two bytes, where an entry has its inode number.               *)
(***************************************************************************)
EXTENDS Integers, Sequences, SequencesExt, FiniteSets

CONSTANTS
    NINODES,        \* inodes on the disk; 1 is the root directory
    NBLOCKS,        \* data blocks
    NDIRECT,        \* direct block pointers of an inode (12)
    CPB,            \* cells in a block (32 entries, 512 pointers)
    FreeListWord,   \* the superblock's word that has the free list (6), and what
    SbWords,        \* the others are when they are taken for block numbers, 0 for none
    Names,          \* names other than . and ..
    ImageName,      \* a file in the root directory of the image mkfs wrote,
    ImageSize,      \* and its cells; 0 if the image holds no file
    Paths,          \* paths that programs use: sequences of names from the root
    DevDir,         \* "/dev"
    DevNodes,       \* the nodes that dev_create_nodes() makes in it, in order
    MAXOPEN,        \* open files (64)
    Lengths,        \* cells that one write() passes
    Offsets,        \* file positions that programs seek to
    WriteDirs,      \* do programs write() to directories?
    MaxCrashes,     \* bound on crashes
    MaxWrites       \* bound on calls that write to the disk

ASSUME MiniFsAssumption ==
    /\ NINODES \in Nat \ {0}
    /\ NBLOCKS \in Nat \ {0}
    /\ NDIRECT \in Nat \ {0}
    /\ CPB \in Nat /\ CPB >= 2
    /\ FreeListWord \in 1..CPB /\ SbWords \in [1..CPB -> 0..NBLOCKS]
    /\ Names \cap {"", ".", "..", "#"} = {}
    /\ ImageName \in Names
    /\ ImageSize \in 0..(NDIRECT + CPB) * CPB /\ (ImageSize > 0 => CPB >= 3)
    /\ Paths \subseteq Seq(Names) \ {<<>>}
    /\ DevDir \in Seq(Names) \ {<<>>}
    /\ DevNodes \in Seq(Seq(Names) \ {<<>>})
    /\ MAXOPEN \in Nat
    /\ Lengths \subseteq Nat \ {0}
    /\ Offsets \subseteq Nat
    /\ WriteDirs \in BOOLEAN
    /\ MaxCrashes \in Nat /\ MaxWrites \in Nat

Inodes == 1..NINODES
Blocks == 1..NBLOCKS
Direct == 0..(NDIRECT - 1)

Cell == [ino : 0..(NINODES + NBLOCKS), name : Names \cup {"", ".", "..", "#"}]
ZeroCell == [ino |-> 0, name |-> ""]
Entry(name, i) == [ino |-> i, name |-> name]
Link(b) == Entry("", b)
\* What programs write; it need not look like a free directory entry.
Data == Entry("#", NINODES + NBLOCKS)
ZeroBlock == [c \in 1..CPB |-> ZeroCell]

DiskInode ==
    [type : {"FREE", "FILE", "DIR", "DEV"}, nlink : 0..2, size : Nat,
     direct : [Direct -> 0..NBLOCKS], indirect : 0..NBLOCKS]
EmptyInode ==
    [type |-> "FREE", nlink |-> 0, size |-> 0, direct |-> [k \in Direct |-> 0],
     indirect |-> 0]
\* A slot of inode_cache[]: an inode has at most one with refcount > 0.
NoSlot == [di |-> EmptyInode, ref |-> 0, dirty |-> FALSE]

VARIABLES
    disk,           \* what survives a crash: free_list, inodes, blocks
    up,             \* is the kernel running?
    free_list,      \* sb.free_list in memory
    icache,         \* inode_cache[], by inode number
    todo,           \* writes of the current call that the disk has yet to do
    fds,            \* open files that refer to an inode
    crashes,        \* crashes so far
    leaked,         \* has a call that gave up half way left an inode that has no
                    \* name and is not open?
    writes,         \* calls that wrote to the disk
    stolen,         \* has a call used an indirect block's buffer that was reused?
    refused         \* was the last call an rmdir() of an empty directory that
                    \* failed?

vars == <<disk, up, free_list, icache, todo, fds, crashes, leaked, writes, stolen, refused>>
-----------------------------------------------------------------------------
(* The disk.                                                               *)

Perform(d, w) ==
    CASE w.at = "sb" -> [d EXCEPT !.free_list = w.v]
      [] w.at = "inode" -> [d EXCEPT !.inode[w.n] = w.v]
      [] w.at = "block" -> [d EXCEPT !.block[w.n] = w.v]

\* b->dirty = 1; bwrite(b), for the three kinds of block.
WriteSb(s) ==
    [s EXCEPT !.d.free_list = s.fl, !.log = Append(@, [at |-> "sb", n |-> 0, v |-> s.fl])]
WriteInode(s, i, di) ==
    [s EXCEPT !.d.inode[i] = di, !.log = Append(@, [at |-> "inode", n |-> i, v |-> di])]
WriteBlock(s, b, cells) ==
    [s EXCEPT !.d.block[b] = cells, !.log = Append(@, [at |-> "block", n |-> b, v |-> cells])]
-----------------------------------------------------------------------------
(* Blocks.                                                                 *)

\* Mutant of balloc: the superblock is not written back.
ballocUnwritten(s) == IF s.fl = 0 THEN s ELSE [s EXCEPT !.fl = s.d.block[s.fl][1].ino]

\* The block is s.fl, 0 when there is none.
balloc(s) ==
    IF s.fl = 0 THEN s ELSE WriteSb([s EXCEPT !.fl = s.d.block[s.fl][1].ino])

bfree(s, b) ==
    WriteSb([WriteBlock(s, b, [ZeroBlock EXCEPT ![1] = Link(s.fl)]) EXCEPT !.fl = b])

\* The cached inode i becomes di; ip->dirty = 1.
Modify(s, i, di) == [s EXCEPT !.ic[i] = [di |-> di, ref |-> s.ic[i].ref, dirty |-> TRUE]]

\* The indirect block of inode i, allocated and zeroed if it has none.
WithIndirect(s, i) ==
    IF s.ic[i].di.indirect # 0 \/ s.fl = 0 THEN s
    ELSE Modify(WriteBlock(balloc(s), s.fl, ZeroBlock), i,
                [s.ic[i].di EXCEPT !.indirect = s.fl])

\* bmap() without alloc: the bn-th block of inode i, 0 if there is none.
Mapped(s, i, bn) ==
    LET di == s.ic[i].di IN
    IF bn < NDIRECT THEN di.direct[bn]
    ELSE IF bn < NDIRECT + CPB /\ di.indirect # 0
         THEN s.d.block[di.indirect][bn - NDIRECT + 1].ino
    ELSE 0                                                  \* or file too large

\* bmap() with alloc: the block, 0 if there is no room, and the state after.
bmap(s, i, bn) ==
    LET SetPointer(t, ib, blk) ==
            [s |-> WriteBlock(t, ib, [t.d.block[ib] EXCEPT ![bn - NDIRECT + 1] = Link(blk)]),
             blk |-> blk]
        IntoSuperblock(t, blk) ==
            [s |-> [WriteSb([t EXCEPT !.fl = IF bn - NDIRECT + 1 = FreeListWord THEN blk ELSE @])
                    EXCEPT !.fl = t.fl, !.buf = "stolen"],
             blk |-> blk]
        InIndirect(t) ==
            IF t.ic[i].di.indirect = 0 THEN [s |-> t, blk |-> 0]
            ELSE IF t.buf = "kept" \/ t.fl = 0
                 THEN SetPointer(balloc(t), t.ic[i].di.indirect, t.fl)
            ELSE IntoSuperblock(balloc(t), t.fl)
    IN  IF Mapped(s, i, bn) # 0 \/ bn >= NDIRECT + CPB
        THEN [s |-> s, blk |-> Mapped(s, i, bn)]
        ELSE IF bn < NDIRECT
             THEN [s |-> Modify(balloc(s), i, [s.ic[i].di EXCEPT !.direct[bn] = s.fl]),
                   blk |-> s.fl]
        ELSE InIndirect(WithIndirect(s, i))
-----------------------------------------------------------------------------
(* Inodes.                                                                 *)

fs_iget(s, i) ==
    [s EXCEPT !.ic[i] = IF @.ref > 0 THEN [di |-> @.di, ref |-> @.ref + 1, dirty |-> @.dirty]
                        ELSE [di |-> s.d.inode[i], ref |-> 1, dirty |-> FALSE]]

fs_iupdate(s, i) ==
    [WriteInode(s, i, s.ic[i].di) EXCEPT
        !.ic[i] = [di |-> s.ic[i].di, ref |-> s.ic[i].ref, dirty |-> FALSE]]

FreeIfAny(s, b) == IF b = 0 THEN s ELSE bfree(s, b)

\* The loops of fs_iput(): q is a sequence of block numbers, 0 for none.
FreeEach(s, q) ==
    LET freed[k \in 0..Len(q)] == IF k = 0 THEN s ELSE FreeIfAny(freed[k - 1], q[k])
    IN  freed[Len(q)]

DirectPointers(di) == [k \in 1..NDIRECT |-> di.direct[k - 1]]
Pointers(cells) == [c \in 1..CPB |-> cells[c].ino]

\* The loop over the indirect block.  When bfree() gets the buffer, the words after
\* the first pointer are those of the superblock.
FreePointers(s, cells) ==
    LET ptrs == Pointers(cells)
        word(t, c) == IF \A m \in 1..(c - 1) : ptrs[m] = 0 THEN ptrs[c]
                      ELSE IF c = FreeListWord THEN t.fl ELSE SbWords[c]
        freed[c \in 0..CPB] ==
            IF c = 0 THEN s ELSE FreeIfAny(freed[c - 1], word(freed[c - 1], c))
    IN  IF s.buf = "kept" \/ \A c \in 1..(CPB - 1) : ptrs[c] = 0 THEN FreeEach(s, ptrs)
        ELSE [freed[CPB] EXCEPT !.buf = "stolen"]

\* Mutant of FreeInode: the blocks that the indirect block points to are kept.
FreeInodeShallow(s, i) ==
    LET di == s.ic[i].di
        t == FreeIfAny(FreeEach(s, DirectPointers(di)), di.indirect)
    IN  fs_iupdate([t EXCEPT !.ic[i].di = EmptyInode], i)

\* Give back the blocks of an inode nobody refers to, then the inode.
FreeInode(s, i) ==
    LET di == s.ic[i].di
        Indirect(t) ==
            IF di.indirect = 0 THEN t
            ELSE bfree(FreePointers(t, t.d.block[di.indirect]), di.indirect)
    IN  fs_iupdate([Indirect(FreeEach(s, DirectPointers(di))) EXCEPT !.ic[i].di = EmptyInode], i)

fs_iput(s, i) ==
    LET less == [s EXCEPT !.ic[i].ref = @ - 1]
        clean == IF s.ic[i].dirty THEN fs_iupdate(less, i) ELSE less
        last == IF s.ic[i].di.nlink = 0 /\ s.ic[i].di.type # "FREE"
                THEN FreeInode(clean, i) ELSE clean
    IN  IF s.ic[i].ref = 1 THEN [last EXCEPT !.ic[i] = NoSlot] ELSE less

Put(s, i) == IF i = 0 THEN s ELSE fs_iput(s, i)

\* The first inode marked free on the disk, or 0.
ialloc(s, type) ==
    LET free == {i \in Inodes : s.d.inode[i].type = "FREE"} IN
    IF free = {} THEN [s |-> s, i |-> 0]
    ELSE LET i == Min(free) IN
         [s |-> WriteInode(s, i, [EmptyInode EXCEPT !.type = type, !.nlink = 1]), i |-> i]
-----------------------------------------------------------------------------
(* File contents.                                                          *)

\* How many cells reads from the start of inode i get: fs_read() stops at the
\* size, and at a block that was never written.
Readable(s, i) ==
    LET size == s.ic[i].di.size
        holes == {bn \in 0..((size - 1) \div CPB) : Mapped(s, i, bn) = 0}
    IN  IF holes = {} THEN size ELSE Min({size, Min(holes) * CPB})
CellAt(s, i, k) == s.d.block[Mapped(s, i, k \div CPB)][(k % CPB) + 1]
Cells(s, i) == [k \in 0..(Readable(s, i) - 1) |-> CellAt(s, i, k)]

\* In fs_write(), the cells that fall into the bn-th block.
WriteChunk(i, off, cells, r, bn) ==
    LET at(c) == bn * CPB + (c - 1) - off + 1      \* index in cells of the block's cell c
        Fill(m) ==
            IF m.blk = 0 THEN [s |-> m.s, ok |-> FALSE]
            ELSE [s |-> WriteBlock(m.s, m.blk,
                         [c \in 1..CPB |-> IF at(c) \in DOMAIN cells THEN cells[at(c)]
                                           ELSE m.s.d.block[m.blk][c]]),
                  ok |-> TRUE]
    IN  IF r.ok THEN Fill(bmap(r.s, i, bn)) ELSE r

\* The loop of fs_write().
WriteChunks(s, i, off, cells) ==
    LET first == off \div CPB
        last == (off + Len(cells) - 1) \div CPB
        after[n \in 0..(last - first + 1)] ==
            IF n = 0 THEN [s |-> s, ok |-> TRUE]
            ELSE WriteChunk(i, off, cells, after[n - 1], first + n - 1)
    IN  after[last - first + 1]

\* Mutant of fs_write: the new size is left for fs_iput() to write back.
fs_writeLazy(s, i, off, cells) ==
    LET end == off + Len(cells)
        Finish(r) ==
            IF ~r.ok THEN r
            ELSE [s |-> [r.s EXCEPT !.ic[i].di.size = IF end > @ THEN end ELSE @,
                                    !.ic[i].dirty = TRUE],
                  ok |-> TRUE]
    IN  Finish(WriteChunks(s, i, off, cells))

\* Running out of blocks leaves the size as it was and the inode dirty.
fs_write(s, i, off, cells) ==
    LET end == off + Len(cells)
        Sized(t) == [t EXCEPT !.ic[i].di.size = IF end > @ THEN end ELSE @]
        Finish(r) ==
            IF ~r.ok THEN r ELSE [s |-> fs_iupdate(Sized(r.s), i), ok |-> TRUE]
    IN  Finish(WriteChunks(s, i, off, cells))
-----------------------------------------------------------------------------
(* Directories.                                                            *)

\* The position of the entry called name in directory dp, or -1.
Find(s, dp, name) ==
    LET cells == Cells(s, dp)
        at == {k \in DOMAIN cells : cells[k].ino # 0 /\ cells[k].name = name}
    IN  IF at = {} THEN -1 ELSE Min(at)

\* The result holds a reference to the inode found.
dir_lookup(s, dp, name) ==
    LET Got(i) == [s |-> fs_iget(s, i), i |-> i]
        At(k) == IF k < 0 THEN [s |-> s, i |-> 0] ELSE Got(CellAt(s, dp, k).ino)
    IN  At(IF s.ic[dp].di.type = "DIR" THEN Find(s, dp, name) ELSE -1)

\* Mutant of dir_link: the name is not looked for.
dir_linkUnchecked(s, dp, name, i) ==
    LET cells == Cells(s, dp)
        free == {k \in DOMAIN cells : cells[k].ino = 0}
    IN  fs_write(s, dp, IF free = {} THEN s.ic[dp].di.size ELSE Min(free),
                 <<Entry(name, i)>>)

dir_link(s, dp, name, i) ==
    LET cells == Cells(s, dp)
        free == {k \in DOMAIN cells : cells[k].ino = 0}
        off == IF free = {} THEN s.ic[dp].di.size ELSE Min(free)
        Unless(check) ==
            IF check.i # 0 THEN [s |-> fs_iput(check.s, check.i), ok |-> FALSE]
            ELSE fs_write(s, dp, off, <<Entry(name, i)>>)
    IN  Unless(dir_lookup(s, dp, name))

dir_unlink(s, dp, name) ==
    LET Clear(k) == IF k < 0 THEN s ELSE fs_write(s, dp, k, <<ZeroCell>>).s IN
    Clear(Find(s, dp, name))
-----------------------------------------------------------------------------
(* Paths.  Each step holds a reference to the directory it is in; i = 0 is *)
(* NULL.                                                                   *)

\* Mutant of Step: the directory is not released.
StepHolding(r, name) == IF r.i = 0 THEN r ELSE dir_lookup(r.s, r.i, name)

Step(r, name) ==
    LET Release(next) == [s |-> fs_iput(next.s, r.i), i |-> next.i] IN
    IF r.i = 0 THEN r ELSE Release(dir_lookup(r.s, r.i, name))

fs_namei(s, path) ==
    LET at[n \in 0..Len(path)] ==
            IF n = 0 THEN [s |-> fs_iget(s, 1), i |-> 1] ELSE Step(at[n - 1], path[n])
    IN  at[Len(path)]

fs_namei_parent(s, path) ==
    LET Directory(r) == IF r.i # 0 /\ r.s.ic[r.i].di.type # "DIR"
                        THEN [s |-> fs_iput(r.s, r.i), i |-> 0] ELSE r
    IN  Directory(fs_namei(s, Front(path)))
-----------------------------------------------------------------------------
(* The operations.  leak says that an inode was left that nothing names.   *)

fs_create(s, path, type) ==
    LET name == Last(path)
        Linked(link, dp, i) ==
            IF link.ok THEN [s |-> fs_iput(link.s, dp), i |-> i, leak |-> FALSE]
            ELSE [s |-> fs_iput(fs_iput(link.s, i), dp), i |-> 0, leak |-> TRUE]
        New(r, dp) ==
            IF r.i = 0 THEN [s |-> fs_iput(r.s, dp), i |-> 0, leak |-> FALSE]
            ELSE Linked(dir_link(fs_iget(r.s, r.i), dp, name, r.i), dp, r.i)
        Old(r, dp) ==
            IF r.i # 0 THEN [s |-> fs_iput(r.s, dp), i |-> r.i, leak |-> FALSE]
            ELSE New(ialloc(r.s, type), dp)
        In(dp) ==
            IF dp.i = 0 THEN [s |-> dp.s, i |-> 0, leak |-> FALSE]
            ELSE Old(dir_lookup(dp.s, dp.i, name), dp.i)
    IN  In(fs_namei_parent(s, path))

fs_unlink(s, path) ==
    LET name == Last(path)
        Unlinked(t, i) == Modify(t, i, [t.ic[i].di EXCEPT !.nlink = @ - 1])
        Unname(ip, dp) ==
            IF ip.i = 0 THEN [s |-> fs_iput(ip.s, dp), ok |-> FALSE]
            ELSE IF ip.s.ic[ip.i].di.type = "DIR"             \* EISDIR
                 THEN [s |-> fs_iput(fs_iput(ip.s, ip.i), dp), ok |-> FALSE]
            ELSE [s |-> fs_iput(fs_iput(Unlinked(dir_unlink(ip.s, dp, name), ip.i), ip.i), dp),
                  ok |-> TRUE]
        In(dp) == IF dp.i = 0 THEN [s |-> dp.s, ok |-> FALSE]
                  ELSE Unname(dir_lookup(dp.s, dp.i, name), dp.i)
    IN  In(fs_namei_parent(s, path))

\* The results of dir_unlink() and dir_link() are ignored.
fs_rename(s, old, new) ==
    LET Release(t, ip, odp, ndp) == Put(Put(Put(t, odp), ndp), ip)
        Moved(link, ip, odp, ndp) ==
            [s |-> Release(link.s, ip, odp, ndp), leak |-> ~link.ok \/ IsPrefix(old, Front(new))]
        To(ndp, ip, odp) ==
            IF odp = 0 \/ ndp.i = 0
            THEN [s |-> Release(ndp.s, ip, odp, ndp.i), leak |-> FALSE]
            ELSE Moved(dir_link(dir_unlink(ndp.s, odp, Last(old)), ndp.i, Last(new), ip),
                       ip, odp, ndp.i)
        From(odp, ip) == To(fs_namei_parent(odp.s, new), ip, odp.i)
        Move(ip) == IF ip.i = 0 THEN [s |-> ip.s, leak |-> FALSE]
                    ELSE From(fs_namei_parent(ip.s, old), ip.i)
    IN  Move(fs_namei(s, old))

fs_mkdir(s, path) ==
    LET Dots(dp, i) ==
            dir_link(dir_link(Put(dp.s, dp.i), i, ".", i).s,
                     i, "..", IF dp.i = 0 THEN 1 ELSE dp.i).s
        Made(c) ==
            IF c.i = 0 THEN [s |-> c.s, leak |-> c.leak]
            ELSE [s |-> fs_iput(Dots(fs_namei_parent(c.s, path), c.i), c.i), leak |-> FALSE]
    IN  Made(fs_create(s, path, "DIR"))

\* How many entries other than . and .. a directory has.
EntryCount(s, i) ==
    LET cells == Cells(s, i) IN
    Cardinality({k \in DOMAIN cells : cells[k].ino # 0 /\ cells[k].name \notin {".", ".."}})

fs_rmdir(s, path) ==
    LET Unlinked(r) == [s |-> r.s, refused |-> ~r.ok]
        Empty(ip) == ip.s.ic[ip.i].di.type = "DIR" /\ EntryCount(ip.s, ip.i) = 0
        RemoveDir(ip) ==
            IF ip.i = 0 THEN [s |-> ip.s, refused |-> FALSE]
            ELSE IF Empty(ip) THEN Unlinked(fs_unlink(fs_iput(ip.s, ip.i), path))
            ELSE [s |-> fs_iput(ip.s, ip.i), refused |-> FALSE]    \* ENOTDIR, ENOTEMPTY
    IN  RemoveDir(fs_namei(s, path))
-----------------------------------------------------------------------------
(* The system calls, and boot.                                             *)

Mem(warm) == [fl |-> free_list, ic |-> icache, d |-> disk, log |-> <<>>,
              buf |-> IF warm THEN "reused" ELSE "kept"]
Idle == up /\ todo = <<>>

\* A buffer was used after it was reused.
Steals(warm, s) == /\ ~stolen /\ stolen' = warm
                   /\ warm => s.buf = "stolen"

\* A call left the kernel's memory as in s; its writes are still to be done.
Return(warm, s) ==
    /\ Steals(warm, s)
    /\ free_list' = s.fl
    /\ icache' = s.ic
    /\ todo' = s.log
    /\ writes' = writes + (IF s.log = <<>> THEN 0 ELSE 1)
    /\ writes' <= MaxWrites
    /\ UNCHANGED <<disk, up>>

Completes == refused' = FALSE /\ UNCHANGED crashes

\* The open files that refer to an inode.
OpenFiles ==
    LET upto[i \in 0..NINODES] == IF i = 0 THEN 0 ELSE upto[i - 1] + fds[i]
    IN  upto[NINODES]

\* sys_open(): ENFILE when the table of open files is full.
Open(warm, path, create, trunc) ==
    LET Created(found) ==
            IF found.i = 0 /\ create THEN fs_create(found.s, path, "FILE")
            ELSE [s |-> found.s, i |-> found.i, leak |-> FALSE]
        Truncated(c) ==
            IF trunc /\ c.s.ic[c.i].di.type = "FILE"
            THEN fs_iupdate([c.s EXCEPT !.ic[c.i].di.size = 0], c.i) ELSE c.s
    IN  /\ Idle /\ Completes
        /\ \E c \in {Created(fs_namei(Mem(warm), path))} :
              /\ leaked' = (leaked \/ c.leak)
              /\ \/ c.i = 0 /\ Return(warm, c.s) /\ UNCHANGED fds
                 \/ /\ c.i # 0 /\ OpenFiles = MAXOPEN
                    /\ Return(warm, fs_iput(Truncated(c), c.i)) /\ UNCHANGED fds
                 \/ /\ c.i # 0 /\ OpenFiles < MAXOPEN
                    /\ Return(warm, Truncated(c))
                    /\ fds' = [fds EXCEPT ![c.i] = @ + 1]

Close(warm, i) ==
    /\ Idle /\ fds[i] > 0
    /\ fds' = [fds EXCEPT ![i] = @ - 1]
    /\ Return(warm, fs_iput(Mem(warm), i)) /\ Completes
    /\ UNCHANGED leaked

\* sys_write() at a position of Offsets or, with O_APPEND, at the end.
WriteFile(warm, i, off, n) ==
    /\ Idle /\ fds[i] > 0
    /\ icache[i].di.type \in {"FILE"} \cup (IF WriteDirs THEN {"DIR"} ELSE {})
    /\ Return(warm, fs_write(Mem(warm), i, off, [k \in 1..n |-> Data]).s) /\ Completes
    /\ UNCHANGED <<fds, leaked>>

Unlink(warm, path) ==
    /\ Idle /\ Return(warm, fs_unlink(Mem(warm), path).s) /\ Completes
    /\ UNCHANGED <<fds, leaked>>

Rename(warm, old, new) ==
    /\ Idle /\ Completes /\ UNCHANGED fds
    /\ \E r \in {fs_rename(Mem(warm), old, new)} :
          Return(warm, r.s) /\ leaked' = (leaked \/ r.leak)

Mkdir(warm, path) ==
    /\ Idle /\ Completes /\ UNCHANGED fds
    /\ \E r \in {fs_mkdir(Mem(warm), path)} :
          Return(warm, r.s) /\ leaked' = (leaked \/ r.leak)

Rmdir(warm, path) ==
    /\ Idle /\ UNCHANGED <<fds, leaked, crashes>>
    /\ \E r \in {fs_rmdir(Mem(warm), path)} :
          Return(warm, r.s) /\ refused' = r.refused

\* The disk does the next write.
Flush ==
    /\ up /\ todo # <<>>
    /\ disk' = Perform(disk, Head(todo))
    /\ todo' = Tail(todo)
    /\ UNCHANGED <<up, free_list, icache, fds, crashes, leaked, writes, stolen, refused>>

\* Power fails: memory is gone.
Crash ==
    /\ up /\ up' = FALSE
    /\ crashes < MaxCrashes /\ crashes' = crashes + 1
    /\ free_list' = 0 /\ icache' = [i \in Inodes |-> NoSlot] /\ todo' = <<>>
    /\ fds' = [i \in Inodes |-> 0] /\ refused' = FALSE
    /\ UNCHANGED <<disk, leaked, writes, stolen>>

\* A node of dev_create_nodes(): made if its path does not resolve.
MakeNode(r, path) ==
    LET Made(c) ==
            IF c.i = 0 THEN [s |-> c.s, leak |-> r.leak \/ c.leak]
            ELSE [r EXCEPT !.s = fs_iput(fs_iupdate(c.s, c.i), c.i)]
        Unless(found) ==
            IF found.i # 0 THEN [r EXCEPT !.s = fs_iput(found.s, found.i)]
            ELSE Made(fs_create(found.s, path, "DEV"))
    IN  Unless(fs_namei(r.s, path))

\* Before any program runs: the directory, then the nodes.
dev_create_nodes(s) ==
    LET MakeDir(found) ==
            IF found.i = 0 THEN fs_mkdir(found.s, DevDir)
            ELSE [s |-> fs_iput(found.s, found.i), leak |-> FALSE]
        made[n \in 0..Len(DevNodes)] ==
            IF n = 0 THEN MakeDir(fs_namei(s, DevDir)) ELSE MakeNode(made[n - 1], DevNodes[n])
    IN  made[Len(DevNodes)]

\* fs_init(), then dev_create_nodes().
Boot(warm) ==
    /\ ~up /\ up' = TRUE
    /\ \E r \in {dev_create_nodes([Mem(warm) EXCEPT !.fl = disk.free_list])} :
          /\ Steals(warm, r.s)
          /\ free_list' = r.s.fl /\ icache' = r.s.ic /\ todo' = r.s.log
          /\ leaked' = (leaked \/ r.leak)
    /\ UNCHANGED <<disk, fds, crashes, writes, refused>>

\* An image of tools/mkfs.c: the root directory in block 1 and, if it was given
\* one, a file in the blocks after it, the indirect block first; the rest free.
\* Of the three directories it makes none is there: /dev has been renamed away,
\* so that dev_create_nodes() makes one.
FileBlocks == (ImageSize + CPB - 1) \div CPB
FirstFree == 2 + FileBlocks + (IF FileBlocks > NDIRECT THEN 1 ELSE 0)
FileBlock(bn) == FirstFree - FileBlocks + bn

\* mkfs does not notice that it runs out of blocks.
ASSUME ImageFits == FirstFree <= NBLOCKS + 1 /\ (ImageSize > 0 => NINODES >= 2)

RootInode ==
    [EmptyInode EXCEPT !.type = "DIR", !.nlink = 2, !.direct[0] = 1,
                       !.size = IF ImageSize > 0 THEN 3 ELSE 2]
FileInode ==
    [EmptyInode EXCEPT !.type = "FILE", !.nlink = 1, !.size = ImageSize,
        !.direct = [k \in Direct |-> IF k < FileBlocks THEN FileBlock(k) ELSE 0],
        !.indirect = IF FileBlocks > NDIRECT THEN 2 ELSE 0]
RootBlock ==
    [c \in 1..CPB |-> CASE c = 1 -> Entry(".", 1) [] c = 2 -> Entry("..", 1)
                        [] c = 3 /\ ImageSize > 0 -> Entry(ImageName, 2)
                        [] OTHER -> ZeroCell]
IndirectBlock ==
    [c \in 1..CPB |-> LET bn == NDIRECT + c - 1 IN
                      IF bn < FileBlocks THEN Link(FileBlock(bn)) ELSE ZeroCell]
Image ==
    [free_list |-> IF FirstFree <= NBLOCKS THEN FirstFree ELSE 0,
     inode |-> [i \in Inodes |-> CASE i = 1 -> RootInode
                                   [] i = 2 /\ ImageSize > 0 -> FileInode
                                   [] OTHER -> EmptyInode],
     block |-> [b \in Blocks |->
        CASE b = 1 -> RootBlock
          [] b = 2 /\ FileBlocks > NDIRECT -> IndirectBlock
          [] b \in FileBlock(0)..(FirstFree - 1) -> [c \in 1..CPB |-> Data]
          [] b >= FirstFree ->
               [ZeroBlock EXCEPT ![1] = Link(IF b < NBLOCKS THEN b + 1 ELSE 0)]]]

Init ==
    /\ disk = Image
    /\ up = FALSE
    /\ free_list = 0
    /\ icache = [i \in Inodes |-> NoSlot]
    /\ todo = <<>>
    /\ fds = [i \in Inodes |-> 0]
    /\ crashes = 0
    /\ leaked = FALSE
    /\ writes = 0
    /\ stolen = FALSE
    /\ refused = FALSE

Call(warm) ==
    \/ \E path \in Paths, create, trunc \in BOOLEAN : Open(warm, path, create, trunc)
    \/ \E i \in Inodes : Close(warm, i)
    \/ \E i \in Inodes, n \in Lengths :
          \E off \in Offsets \cup {icache[i].di.size} : WriteFile(warm, i, off, n)
    \/ \E path \in Paths : Unlink(warm, path) \/ Mkdir(warm, path) \/ Rmdir(warm, path)
    \/ \E old, new \in Paths : Rename(warm, old, new)

\* Bound: after a stolen buffer, no call and no boot is followed.
Stop == stolen /\ todo = <<>> /\ UNCHANGED vars

Next == (\E warm \in BOOLEAN : Call(warm) \/ Boot(warm)) \/ Flush \/ Crash \/ Stop

Spec == Init /\ [][Next]_vars
-----------------------------------------------------------------------------
(* Properties.                                                             *)

TypeOK ==
    /\ disk.free_list \in 0..NBLOCKS
    /\ disk.inode \in [Inodes -> DiskInode]
    /\ disk.block \in [Blocks -> [1..CPB -> Cell]]
    /\ up \in BOOLEAN
    /\ free_list \in 0..NBLOCKS
    /\ icache \in [Inodes -> [di : DiskInode, ref : 0..MAXOPEN, dirty : BOOLEAN]]
    /\ fds \in [Inodes -> 0..MAXOPEN]
    /\ crashes \in 0..MaxCrashes /\ writes \in 0..MaxWrites
    /\ leaked \in BOOLEAN /\ stolen \in BOOLEAN /\ refused \in BOOLEAN

\* A disk as somebody would see it who boots from it now.
View(d) ==
    [fl |-> d.free_list, d |-> d, log |-> <<>>,
     ic |-> [i \in Inodes |-> [di |-> d.inode[i], ref |-> 1, dirty |-> FALSE]]]

Entries(v, i) ==
    IF v.ic[i].di.type # "DIR" THEN {}
    ELSE {e \in Range(Cells(v, i)) : e.ino # 0}
Named(v, i) == {e.ino : e \in {e \in Entries(v, i) : e.name \notin {".", ".."}}}
\* The root, what it names, what the directories among those name, ...
Reachable(v) ==
    LET named == [i \in Inodes |-> Named(v, i)]
        closed == {R \in SUBSET Inodes : 1 \in R /\ \A i \in R : named[i] \subseteq R}
    IN  {i \in Inodes : \A R \in closed : i \in R}

\* Where an inode has the number of a block, 0 for none: the direct pointers, the
\* words of the indirect block, and last the pointer to that.
Slots == 0..(NDIRECT + CPB)
BlockAt(v, i, n) == IF n < NDIRECT + CPB THEN Mapped(v, i, n) ELSE v.ic[i].di.indirect
BlocksOf(v, i) == {BlockAt(v, i, n) : n \in Slots} \ {0}

\* The free list, block by block, and 0 from where it ends.
FreeList(v) ==
    LET nth[n \in 0..NBLOCKS] ==
            IF n = 0 THEN v.fl
            ELSE LET b == nth[n - 1] IN IF b \in Blocks THEN v.d.block[b][1].ino ELSE b
    IN  nth
Free(v) == Range(FreeList(v)) \ {0}

\* Until a stolen buffer, at every moment, the middle of a call included, the
\* disk could be booted from: every name reachable from the root is of an inode
\* in use with a link count, no block belongs to two such inodes, twice to one,
\* or to one and to the free list, and the free list ends.  It holds because ialloc() writes the
\* inode before dir_link() the name, dir_unlink() takes the name off before
\* fs_iput() the blocks, and balloc() writes the superblock before anything
\* refers to the block.
DiskConsistent ==
    LET v == View(disk)
        used == Reachable(v)
    IN  stolen \/
        /\ \A i \in used :
             /\ disk.inode[i].type # "FREE" /\ disk.inode[i].nlink > 0
             /\ \A n, m \in Slots : n # m /\ BlockAt(v, i, n) # 0 => BlockAt(v, i, n) # BlockAt(v, i, m)
             /\ BlocksOf(v, i) \cap Free(v) = {}
             /\ \A j \in used \ {i} : BlocksOf(v, i) \cap BlocksOf(v, j) = {}
        /\ FreeList(v)[NBLOCKS] = 0

\* Between calls: the kernel's view of an inode in the cache, the disk's of others.
Current == [View(disk) EXCEPT !.fl = free_list,
              !.ic = [i \in Inodes |-> IF icache[i].ref > 0 THEN icache[i] ELSE @[i]]]

InodesInUse(v) == {i \in Inodes : v.ic[i].di.type # "FREE"}

\* Between calls, open files hold the only references to inodes.
OnlyFdsRefer == Idle => \A i \in Inodes : icache[i].ref = fds[i]

\* Until a crash, every block is on the free list or belongs to an inode in use.
NoBlockLost ==
    Idle /\ crashes = 0 =>
        Blocks \subseteq Free(Current) \cup UNION {BlocksOf(Current, i) : i \in InodesInUse(Current)}

\* Until a crash, a failed create or a rename that loses what it moves, every
\* inode in use has a name or is open.
NoInodeLost ==
    Idle /\ crashes = 0 /\ ~leaked =>
        InodesInUse(Current) \subseteq Reachable(Current) \cup {i \in Inodes : fds[i] > 0}

\* Files that are unlinked while they are open, writes that run out of space and
\* calls that fail give back what they took, until a stolen buffer: what bmap()
\* allocates then is in no file, and fs_iput() does not free what the file had.
NothingLost == stolen \/ (OnlyFdsRefer /\ NoBlockLost /\ NoInodeLost)

\* Once a call has returned, a crash takes back no size it gave a file: what
\* the cache says of the type and size of an open inode is on the disk.  Until a
\* stolen buffer: fs_iput() may then clear blocks of the inode table.
CompletedIsDurable ==
    Idle /\ ~stolen => \A i \in Inodes : icache[i].ref > 0 =>
                /\ disk.inode[i].type = icache[i].di.type
                /\ disk.inode[i].size = icache[i].di.size

\* What a file's reader gets, and what the directories name.
Content(v, i) ==
    IF v.ic[i].di.type # "FILE" THEN <<>>
    ELSE [k \in 1..Readable(v, i) |-> CellAt(v, i, k - 1)]
Tree(v) ==
    UNION {{[dir |-> i, name |-> e.name, ino |-> e.ino, content |-> Content(v, e.ino)] :
              e \in {e \in Entries(v, i) : e.name \notin {".", ".."}}} : i \in Inodes}

\* Until a stolen buffer damages the disk, every block write is at most one change
\* that a reader of it could see: one name appears, one name goes, or the contents
\* of one named file grow, are cut to nothing or are overwritten in place.
Durable == INSTANCE FileTree
             WITH tree <- IF stolen THEN {} ELSE Tree(View(disk)), damaged <- stolen
ImplementsFileTree == Durable!Spec

\* Does not hold.  "fs_rmdir(path) -- remove directory (must be empty)"
\* (docs/filesystem.md): an empty directory is never refused; fs_unlink(), which
\* fs_rmdir() ends in, refuses every directory.
RmdirRemovesEmpty == ~refused
=============================================================================
