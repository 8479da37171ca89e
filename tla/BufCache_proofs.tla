-------------------------- MODULE BufCache_proofs --------------------------
(***************************************************************************)
(* Theorems about BufCache, for every number of buffers and blocks, every  *)
(* set of files and everything that is written: what the cache keeps true  *)
(* whichever block is evicted and whatever is written through a pointer to *)
(* a buffer that was given away; and that until then no block is lost, in  *)
(* two places or read back other than it was written.                      *)
(***************************************************************************)
EXTENDS BufCache, FiniteSetTheorems, WellFoundedInduction, TLAPS

-----------------------------------------------------------------------------
(* Memory and disk, as the functions pass them on                          *)

Contents == [Words -> Blocks]
Buffer == [blk : Blocks \cup {None}, dirty : BOOLEAN, data : Contents]
Inode == [size : 0..Cardinality(FileBlocks),
          direct : [0..(NDIRECT - 1) -> Blocks], indirect : Blocks]
Memory == [bufs : [Bufs -> Buffer], disk : [Blocks -> Contents], fl : Blocks,
           ino : [Files -> Inode], stolen : BOOLEAN]

Coherent(s) ==
    \A k \in Bufs :
        /\ ~s.bufs[k].dirty
        /\ s.bufs[k].blk # None =>
              /\ s.bufs[k].data = s.disk[s.bufs[k].blk]
              /\ \A j \in Bufs \ {k} : s.bufs[j].blk # s.bufs[k].blk

Sound(s) == s \in Memory /\ Coherent(s)

\* What a function leaves of the memory it was given: the inodes, and a block in
\* every buffer that had one.
Leads(s, t) ==
    /\ Sound(t)
    /\ t.ino = s.ino
    /\ \A k \in Bufs : s.bufs[k].blk # None => t.bufs[k].blk # None

LEMMA Constants ==
    /\ 0 \in Blocks /\ 1 \in Blocks /\ 2 \in Blocks /\ None \notin Blocks
    /\ 1 \in Words /\ 1 \in Bufs /\ Bufs \subseteq Nat
    /\ Zero \in Contents
    /\ Files \subseteq Words
    /\ \A v \in Values : v \in Blocks /\ [w \in Words |-> v] \in Contents
  BY BufCacheAssumption DEF Blocks, None, Words, Bufs, Zero, Contents

LEMMA HasLeast ==
    ASSUME NEW S \in SUBSET Nat, S # {}
    PROVE  \E x \in S : \A y \in S : x <= y
  <1>1. PICK x \in S : \A y \in S : ~(<<y, x>> \in OpToRel(<, Nat))
    BY NatLessThanWellFounded, WFMin
  <1>2. \A y \in S : ~(y < x)
    BY <1>1 DEF OpToRel
  <1> QED
    BY <1>2

LEMMA MinIsIn ==
    ASSUME NEW S \in SUBSET Bufs, S # {}
    PROVE  Min(S) \in S
  <1>1. S \in SUBSET Nat
    BY Constants
  <1> QED
    BY <1>1, HasLeast DEF Min

LEMMA MemoryFields ==
    ASSUME NEW s \in Memory
    PROVE  /\ s.bufs \in [Bufs -> Buffer] /\ s.disk \in [Blocks -> Contents]
           /\ s.fl \in Blocks /\ s.ino \in [Files -> Inode] /\ s.stolen \in BOOLEAN
           /\ s = [bufs |-> s.bufs, disk |-> s.disk, fl |-> s.fl, ino |-> s.ino,
                   stolen |-> s.stolen]
  BY DEF Memory

LEMMA SetBuffer ==
    ASSUME NEW s \in Memory, NEW k \in Bufs, NEW new \in Buffer
    PROVE  LET t == [s EXCEPT !.bufs[k] = new]
           IN  /\ t \in Memory
               /\ t.bufs[k] = new /\ \A j \in Bufs : j # k => t.bufs[j] = s.bufs[j]
               /\ t.disk = s.disk /\ t.fl = s.fl /\ t.ino = s.ino /\ t.stolen = s.stolen
  BY DEF Memory

LEMMA SetDirty ==
    ASSUME NEW s \in Memory, NEW k \in Bufs, NEW d \in BOOLEAN
    PROVE  LET t == [s EXCEPT !.bufs[k].dirty = d]
           IN  /\ t \in Memory
               /\ t.bufs[k] \in Buffer /\ t.bufs[k].blk = s.bufs[k].blk
               /\ t.bufs[k].dirty = d /\ t.bufs[k].data = s.bufs[k].data
               /\ \A j \in Bufs : j # k => t.bufs[j] = s.bufs[j]
               /\ t.disk = s.disk /\ t.fl = s.fl /\ t.ino = s.ino /\ t.stolen = s.stolen
  BY DEF Memory, Buffer

LEMMA SoundFields ==
    ASSUME NEW s, Sound(s), NEW k \in Bufs
    PROVE  /\ s.bufs[k] \in Buffer /\ s.bufs[k].blk \in Blocks \cup {None}
           /\ s.bufs[k].data \in Contents
           /\ s.bufs[k].dirty = FALSE
  BY DEF Sound, Memory, Buffer, Coherent

LEMMA VictimIsBuffer ==
    ASSUME NEW s
    PROVE  Victim(s) \in Bufs
  BY MinIsIn, Constants DEF Victim

LEMMA CleanNotWritten ==
    ASSUME NEW s, Sound(s), NEW k \in Bufs
    PROVE  bwrite(s, k) = s
  BY SoundFields DEF bwrite

\* bread() gives a buffer that holds the block, and changes nothing else.
LEMMA Bread ==
    ASSUME NEW s, Sound(s), NEW b \in Blocks
    PROVE  LET r == bread(s, b)
           IN  /\ Leads(s, r.s) /\ r.k \in Bufs
               /\ r.s.bufs[r.k].blk = b
               /\ r.s.disk = s.disk /\ r.s.fl = s.fl /\ r.s.stolen = s.stolen
  <1> DEFINE hit == {k \in Bufs : s.bufs[k].blk = b}
             k == Victim(s)
             new == [blk |-> b, dirty |-> FALSE, data |-> s.disk[b]]
             t == [s EXCEPT !.bufs[k] = new]
  <1>1. CASE hit # {}
    <2>1. Min(hit) \in hit
      BY <1>1, MinIsIn
    <2>2. bread(s, b) = [s |-> s, k |-> Min(hit)]
      BY <1>1 DEF bread
    <2> QED
      BY <2>1, <2>2 DEF Leads
  <1>2. CASE hit = {}
    <2>1. k \in Bufs /\ bwrite(s, k) = s
      BY VictimIsBuffer, CleanNotWritten
    <2>2. bread(s, b) = [s |-> t, k |-> k]
      BY <1>2, <2>1 DEF bread
    <2> HIDE DEF k
    <2>3. s \in Memory
      BY DEF Sound
    <2>4. new \in Buffer
      BY <2>3, MemoryFields DEF Buffer
    <2>5. /\ t.bufs = [s.bufs EXCEPT ![k] = new] /\ t.disk = s.disk /\ t.fl = s.fl
          /\ t.ino = s.ino /\ t.stolen = s.stolen
      BY <2>3, MemoryFields
    <2>6. t \in Memory
      BY <2>1, <2>3, <2>4, MemoryFields DEF Memory
    <2>7. t.bufs[k] = new /\ \A j \in Bufs : j # k => t.bufs[j] = s.bufs[j]
      BY <2>1, <2>3, <2>5, MemoryFields
    <2>8. Coherent(t)
      BY <1>2, <2>5, <2>7, Constants DEF Coherent, Sound
    <2>9. \A j \in Bufs : s.bufs[j].blk # None => t.bufs[j].blk # None
      BY <2>7, Constants
    <2>10. new.blk = b
      OBVIOUS
    <2> HIDE DEF t, new
    <2>11. Leads(s, t)
      BY <2>5, <2>6, <2>8, <2>9 DEF Leads, Sound
    <2>12. t.bufs[k].blk = b
      BY <2>7, <2>10
    <2>13. bread(s, b).s = t /\ bread(s, b).k = k
      BY <2>2
    <2>14. t.disk = s.disk /\ t.fl = s.fl /\ t.stolen = s.stolen /\ k \in Bufs
      BY <2>1, <2>5
    <2> QED
      BY <2>11, <2>12, <2>13, <2>14
  <1> QED
    BY <1>1, <1>2

\* t has the disk of s, but for block b, which is data.
DiskSet(s, t, b, data) ==
    t.disk[b] = data /\ \A c \in Blocks : c # b => t.disk[c] = s.disk[c]

\* A change goes to the disk at once, wherever the buffer's block is by now.
LEMMA Stored ==
    ASSUME NEW s, Sound(s), NEW k \in Bufs, s.bufs[k].blk # None, NEW data \in Contents
    PROVE  LET t == Store(s, k, data)
           IN  /\ Leads(s, t) /\ DiskSet(s, t, s.bufs[k].blk, data)
               /\ t.fl = s.fl /\ t.stolen = s.stolen
  <1> DEFINE b == s.bufs[k].blk
             m == [s EXCEPT !.bufs[k].data = data, !.bufs[k].dirty = TRUE]
             w == [m EXCEPT !.disk[b] = data]
             t == [w EXCEPT !.bufs[k].dirty = FALSE]
  <1>1. s \in Memory
    BY DEF Sound
  <1>2. b \in Blocks /\ s.bufs[k] \in Buffer
    BY SoundFields
  <1>3. /\ m \in Memory
        /\ m.bufs[k] \in Buffer /\ m.bufs[k].blk = b
        /\ m.bufs[k].dirty = TRUE /\ m.bufs[k].data = data
        /\ \A j \in Bufs : j # k => m.bufs[j] = s.bufs[j]
        /\ m.disk = s.disk /\ m.fl = s.fl /\ m.ino = s.ino /\ m.stolen = s.stolen
    <2> DEFINE s1 == [s EXCEPT !.bufs[k].data = data]
    <2>1. /\ s1 \in Memory
          /\ s1.bufs[k] \in Buffer /\ s1.bufs[k].blk = b /\ s1.bufs[k].data = data
          /\ \A j \in Bufs : j # k => s1.bufs[j] = s.bufs[j]
          /\ s1.disk = s.disk /\ s1.fl = s.fl /\ s1.ino = s.ino /\ s1.stolen = s.stolen
      BY <1>1, <1>2, SetBuffer DEF Buffer
    <2> DEFINE m1 == [s1 EXCEPT !.bufs[k].dirty = TRUE]
    <2>2. m = m1
      OBVIOUS
    <2> HIDE DEF s1
    <2>3. /\ m1 \in Memory
          /\ m1.bufs[k] \in Buffer /\ m1.bufs[k].blk = s1.bufs[k].blk
          /\ m1.bufs[k].dirty = TRUE /\ m1.bufs[k].data = s1.bufs[k].data
          /\ \A j \in Bufs : j # k => m1.bufs[j] = s1.bufs[j]
          /\ m1.disk = s1.disk /\ m1.fl = s1.fl /\ m1.ino = s1.ino /\ m1.stolen = s1.stolen
      BY <2>1, SetDirty
    <2> HIDE DEF m, m1
    <2> QED
      BY <2>1, <2>2, <2>3
  <1>4. Store(s, k, data) = t
    BY <1>3 DEF Store, bwrite
  <1> HIDE DEF m
  <1>5. /\ w \in Memory /\ w.bufs = m.bufs
        /\ w.disk[b] = data /\ \A c \in Blocks : c # b => w.disk[c] = s.disk[c]
        /\ w.fl = s.fl /\ w.ino = s.ino /\ w.stolen = s.stolen
    BY <1>2, <1>3 DEF Memory
  <1> HIDE DEF w
  <1>6. /\ t \in Memory
        /\ t.bufs[k].blk = b /\ t.bufs[k].dirty = FALSE /\ t.bufs[k].data = data
        /\ \A j \in Bufs : j # k => t.bufs[j] = s.bufs[j]
        /\ t.disk = w.disk /\ t.fl = s.fl /\ t.ino = s.ino /\ t.stolen = s.stolen
    <2>1. /\ t \in Memory
          /\ t.bufs[k].blk = w.bufs[k].blk
          /\ t.bufs[k].dirty = FALSE /\ t.bufs[k].data = w.bufs[k].data
          /\ \A j \in Bufs : j # k => t.bufs[j] = w.bufs[j]
          /\ t.disk = w.disk /\ t.fl = w.fl /\ t.ino = w.ino /\ t.stolen = w.stolen
      BY <1>5, SetDirty
    <2> HIDE DEF t
    <2> QED
      BY <1>3, <1>5, <2>1
  <1> HIDE DEF t
  <1>7. /\ t.disk[b] = data /\ \A c \in Blocks : c # b => t.disk[c] = s.disk[c]
    BY <1>5, <1>6
  <1>8. \A j \in Bufs : j # k => s.bufs[j].blk # b
    BY DEF Sound, Coherent
  <1>9. Coherent(t)
    <2> SUFFICES ASSUME NEW j \in Bufs
                 PROVE  /\ ~t.bufs[j].dirty
                        /\ t.bufs[j].blk # None =>
                              /\ t.bufs[j].data = t.disk[t.bufs[j].blk]
                              /\ \A i \in Bufs \ {j} : t.bufs[i].blk # t.bufs[j].blk
      BY DEF Coherent
    <2>1. CASE j = k
      BY <2>1, <1>6, <1>7, <1>8
    <2>2. CASE j # k
      <3>1. s.bufs[j].blk \in Blocks \cup {None} /\ s.bufs[j].dirty = FALSE
        BY SoundFields
      <3>2. s.bufs[j].blk # None =>
               /\ s.bufs[j].data = s.disk[s.bufs[j].blk]
               /\ \A i \in Bufs \ {j} : s.bufs[i].blk # s.bufs[j].blk
        BY DEF Sound, Coherent
      <3> QED
        BY <2>2, <3>1, <3>2, <1>6, <1>7, <1>8
    <2> QED
      BY <2>1, <2>2
  <1>10. \A j \in Bufs : s.bufs[j].blk # None => t.bufs[j].blk # None
    BY <1>2, <1>6, Constants
  <1> QED
    BY <1>4, <1>6, <1>7, <1>9, <1>10 DEF Leads, Sound, DiskSet

-----------------------------------------------------------------------------
(* The functions of fs.c                                                   *)

LEMMA LeadsOn ==
    ASSUME NEW s, NEW t, NEW u, Leads(s, t), Leads(t, u)
    PROVE  Leads(s, u)
  BY DEF Leads

LEMMA SameBuffers ==
    ASSUME NEW s, Sound(s), NEW t \in Memory, t.bufs = s.bufs, t.disk = s.disk
    PROVE  Sound(t) /\ (t.ino = s.ino => Leads(s, t))
  BY DEF Sound, Coherent, Leads

LEMMA SetHead ==
    ASSUME NEW s, Sound(s), NEW b \in Blocks
    PROVE  LET t == [s EXCEPT !.fl = b]
           IN  /\ Leads(s, t) /\ t.fl = b
               /\ t.bufs = s.bufs /\ t.disk = s.disk /\ t.stolen = s.stolen
  <1> DEFINE t == [s EXCEPT !.fl = b]
  <1>1. t \in Memory
    BY DEF Sound, Memory
  <1>2. /\ t.bufs = s.bufs /\ t.disk = s.disk /\ t.ino = s.ino /\ t.fl = b
        /\ t.stolen = s.stolen
    BY MemoryFields DEF Sound
  <1> HIDE DEF t
  <1>3. Leads(s, t)
    BY <1>1, <1>2, SameBuffers
  <1> QED
    BY <1>2, <1>3 DEF t

LEMMA SetStolen ==
    ASSUME NEW s, Sound(s), NEW d \in BOOLEAN
    PROVE  LET t == [s EXCEPT !.stolen = d]
           IN  /\ Leads(s, t) /\ t.stolen = d
               /\ t.bufs = s.bufs /\ t.disk = s.disk /\ t.fl = s.fl
  <1> DEFINE t == [s EXCEPT !.stolen = d]
  <1>1. t \in Memory
    BY DEF Sound, Memory
  <1>2. /\ t.bufs = s.bufs /\ t.disk = s.disk /\ t.ino = s.ino /\ t.fl = s.fl
        /\ t.stolen = d
    BY MemoryFields DEF Sound
  <1> HIDE DEF t
  <1>3. Leads(s, t)
    BY <1>1, <1>2, SameBuffers
  <1> QED
    BY <1>2, <1>3 DEF t

LEMMA SetInode ==
    ASSUME NEW s, Sound(s), NEW f \in Files, NEW i \in Inode
    PROVE  LET t == [s EXCEPT !.ino[f] = i]
           IN  /\ Sound(t) /\ t.ino[f] = i /\ \A g \in Files \ {f} : t.ino[g] = s.ino[g]
               /\ t.bufs = s.bufs /\ t.disk = s.disk /\ t.fl = s.fl /\ t.stolen = s.stolen
  <1> DEFINE t == [s EXCEPT !.ino[f] = i]
  <1>1. s \in Memory
    BY DEF Sound
  <1>2. /\ t \in Memory /\ t.ino[f] = i /\ \A g \in Files \ {f} : t.ino[g] = s.ino[g]
        /\ t.bufs = s.bufs /\ t.disk = s.disk /\ t.fl = s.fl /\ t.stolen = s.stolen
    BY <1>1 DEF Memory
  <1> HIDE DEF t
  <1>3. Sound(t)
    BY <1>2, SameBuffers
  <1> QED
    BY <1>2, <1>3 DEF t

LEMMA InodeFields ==
    ASSUME NEW s, Sound(s), NEW f \in Files
    PROVE  /\ s.ino[f] \in Inode /\ s.ino[f].indirect \in Blocks
           /\ s.ino[f].size \in 0..Cardinality(FileBlocks)
           /\ \A n \in 0..(NDIRECT - 1) : s.ino[f].direct[n] \in Blocks
  <1>1. s.ino[f] \in Inode
    BY DEF Sound, Memory
  <1> QED
    BY <1>1 DEF Inode

LEMMA SetBlockLeads ==
    ASSUME NEW s, Sound(s), NEW b \in Blocks, NEW data \in Contents
    PROVE  LET t == SetBlock(s, b, data)
           IN  /\ Leads(s, t) /\ DiskSet(s, t, b, data)
               /\ t.fl = s.fl /\ t.stolen = s.stolen
  <1> DEFINE r == bread(s, b)
             t == Store(r.s, r.k, data)
  <1>1. /\ Leads(s, r.s) /\ r.k \in Bufs /\ r.s.bufs[r.k].blk = b
        /\ r.s.disk = s.disk /\ r.s.fl = s.fl /\ r.s.stolen = s.stolen
    BY Bread
  <1> HIDE DEF r
  <1>2. Sound(r.s) /\ r.s.bufs[r.k].blk # None
    BY <1>1, Constants DEF Leads
  <1>3. /\ Leads(r.s, t) /\ DiskSet(r.s, t, b, data)
        /\ t.fl = r.s.fl /\ t.stolen = r.s.stolen
    BY <1>1, <1>2, Stored
  <1>4. SetBlock(s, b, data) = t
    BY DEF SetBlock, r
  <1> HIDE DEF t
  <1>5. Leads(s, t)
    BY <1>1, <1>3, LeadsOn
  <1> QED
    BY <1>1, <1>3, <1>4, <1>5 DEF DiskSet

LEMMA SetWordLeads ==
    ASSUME NEW s, Sound(s), NEW b \in Blocks, NEW w \in Words, NEW v \in Blocks
    PROVE  LET t == SetWord(s, b, w, v)
           IN  /\ Leads(s, t) /\ DiskSet(s, t, b, [s.disk[b] EXCEPT ![w] = v])
               /\ t.fl = s.fl /\ t.stolen = s.stolen
  <1> DEFINE r == bread(s, b)
             data == [r.s.bufs[r.k].data EXCEPT ![w] = v]
             t == Store(r.s, r.k, data)
  <1>1. /\ Leads(s, r.s) /\ r.k \in Bufs /\ r.s.bufs[r.k].blk = b
        /\ r.s.disk = s.disk /\ r.s.fl = s.fl /\ r.s.stolen = s.stolen
    BY Bread
  <1> HIDE DEF r
  <1>2. Sound(r.s) /\ r.s.bufs[r.k].blk # None
    BY <1>1, Constants DEF Leads
  <1>3. r.s.bufs[r.k].data \in Contents /\ r.s.bufs[r.k].data = s.disk[b]
    BY <1>1, <1>2, SoundFields DEF Sound, Coherent
  <1>4. data = [s.disk[b] EXCEPT ![w] = v]
    BY <1>3
  <1>5. data \in Contents
    BY <1>3 DEF Contents
  <1>6. SetWord(s, b, w, v) = t
    BY DEF SetWord, r
  <1> HIDE DEF data
  <1>7. /\ Leads(r.s, t) /\ DiskSet(r.s, t, b, data)
        /\ t.fl = r.s.fl /\ t.stolen = r.s.stolen
    BY <1>1, <1>2, <1>5, Stored
  <1> HIDE DEF t
  <1>8. Leads(s, t)
    BY <1>1, <1>7, LeadsOn
  <1> QED
    BY <1>1, <1>4, <1>6, <1>7, <1>8 DEF DiskSet

LEMMA WriteSbLeads ==
    ASSUME NEW s, Sound(s)
    PROVE  Leads(s, WriteSb(s))
  <1>1. s.fl \in Blocks
    BY DEF Sound, Memory
  <1> QED
    BY <1>1, SetWordLeads, BufCacheAssumption, Constants DEF WriteSb, Words

LEMMA InodeUpdateLeads ==
    ASSUME NEW s, Sound(s), NEW f \in Files
    PROVE  Leads(s, fs_iupdate(s, f))
  <1>1. s.ino[f].indirect \in Blocks /\ f \in Words
    BY InodeFields, Constants
  <1> QED
    BY <1>1, SetWordLeads, Constants DEF fs_iupdate

LEMMA AllocLeads ==
    ASSUME NEW s, Sound(s)
    PROVE  Leads(s, balloc(s).s) /\ balloc(s).blk = s.fl /\ s.fl \in Blocks
  <1> DEFINE r == bread(s, s.fl)
             t == [r.s EXCEPT !.fl = r.s.bufs[r.k].data[1]]
  <1>1. s.fl \in Blocks
    BY DEF Sound, Memory
  <1>2. CASE s.fl = 0
    <2>1. Leads(s, s)
      BY DEF Leads
    <2> QED
      BY <1>1, <1>2, <2>1 DEF balloc
  <1>3. CASE s.fl # 0
    <2>1. Leads(s, r.s) /\ r.k \in Bufs
      BY <1>1, Bread
    <2>2. balloc(s).s = WriteSb(t) /\ balloc(s).blk = s.fl
      BY <1>3 DEF balloc
    <2> HIDE DEF r
    <2>3. Sound(r.s)
      BY <2>1 DEF Leads
    <2>4. r.s.bufs[r.k].data \in Contents
      BY <2>1, <2>3, SoundFields
    <2>5. r.s.bufs[r.k].data[1] \in Blocks
      BY <2>4, Constants DEF Contents
    <2>6. Leads(r.s, t)
      BY <2>3, <2>5, SetHead
    <2> HIDE DEF t
    <2>7. Leads(t, WriteSb(t))
      BY <2>6, WriteSbLeads DEF Leads
    <2>8. Leads(s, WriteSb(t))
      BY <2>1, <2>6, <2>7, LeadsOn
    <2> QED
      BY <1>1, <2>2, <2>8
  <1> QED
    BY <1>2, <1>3

LEMMA FreeLeads ==
    ASSUME NEW s, Sound(s), NEW b \in Blocks
    PROVE  Leads(s, bfree(s, b))
  <1> DEFINE data == [Zero EXCEPT ![1] = s.fl]
             t == SetBlock(s, b, data)
             u == [t EXCEPT !.fl = b]
  <1>1. s.fl \in Blocks
    BY DEF Sound, Memory
  <1>2. data \in Contents
    BY <1>1, Constants DEF Contents
  <1>3. bfree(s, b) = WriteSb(u)
    BY DEF bfree
  <1> HIDE DEF data
  <1>4. Leads(s, t)
    BY <1>2, SetBlockLeads
  <1> HIDE DEF t
  <1>5. Leads(t, u)
    BY <1>4, SetHead DEF Leads
  <1> HIDE DEF u
  <1>6. Leads(u, WriteSb(u))
    BY <1>5, WriteSbLeads DEF Leads
  <1>7. Leads(s, WriteSb(u))
    BY <1>4, <1>5, <1>6, LeadsOn
  <1> QED
    BY <1>3, <1>7

LEMMA FreeIfAnyLeads ==
    ASSUME NEW s, Sound(s), NEW b \in Blocks
    PROVE  Leads(s, FreeIfAny(s, b))
  <1>1. Leads(s, s)
    BY DEF Leads
  <1> QED
    BY <1>1, FreeLeads DEF FreeIfAny

LEMMA FreePointerLeads ==
    ASSUME NEW s, Sound(s), NEW k \in Bufs, NEW ind, NEW w \in Words
    PROVE  Leads(s, FreePointer(s, k, ind, w))
  <1> DEFINE d == s.stolen \/ s.bufs[k].blk # ind
             t == [s EXCEPT !.stolen = d]
             b == s.bufs[k].data[w]
  <1>1. b \in Blocks
    <2>1. s.bufs[k].data \in Contents
      BY SoundFields
    <2> QED
      BY <2>1 DEF Contents
  <1>2. FreePointer(s, k, ind, w) = FreeIfAny(t, b)
    BY DEF FreePointer
  <1>3. Leads(s, t)
    <2>1. d \in BOOLEAN
      OBVIOUS
    <2> HIDE DEF d
    <2> QED
      BY <2>1, SetStolen
  <1> HIDE DEF t, b
  <1>4. Leads(t, FreeIfAny(t, b))
    BY <1>1, <1>3, FreeIfAnyLeads DEF Leads
  <1> QED
    BY <1>2, <1>3, <1>4, LeadsOn

-----------------------------------------------------------------------------
(* Loops.  Nothing is known of a recursive function until its defining     *)
(* equation has been shown to have a solution; both that and what a loop   *)
(* leads to are shown by the least counterexample.                         *)

LEMMA MaxIsIn ==
    ASSUME NEW k \in Nat, NEW s \in SUBSET (1..k), s # {}
    PROVE  Max(s) \in s /\ \A y \in s : Max(s) >= y
  <1> DEFINE above == {n \in Nat : \A y \in s : n >= y}
  <1>1. k \in above /\ above \in SUBSET Nat
    OBVIOUS
  <1>2. PICK x \in above : \A y \in above : x <= y
    BY <1>1, HasLeast
  <1>3. x \in s
    <2> SUFFICES ASSUME x \notin s PROVE FALSE
      OBVIOUS
    <2>1. PICK y \in s : TRUE
      OBVIOUS
    <2>2. x \in Nat /\ \A z \in s : x >= z /\ x # z /\ z \in Nat /\ z >= 1
      BY <1>2
    <2>3. x - 1 \in above
      BY <2>2, <2>1
    <2> QED
      BY <1>2, <2>3, <2>2
  <1> QED
    BY <1>2, <1>3 DEF Max

\* f has the result of the first turns over each set of turns.
Turns(f, t, F, n) ==
    /\ f = [s \in SUBSET (1..n) |-> f[s]]
    /\ \A s \in SUBSET (1..n) :
          f[s] = IF s = {} THEN t ELSE F[<<f[s \ {Max(s)}], Max(s)>>]

LEMMA TurnsExist ==
    ASSUME NEW D, NEW t \in D, NEW n \in Nat, NEW F \in [D \X (1..n) -> D]
    PROVE  \E f \in [SUBSET (1..n) -> D] : Turns(f, t, F, n)
  <1> DEFINE Good(k) == \E f \in [SUBSET (1..k) -> D] : Turns(f, t, F, k)
             bad == {k \in 0..n : ~Good(k)}
  <1> HIDE DEF Good
  <1> SUFFICES ASSUME bad # {} PROVE FALSE
    <2>1. n \in 0..n
      OBVIOUS
    <2>2. bad = {} => Good(n)
      BY <2>1
    <2> QED
      BY <2>2 DEF Good
  <1>0. bad \in SUBSET Nat
    OBVIOUS
  <1>1. PICK m \in bad : \A y \in bad : m <= y
    BY <1>0, HasLeast
  <1>2. m # 0
    <2> DEFINE f == [s \in SUBSET (1..0) |-> t]
    <2>1. f \in [SUBSET (1..0) -> D] /\ Turns(f, t, F, 0)
      BY DEF Turns
    <2> HIDE DEF f
    <2>2. Good(0)
      BY <2>1 DEF Good
    <2> QED
      BY <2>2
  <1>3. m \in Nat /\ m \in 1..n /\ m - 1 \in 0..n
    BY <1>2
  <1>4. m - 1 \notin bad
    BY <1>1, <1>3
  <1>5. Good(m - 1) /\ ~Good(m)
    BY <1>4, <1>3
  <1> HIDE DEF bad
  <1>6. PICK f \in [SUBSET (1..(m - 1)) -> D] : Turns(f, t, F, m - 1)
    BY <1>5 DEF Good
  <1> DEFINE g == [s \in SUBSET (1..m) |->
                      IF m \in s THEN F[<<f[s \ {m}], m>>] ELSE f[s]]
  <1>7. ASSUME NEW s \in SUBSET (1..(m - 1))
        PROVE  f[s] = IF s = {} THEN t ELSE F[<<f[s \ {Max(s)}], Max(s)>>]
    BY <1>6 DEF Turns
  <1>8. ASSUME NEW s \in SUBSET (1..m), m \notin s
        PROVE  s \in SUBSET (1..(m - 1)) /\ g[s] = f[s]
    <2>1. s \in SUBSET (1..(m - 1))
      BY <1>3, <1>8
    <2> QED
      BY <2>1, <1>8
  <1>9. g \in [SUBSET (1..m) -> D]
    <2> SUFFICES ASSUME NEW s \in SUBSET (1..m)
                 PROVE  (IF m \in s THEN F[<<f[s \ {m}], m>>] ELSE f[s]) \in D
      OBVIOUS
    <2>1. CASE m \in s
      <3>1. s \ {m} \in SUBSET (1..(m - 1))
        BY <1>3
      <3>2. f[s \ {m}] \in D
        BY <3>1
      <3>3. <<f[s \ {m}], m>> \in D \X (1..n)
        BY <3>2, <1>3
      <3> QED
        BY <3>3, <2>1
    <2>2. CASE m \notin s
      <3>1. s \in SUBSET (1..(m - 1))
        BY <2>2, <1>3
      <3> QED
        BY <3>1, <2>2
    <2> QED
      BY <2>1, <2>2
  <1>10. ASSUME NEW s \in SUBSET (1..m)
        PROVE  g[s] = IF s = {} THEN t ELSE F[<<g[s \ {Max(s)}], Max(s)>>]
    <2>1. CASE s = {}
      <3>1. g[s] = f[s] /\ s \in SUBSET (1..(m - 1))
        BY <2>1, <1>8
      <3> QED
        BY <3>1, <2>1, <1>7
    <2>2. CASE s # {}
      <3>1. Max(s) \in s /\ \A y \in s : Max(s) >= y
        BY <2>2, <1>3, MaxIsIn
      <3>2. CASE m \in s
        <4>1. Max(s) = m
          <5>1. Max(s) \in 1..m /\ Max(s) >= m /\ m \in Nat
            BY <3>1, <3>2, <1>3
          <5> QED
            BY <5>1
        <4>2. s \ {m} \in SUBSET (1..m) /\ m \notin s \ {m}
          OBVIOUS
        <4>3. g[s \ {m}] = f[s \ {m}]
          BY <4>2, <1>8
        <4>4. g[s] = F[<<f[s \ {m}], m>>]
          BY <3>2
        <4> QED
          BY <4>1, <4>3, <4>4, <2>2
      <3>3. CASE m \notin s
        <4>1. g[s] = f[s] /\ s \in SUBSET (1..(m - 1))
          BY <3>3, <1>8
        <4>2. s \ {Max(s)} \in SUBSET (1..m) /\ m \notin s \ {Max(s)}
          BY <3>3
        <4>3. g[s \ {Max(s)}] = f[s \ {Max(s)}]
          BY <4>2, <1>8
        <4> QED
          BY <4>1, <4>3, <1>7, <2>2
      <3> QED
        BY <3>2, <3>3
    <2> QED
      BY <2>1, <2>2
  <1>11. g = [s \in SUBSET (1..m) |-> g[s]]
    OBVIOUS
  <1> HIDE DEF g
  <1>12. Turns(g, t, F, m)
    BY <1>10, <1>11 DEF Turns
  <1>13. Good(m)
    BY <1>9, <1>12 DEF Good
  <1> QED
    BY <1>13, <1>5

LEMMA TurnsLead ==
    ASSUME NEW D, NEW n \in Nat, NEW g, g[0] \in D[0],
           \A k \in 1..n : g[k - 1] \in D[k - 1] => g[k] \in D[k]
    PROVE  g[n] \in D[n]
  <1> DEFINE bad == {k \in 0..n : g[k] \notin D[k]}
  <1> SUFFICES ASSUME bad # {} PROVE FALSE
    <2>1. n \in 0..n
      OBVIOUS
    <2> QED
      BY <2>1
  <1>1. bad \in SUBSET Nat
    OBVIOUS
  <1>2. PICK m \in bad : \A y \in bad : m <= y
    BY <1>1, HasLeast
  <1>3. m \in 1..n /\ m - 1 \in 0..n /\ m - 1 \notin bad
    BY <1>2
  <1> QED
    BY <1>3

LEMMA LastTurn ==
    ASSUME NEW n \in Nat, NEW k \in 1..n
    PROVE  /\ 1..k \in SUBSET (1..n) /\ 1..k # {}
           /\ Max(1..k) = k /\ (1..k) \ {k} = 1..(k - 1)
  <1>1. 1..k \in SUBSET (1..n) /\ k \in 1..k /\ k \in Nat
    OBVIOUS
  <1>2. Max(1..k) \in 1..k /\ Max(1..k) >= k
    BY <1>1, MaxIsIn
  <1>3. Max(1..k) = k
    BY <1>1, <1>2
  <1> QED
    BY <1>1, <1>3

\* fs_iput()'s loop over the direct blocks.
FreeAll(s, b) == FoldLeft(FreeIfAny, s, b)

\* The memory after each turn.
AllTurns(g, s, n, b) ==
    /\ g[0] = s
    /\ \A w \in 1..n : Leads(s, g[w - 1]) /\ g[w] = FreeIfAny(g[w - 1], b[w])
    /\ Leads(s, g[n]) /\ FreeAll(s, b) = g[n]

LEMMA FreeAllTurns ==
    ASSUME NEW s, Sound(s), NEW n \in Nat, NEW b \in [1..n -> Blocks]
    PROVE  \E g : AllTurns(g, s, n, b)
  <1> DEFINE D == {x \in Memory : Leads(s, x)}
             Turn(x, w) == FreeIfAny(x, b[w])
             F == [p \in D \X (1..n) |-> Turn(p[1], p[2])]
             Solves(f) == f = [e \in SUBSET (1..n) |->
                IF e = {} THEN s ELSE FreeIfAny(f[e \ {Max(e)}], b[Max(e)])]
             f == CHOOSE f : Solves(f)
  <1>0. n \in Nat
    OBVIOUS
  <1>1. s \in D
    BY DEF Leads, Sound
  <1>2. ASSUME NEW x \in D, NEW w \in 1..n
        PROVE  Turn(x, w) \in D
    <2>1. Leads(x, Turn(x, w))
      BY FreeIfAnyLeads DEF Leads
    <2> HIDE DEF Turn
    <2>2. Leads(s, Turn(x, w)) /\ Turn(x, w) \in Memory
      BY <2>1, LeadsOn DEF Leads, Sound
    <2> QED
      BY <2>2
  <1> HIDE DEF D, Turn
  <1>3. \A x \in D, w \in 1..n : F[<<x, w>>] = Turn(x, w)
    OBVIOUS
  <1>4. F \in [D \X (1..n) -> D]
    BY <1>2
  <1> HIDE DEF F
  <1>5. PICK g \in [SUBSET (1..n) -> D] : Turns(g, s, F, n)
    BY <1>1, <1>4, TurnsExist
  <1>6. Solves(g)
    <2>1. ASSUME NEW e \in SUBSET (1..n)
          PROVE  g[e] = IF e = {} THEN s ELSE FreeIfAny(g[e \ {Max(e)}], b[Max(e)])
      <3>1. CASE e = {}
        BY <3>1, <1>5 DEF Turns
      <3>2. CASE e # {}
        <4>1. g[e] = F[<<g[e \ {Max(e)}], Max(e)>>]
          BY <3>2, <1>5 DEF Turns
        <4>2. Max(e) \in 1..n /\ g[e \ {Max(e)}] \in D
          BY <3>2, MaxIsIn
        <4> QED
          BY <4>1, <4>2, <3>2, <1>3 DEF Turn
      <3> QED
        BY <3>1, <3>2
    <2> QED
      BY <2>1
  <1>7. Solves(f)
    BY <1>6
  <1>8. FreeAll(s, b) = f[1..n]
    BY DEF FreeAll, FoldLeft, MapThenFoldSet
  <1> HIDE DEF f
  <1>9. ASSUME NEW e \in SUBSET (1..n)
        PROVE  f[e] = IF e = {} THEN s ELSE FreeIfAny(f[e \ {Max(e)}], b[Max(e)])
    BY <1>7
  <1> DEFINE h == [w \in 0..n |-> f[1..w]]
  <1>10. h[0] = s
    <2>1. 1..0 = {} /\ {} \in SUBSET (1..n) /\ 0 \in 0..n
      BY <1>0
    <2>2. f[{}] = s
      BY <2>1, <1>9
    <2> QED
      BY <2>1, <2>2
  <1>11. ASSUME NEW w \in 1..n
         PROVE  h[w] = Turn(h[w - 1], w)
    <2>1. f[1..w] = Turn(f[1..(w - 1)], w)
      BY <1>9, LastTurn DEF Turn
    <2> QED
      BY <2>1
  <1>12. h[n] = f[1..n]
    OBVIOUS
  <1> HIDE DEF h
  <1>13. \A w \in 0..n : h[w] \in D
    <2> SUFFICES ASSUME NEW w \in 0..n PROVE h[w] \in D
      OBVIOUS
    <2> DEFINE E == [v \in 0..n |-> D]
    <2>1. w \in Nat /\ \A v \in 0..w : E[v] = D
      BY <1>0
    <2> HIDE DEF E
    <2>2. ASSUME NEW v \in 1..w, h[v - 1] \in E[v - 1]
          PROVE  h[v] \in E[v]
      <3>1. v \in 1..n /\ v - 1 \in 0..w /\ v \in 0..w
        BY <1>0
      <3> QED
        BY <1>2, <1>11, <2>1, <2>2, <3>1
    <2>3. h[0] \in E[0]
      BY <1>1, <1>10, <2>1
    <2>4. h[w] \in E[w]
      BY <2>1, <2>2, <2>3, TurnsLead
    <2> QED
      BY <2>1, <2>4
  <1>14. /\ \A w \in 1..n : Leads(s, h[w - 1]) /\ h[w] = FreeIfAny(h[w - 1], b[w])
         /\ Leads(s, h[n])
    BY <1>11, <1>13 DEF D, Turn
  <1> QED
    BY <1>8, <1>10, <1>12, <1>14 DEF AllTurns

LEMMA FreeAllLeads ==
    ASSUME NEW s, Sound(s), NEW n \in Nat, NEW b \in [1..n -> Blocks]
    PROVE  Leads(s, FreeAll(s, b))
  <1>1. PICK g : AllTurns(g, s, n, b)
    BY FreeAllTurns
  <1> QED
    BY <1>1 DEF AllTurns

\* fs_iput()'s loop over the words behind its pointer.
LEMMA FreePointersTurns ==
    ASSUME NEW s, Sound(s), NEW k \in Bufs, NEW ind
    PROVE  \E g : /\ g[0] = s
                  /\ \A w \in Words : /\ Leads(s, g[w - 1])
                                      /\ g[w] = FreePointer(g[w - 1], k, ind, w)
                  /\ Leads(s, g[PTRS_PER_BLK])
                  /\ FreePointers(s, k, ind) = g[PTRS_PER_BLK]
  <1> DEFINE n == PTRS_PER_BLK
             b == [w \in Words |-> w]
             D == {x \in Memory : Leads(s, x)}
             Turn(x, w) == FreePointer(x, k, ind, b[w])
             F == [p \in D \X (1..n) |-> Turn(p[1], p[2])]
             Solves(f) == f = [e \in SUBSET (1..n) |->
                IF e = {} THEN s ELSE FreePointer(f[e \ {Max(e)}], k, ind, b[Max(e)])]
             f == CHOOSE f : Solves(f)
  <1>0. /\ n \in Nat /\ Words = 1..n /\ DOMAIN b = 1..n
        /\ \A w \in 1..n : b[w] = w /\ b[w] \in Words
    BY BufCacheAssumption DEF Words
  <1>1. s \in D
    BY DEF Leads, Sound
  <1>2. ASSUME NEW x \in D, NEW w \in 1..n
        PROVE  Turn(x, w) \in D
    <2>1. Leads(x, Turn(x, w))
      BY <1>0, FreePointerLeads DEF Leads
    <2> HIDE DEF Turn
    <2>2. Leads(s, Turn(x, w)) /\ Turn(x, w) \in Memory
      BY <2>1, LeadsOn DEF Leads, Sound
    <2> QED
      BY <2>2
  <1> HIDE DEF D, Turn
  <1>3. \A x \in D, w \in 1..n : F[<<x, w>>] = Turn(x, w)
    OBVIOUS
  <1>4. F \in [D \X (1..n) -> D]
    BY <1>2
  <1> HIDE DEF F
  <1>5. PICK g \in [SUBSET (1..n) -> D] : Turns(g, s, F, n)
    BY <1>0, <1>1, <1>4, TurnsExist
  <1>6. Solves(g)
    <2>1. ASSUME NEW e \in SUBSET (1..n)
          PROVE  g[e] = IF e = {} THEN s
                        ELSE FreePointer(g[e \ {Max(e)}], k, ind, b[Max(e)])
      <3>1. CASE e = {}
        BY <3>1, <1>5 DEF Turns
      <3>2. CASE e # {}
        <4>1. g[e] = F[<<g[e \ {Max(e)}], Max(e)>>]
          BY <3>2, <1>5 DEF Turns
        <4>2. Max(e) \in 1..n /\ g[e \ {Max(e)}] \in D
          BY <3>2, <1>0, MaxIsIn
        <4> QED
          BY <4>1, <4>2, <3>2, <1>3 DEF Turn
      <3> QED
        BY <3>1, <3>2
    <2> QED
      BY <2>1
  <1>7. Solves(f)
    BY <1>6
  <1>8. FreePointers(s, k, ind) = f[1..n]
    BY <1>0 DEF FreePointers, FoldLeft, MapThenFoldSet
  <1> HIDE DEF f, b, n
  <1>9. ASSUME NEW e \in SUBSET (1..n)
        PROVE  f[e] = IF e = {} THEN s
                      ELSE FreePointer(f[e \ {Max(e)}], k, ind, b[Max(e)])
    BY <1>7
  <1> DEFINE h == [w \in 0..n |-> f[1..w]]
  <1>10. h[0] = s
    <2>1. 1..0 = {} /\ {} \in SUBSET (1..n) /\ 0 \in 0..n
      BY <1>0
    <2>2. f[{}] = s
      BY <2>1, <1>9
    <2> QED
      BY <2>1, <2>2
  <1>11. ASSUME NEW w \in 1..n
         PROVE  h[w] = Turn(h[w - 1], w)
    <2>1. /\ 1..w \in SUBSET (1..n) /\ 1..w # {}
          /\ Max(1..w) = w /\ (1..w) \ {w} = 1..(w - 1)
      BY <1>0, LastTurn
    <2>2. f[1..w] = Turn(f[1..(w - 1)], w)
      BY <1>9, <2>1 DEF Turn
    <2>3. w \in 0..n /\ w - 1 \in 0..n
      BY <1>0
    <2> QED
      BY <2>2, <2>3
  <1>12. h[n] = f[1..n]
    BY <1>0
  <1>13. \A w \in 1..n : Turn(h[w - 1], w) = FreePointer(h[w - 1], k, ind, w)
    BY <1>0 DEF Turn
  <1> HIDE DEF h
  <1>14. \A w \in 0..n : h[w] \in D
    <2> SUFFICES ASSUME NEW w \in 0..n PROVE h[w] \in D
      OBVIOUS
    <2> DEFINE E == [v \in 0..n |-> D]
    <2>1. w \in Nat /\ \A v \in 0..w : E[v] = D
      BY <1>0
    <2> HIDE DEF E
    <2>2. ASSUME NEW v \in 1..w, h[v - 1] \in E[v - 1]
          PROVE  h[v] \in E[v]
      <3>1. v \in 1..n /\ v - 1 \in 0..w /\ v \in 0..w
        BY <1>0
      <3> QED
        BY <1>2, <1>11, <2>1, <2>2, <3>1
    <2>3. h[0] \in E[0]
      BY <1>1, <1>10, <2>1
    <2>4. h[w] \in E[w]
      BY <2>1, <2>2, <2>3, TurnsLead
    <2> QED
      BY <2>1, <2>4
  <1>15. /\ \A w \in 1..n : /\ Leads(s, h[w - 1])
                            /\ h[w] = FreePointer(h[w - 1], k, ind, w)
         /\ Leads(s, h[n])
    BY <1>0, <1>11, <1>13, <1>14 DEF D
  <1> QED
    BY <1>8, <1>10, <1>12, <1>15 DEF n, Words

LEMMA FreePointersLeads ==
    ASSUME NEW s, Sound(s), NEW k \in Bufs, NEW ind
    PROVE  Leads(s, FreePointers(s, k, ind))
  BY FreePointersTurns

-----------------------------------------------------------------------------
(* Calls                                                                   *)

\* What bmap() and its parts give: memory, and a block.
Mapped(m) == Sound(m.s) /\ m.blk \in Blocks

LEMMA AllocRecord ==
    ASSUME NEW s, Sound(s)
    PROVE  /\ Leads(s, balloc(s).s) /\ Mapped(balloc(s))
           /\ balloc(s) = [s |-> balloc(s).s, blk |-> balloc(s).blk]
  <1>1. Leads(s, balloc(s).s) /\ Mapped(balloc(s))
    BY AllocLeads DEF Mapped, Leads
  <1>2. \E t : balloc(s) = [s |-> t, blk |-> s.fl]
    BY DEF balloc
  <1> QED
    BY <1>1, <1>2

LEMMA WithIndirectMaps ==
    ASSUME NEW s, Sound(s), NEW f \in Files
    PROVE  Mapped(WithIndirect(s, f))
  <1> DEFINE a == balloc(s)
             i == [a.s.ino[f] EXCEPT !.indirect = a.blk]
             t == [a.s EXCEPT !.ino[f] = i]
             u == SetBlock(t, a.blk, Zero)
  <1>1. CASE s.ino[f].indirect # 0 \/ s.fl = 0
    <2>1. WithIndirect(s, f) = [s |-> s, blk |-> s.ino[f].indirect]
      BY <1>1 DEF WithIndirect
    <2> QED
      BY <2>1, InodeFields DEF Mapped
  <1>2. CASE ~(s.ino[f].indirect # 0 \/ s.fl = 0)
    <2>1. Mapped(a) /\ a = [s |-> a.s, blk |-> a.blk]
      BY AllocRecord
    <2>2. WithIndirect(s, f) =
            [a EXCEPT !.s = SetBlock([@ EXCEPT !.ino[f].indirect = a.blk], a.blk, Zero)]
      BY <1>2 DEF WithIndirect
    <2> HIDE DEF a
    <2>3. [a.s EXCEPT !.ino[f].indirect = a.blk] = t
      OBVIOUS
    <2>4. WithIndirect(s, f) = [s |-> u, blk |-> a.blk]
      BY <2>1, <2>2, <2>3
    <2>5. i \in Inode
      BY <2>1, InodeFields DEF Inode, Mapped
    <2> HIDE DEF i
    <2>6. Sound(t)
      BY <2>1, <2>5, SetInode DEF Mapped
    <2> HIDE DEF t
    <2>7. Sound(u)
      BY <2>1, <2>6, SetBlockLeads, Constants DEF Mapped, Leads
    <2> HIDE DEF u
    <2> QED
      BY <2>1, <2>4, <2>7 DEF Mapped
  <1> QED
    BY <1>1, <1>2

\* The write through bmap()'s old pointer, whatever is in that buffer by now.
LEMMA SetPointerMaps ==
    ASSUME NEW s, Sound(s), NEW k \in Bufs, s.bufs[k].blk # None, NEW ind, NEW w \in Words
    PROVE  LET a == balloc(s)
           IN  Mapped([s |-> Store([a.s EXCEPT !.stolen = @ \/ a.s.bufs[k].blk # ind],
                                   k, [a.s.bufs[k].data EXCEPT ![w] = a.blk]),
                       blk |-> a.blk])
  <1> DEFINE a == balloc(s)
             d == a.s.stolen \/ a.s.bufs[k].blk # ind
             t == [a.s EXCEPT !.stolen = d]
             data == [a.s.bufs[k].data EXCEPT ![w] = a.blk]
             u == Store(t, k, data)
  <1>1. Leads(s, a.s) /\ Mapped(a)
    BY AllocRecord
  <1>2. a.s.bufs[k].blk # None
    BY <1>1 DEF Leads
  <1> HIDE DEF a
  <1>3. d \in BOOLEAN
    OBVIOUS
  <1> HIDE DEF d
  <1>4. Sound(t) /\ t.bufs = a.s.bufs
    BY <1>1, <1>3, SetStolen DEF Leads, Mapped
  <1>5. data \in Contents
    <2>1. a.s.bufs[k].data \in Contents /\ a.blk \in Blocks
      BY <1>1, SoundFields DEF Mapped
    <2> QED
      BY <2>1 DEF Contents
  <1> HIDE DEF t, data
  <1>6. t.bufs[k].blk # None
    BY <1>2, <1>4
  <1>7. Sound(u)
    BY <1>4, <1>5, <1>6, Stored DEF Leads
  <1> HIDE DEF u
  <1>8. Mapped([s |-> u, blk |-> a.blk])
    BY <1>1, <1>7 DEF Mapped
  <1> QED
    BY <1>8 DEF u, t, data, d, a

LEMMA BmapMaps ==
    ASSUME NEW s, Sound(s), NEW f \in Files, NEW bn \in FileBlocks
    PROVE  Mapped(bmap(s, f, bn))
  <1>1. CASE bn >= NDIRECT
    <2> DEFINE w == bn - NDIRECT + 1
               ind == WithIndirect(s, f)
               r == bread(ind.s, ind.blk)
               a == balloc(r.s)
               p == [s |-> Store([a.s EXCEPT !.stolen = @ \/ a.s.bufs[r.k].blk # ind.blk],
                                 r.k, [a.s.bufs[r.k].data EXCEPT ![w] = a.blk]),
                     blk |-> a.blk]
    <2>1. w \in Words
      BY <1>1, BufCacheAssumption DEF FileBlocks, Words
    <2>2. Mapped(ind)
      BY WithIndirectMaps
    <2>3. bmap(s, f, bn) = IF ind.blk = 0 THEN ind
                           ELSE IF r.s.bufs[r.k].data[w] # 0
                                THEN [s |-> r.s, blk |-> r.s.bufs[r.k].data[w]]
                                ELSE p
      BY <1>1 DEF bmap
    <2> HIDE DEF w, ind
    <2>4. Sound(r.s) /\ r.k \in Bufs /\ r.s.bufs[r.k].blk = ind.blk
      BY <2>2, Bread DEF Mapped, Leads
    <2>5. ind.blk # None
      BY <2>2, Constants DEF Mapped
    <2> HIDE DEF r
    <2>6. r.s.bufs[r.k].data[w] \in Blocks
      <3>1. r.s.bufs[r.k].data \in Contents
        BY <2>4, SoundFields
      <3> QED
        BY <2>1, <3>1 DEF Contents
    <2>7. Mapped(p)
      BY <2>1, <2>4, <2>5, SetPointerMaps
    <2> HIDE DEF p
    <2>8. Mapped([s |-> r.s, blk |-> r.s.bufs[r.k].data[w]])
      BY <2>4, <2>6 DEF Mapped
    <2> QED
      BY <2>2, <2>3, <2>7, <2>8
  <1>2. CASE ~(bn >= NDIRECT)
    <2> DEFINE old == s.ino[f].direct[bn]
               a == balloc(s)
               i == [a.s.ino[f] EXCEPT !.direct[bn] = a.blk]
               t == [a.s EXCEPT !.ino[f] = i]
    <2>1. bn \in 0..(NDIRECT - 1)
      BY <1>2, BufCacheAssumption DEF FileBlocks
    <2>2. old \in Blocks
      BY <2>1, InodeFields
    <2>3. Mapped(a) /\ a = [s |-> a.s, blk |-> a.blk]
      BY AllocRecord
    <2>4. bmap(s, f, bn) = IF old # 0 THEN [s |-> s, blk |-> old]
                           ELSE [a EXCEPT !.s.ino[f].direct[bn] = a.blk]
      BY <1>2 DEF bmap
    <2> HIDE DEF old, a
    <2>5. [a EXCEPT !.s.ino[f].direct[bn] = a.blk] = [s |-> t, blk |-> a.blk]
      BY <2>3
    <2>6. i \in Inode
      BY <2>1, <2>3, InodeFields DEF Inode, Mapped
    <2> HIDE DEF i
    <2>7. Sound(t)
      BY <2>3, <2>6, SetInode DEF Mapped
    <2> HIDE DEF t
    <2> QED
      BY <2>2, <2>3, <2>4, <2>5, <2>7 DEF Mapped
  <1> QED
    BY <1>1, <1>2

LEMMA BmapIsRecord ==
    ASSUME NEW s, Sound(s), NEW f \in Files, NEW bn \in FileBlocks
    PROVE  \E x, y : bmap(s, f, bn) = [s |-> x, blk |-> y]
  <1>1. balloc(s) = [s |-> balloc(s).s, blk |-> balloc(s).blk]
    BY AllocRecord
  <1>2. \E x, y : WithIndirect(s, f) = [s |-> x, blk |-> y]
    BY <1>1 DEF WithIndirect
  <1> HIDE DEF WithIndirect
  <1> QED
    BY <1>1, <1>2 DEF bmap

LEMMA LongestFile == Cardinality(FileBlocks) = NDIRECT + PTRS_PER_BLK
  <1>1. PICK m \in Nat : m = NDIRECT + PTRS_PER_BLK - 1
    BY BufCacheAssumption
  <1>2. 0 \in Int /\ m \in Int /\ ~(0 > m)
    BY <1>1
  <1>3. Cardinality(0..m) = m - 0 + 1
    BY <1>2, FS_Interval
  <1>4. FileBlocks = 0..m
    BY <1>1 DEF FileBlocks
  <1>5. m - 0 + 1 = NDIRECT + PTRS_PER_BLK
    BY <1>1, BufCacheAssumption
  <1> QED
    BY <1>3, <1>4, <1>5

LEMMA WriteMaps ==
    ASSUME NEW s, Sound(s), NEW f \in Files, NEW bn \in FileBlocks, NEW v \in Values
    PROVE  Sound(fs_write(s, f, bn, v).s)
  <1> DEFINE m == bmap(s, f, bn)
             data == [w \in Words |-> v]
             t == SetBlock(m.s, m.blk, data)
             size == IF bn >= t.ino[f].size THEN bn + 1 ELSE t.ino[f].size
             i == [t.ino[f] EXCEPT !.size = size]
             u == [t EXCEPT !.ino[f] = i]
  <1>1. Mapped(m)
    BY BmapMaps
  <1>2. CASE m.blk = 0
    BY <1>1, <1>2 DEF fs_write, Mapped
  <1>3. CASE m.blk # 0
    <2>1. m = [s |-> m.s, blk |-> m.blk]
      <3>1. \E x, y : m = [s |-> x, blk |-> y]
        BY BmapIsRecord
      <3> QED
        BY <3>1
    <2> DEFINE z == fs_iupdate(
                       [t EXCEPT !.ino[f].size = IF bn >= @ THEN bn + 1 ELSE @], f)
    <2>2. fs_write(s, f, bn, v) = [m EXCEPT !.s = z]
      BY <1>3 DEF fs_write
    <2> HIDE DEF m, t
    <2>3. fs_write(s, f, bn, v).s = fs_iupdate(u, f)
      <3>1. z = fs_iupdate(u, f)
        OBVIOUS
      <3> HIDE DEF z
      <3>2. [m EXCEPT !.s = z].s = z
        BY <2>1
      <3> QED
        BY <2>2, <3>1, <3>2
    <2>4. data \in Contents
      BY Constants
    <2>5. Sound(t)
      BY <1>1, <2>4, SetBlockLeads DEF Mapped, Leads, t
    <2>6. size \in 0..Cardinality(FileBlocks)
      <3>1. t.ino[f].size \in 0..(NDIRECT + PTRS_PER_BLK)
        BY <2>5, InodeFields, LongestFile
      <3>2. size \in 0..(NDIRECT + PTRS_PER_BLK)
        BY <3>1, BufCacheAssumption DEF FileBlocks
      <3> QED
        BY <3>2, LongestFile
    <2> HIDE DEF size
    <2>7. i \in Inode
      BY <2>5, <2>6, InodeFields DEF Inode
    <2> HIDE DEF i
    <2>8. Sound(u)
      BY <2>5, <2>7, SetInode
    <2> HIDE DEF u
    <2>9. Sound(fs_iupdate(u, f))
      BY <2>8, InodeUpdateLeads DEF Leads
    <2> QED
      BY <2>3, <2>9
  <1> QED
    BY <1>2, <1>3

LEMMA PutSound ==
    ASSUME NEW s, Sound(s), NEW f \in Files
    PROVE  Sound(fs_iput(s, f))
  <1> DEFINE di == s.ino[f]
             direct == [n \in 1..NDIRECT |-> di.direct[n - 1]]
             t0 == FreeAll(fs_iupdate(s, f), direct)
             ib == bread(t0, di.indirect)
             p == FreePointers(ib.s, ib.k, di.indirect)
             q == bfree(p, di.indirect)
             t1 == IF di.indirect = 0 THEN t0 ELSE q
             u == [t1 EXCEPT !.ino[f] = Empty]
  <1>1. fs_iput(s, f) = fs_iupdate(u, f)
    BY DEF fs_iput, FreeAll
  <1>2. di.indirect \in Blocks /\ direct \in [1..NDIRECT -> Blocks]
    <2>1. /\ di.indirect \in Blocks
          /\ \A n \in 0..(NDIRECT - 1) : di.direct[n] \in Blocks
      BY InodeFields
    <2>2. ASSUME NEW n \in 1..NDIRECT
          PROVE  n - 1 \in 0..(NDIRECT - 1)
      BY BufCacheAssumption
    <2> HIDE DEF di
    <2> QED
      BY <2>1, <2>2
  <1> HIDE DEF di, direct
  <1>3. Sound(t0)
    <2>1. Sound(fs_iupdate(s, f))
      BY InodeUpdateLeads DEF Leads
    <2>2. NDIRECT \in Nat
      BY BufCacheAssumption
    <2> QED
      BY <1>2, <2>1, <2>2, FreeAllLeads DEF Leads
  <1> HIDE DEF t0
  <1>4. Sound(ib.s) /\ ib.k \in Bufs
    BY <1>2, <1>3, Bread DEF Leads
  <1> HIDE DEF ib
  <1>5. Sound(p)
    BY <1>4, FreePointersLeads DEF Leads
  <1> HIDE DEF p
  <1>6. Sound(q)
    BY <1>2, <1>5, FreeLeads DEF Leads
  <1> HIDE DEF q
  <1>7. Sound(t1)
    BY <1>3, <1>6
  <1> HIDE DEF t1
  <1>8. Empty \in Inode
    <2>1. 0 \in 0..Cardinality(FileBlocks)
      BY LongestFile, BufCacheAssumption
    <2> QED
      BY <2>1, Constants DEF Inode, Empty
  <1>9. Sound(u)
    BY <1>7, <1>8, SetInode
  <1> HIDE DEF u
  <1>10. Sound(fs_iupdate(u, f))
    BY <1>9, InodeUpdateLeads DEF Leads
  <1> QED
    BY <1>1, <1>10

-----------------------------------------------------------------------------
(* Steps                                                                   *)

Written == written \in [Files -> [FileBlocks -> {0} \cup Values]]

LEMMA InvIsSound == CacheInv <=> Sound(Mem) /\ Written
  <1>1. Mem \in Memory /\ Written <=> TypeOK
    BY DEF Mem, Memory, TypeOK, Buffer, Contents, Inode, Written
  <1>2. Coherent(Mem) <=> BuffersCoherent /\ \A k \in Bufs : ~bufs[k].dirty
    BY DEF Mem, Coherent, BuffersCoherent
  <1> QED
    BY <1>1, <1>2 DEF CacheInv, Sound

LEMMA BecomesMem ==
    ASSUME NEW s, Sound(s), Become(s)
    PROVE  Mem' = s
  <1>1. s = [bufs |-> s.bufs, disk |-> s.disk, fl |-> s.fl, ino |-> s.ino,
             stolen |-> s.stolen]
    BY MemoryFields DEF Sound
  <1> QED
    BY <1>1 DEF Become, Mem

LEMMA BecomesSound ==
    ASSUME NEW s, Sound(s), Become(s)
    PROVE  Sound(Mem')
  BY BecomesMem

LEMMA InitSound == Init => CacheInv
  <1> SUFFICES ASSUME Init PROVE CacheInv
    OBVIOUS
  <1> DEFINE Chain(b) == IF b < NBLOCKS - 1 THEN b + 1 ELSE 0
             blank == [b \in Blocks |-> IF b = 0 THEN [Zero EXCEPT ![1] = 2]
                                        ELSE IF b = 1 THEN Zero
                                        ELSE [Zero EXCEPT ![1] = Chain(b)]]
             first == [blk |-> 0, dirty |-> FALSE, data |-> blank[0]]
  <1>1. /\ disk = blank
        /\ bufs = [k \in Bufs |-> IF k > 1 THEN Invalid ELSE first]
        /\ free_list = 2
        /\ ino = [f \in Files |-> Empty]
        /\ written = [f \in Files |-> [bn \in FileBlocks |-> 0]]
        /\ stolen = FALSE
    BY DEF Init
  <1>2. \A b \in Blocks : Chain(b) \in Blocks
    BY BufCacheAssumption DEF Blocks
  <1> HIDE DEF Chain
  <1>3. blank \in [Blocks -> Contents]
    <2>1. \A x \in Blocks : [Zero EXCEPT ![1] = x] \in Contents
      BY Constants DEF Contents
    <2> QED
      BY <1>2, <2>1, Constants
  <1> HIDE DEF blank
  <1>4. first \in Buffer /\ Invalid \in Buffer
    BY <1>3, Constants DEF Buffer, Invalid
  <1>5. first.blk = 0 /\ first.dirty = FALSE /\ first.data = blank[0] /\ 0 # None
    BY DEF None
  <1> HIDE DEF first
  <1>6. Empty \in Inode
    <2>1. 0 \in 0..Cardinality(FileBlocks)
      BY LongestFile, BufCacheAssumption
    <2> QED
      BY <2>1, Constants DEF Inode, Empty
  <1>7. Written
    BY <1>1 DEF Written
  <1>8. Mem \in Memory
    <2>1. bufs \in [Bufs -> Buffer]
      BY <1>1, <1>4
    <2>2. disk \in [Blocks -> Contents] /\ free_list \in Blocks
          /\ ino \in [Files -> Inode] /\ stolen \in BOOLEAN
      BY <1>1, <1>3, <1>6, Constants
    <2> QED
      BY <2>1, <2>2 DEF Mem, Memory
  <1>9. Coherent(Mem)
    <2>1. ASSUME NEW k \in Bufs
          PROVE  bufs[k] = IF k = 1 THEN first ELSE Invalid
      BY <1>1, Constants DEF Bufs
    <2>2. Invalid.blk = None /\ Invalid.dirty = FALSE
      BY DEF Invalid
    <2>3. Mem.bufs = bufs /\ Mem.disk = blank
      BY <1>1 DEF Mem
    <2> QED
      BY <1>5, <2>1, <2>2, <2>3 DEF Coherent
  <1> QED
    BY <1>7, <1>8, <1>9, InvIsSound DEF Sound

LEMMA StepSound == CacheInv /\ [Next]_vars => CacheInv'
  <1> SUFFICES ASSUME CacheInv, [Next]_vars PROVE CacheInv'
    OBVIOUS
  <1>1. Sound(Mem) /\ Written
    BY InvIsSound
  <1>2. CacheInv' <=> Sound(Mem)' /\ Written'
    BY InvIsSound, PTL
  <1>3. ASSUME NEW f \in Files, NEW bn \in FileBlocks, NEW v \in Values, Write(f, bn, v)
        PROVE  Sound(Mem') /\ Written'
    <2> DEFINE r == fs_write(Mem, f, bn, v)
    <2>1. Become(r.s) /\ written' = IF r.blk = 0 THEN written ELSE [written EXCEPT ![f][bn] = v]
      BY <1>3 DEF Write
    <2>2. Sound(r.s)
      BY <1>1, WriteMaps
    <2> HIDE DEF r
    <2>3. Sound(Mem')
      BY <2>1, <2>2, BecomesSound
    <2>4. Written'
      BY <1>1, <2>1 DEF Written
    <2> QED
      BY <2>3, <2>4
  <1>4. ASSUME NEW f \in Files, Delete(f)
        PROVE  Sound(Mem') /\ Written'
    <2>1. Sound(Mem')
      BY <1>1, <1>4, PutSound, BecomesSound DEF Delete
    <2>2. Written'
      BY <1>1, <1>4 DEF Written, Delete
    <2> QED
      BY <2>1, <2>2
  <1>5. ASSUME NEW b \in Blocks, Touch(b)
        PROVE  Sound(Mem') /\ Written'
    <2>1. Sound(bread(Mem, b).s)
      BY <1>1, Bread DEF Leads
    <2>2. Sound(Mem')
      BY <1>5, <2>1, BecomesSound DEF Touch
    <2>3. Written'
      BY <1>1, <1>5 DEF Written, Touch
    <2> QED
      BY <2>2, <2>3
  <1>6. CASE UNCHANGED vars
    <2>1. Mem' = Mem /\ written' = written
      BY <1>6 DEF vars, Mem
    <2> QED
      BY <1>1, <1>2, <2>1 DEF Written
  <1> QED
    BY <1>2, <1>3, <1>4, <1>5, <1>6 DEF Next

LEMMA AlwaysSound == Spec => []CacheInv
  BY InitSound, StepSound, PTL DEF Spec

\* Whatever is evicted, and whatever is written through a pointer to a buffer
\* that has been given to another block: buffers, blocks, the head of the free
\* list and the inodes keep to their types, and no file grows past bmap()'s
\* last block.
THEOREM BufCacheTypes == Spec => []TypeOK
  BY AlwaysSound, PTL DEF CacheInv

\* bread() never puts a block in two buffers, and between calls every buffer
\* holds what the disk holds, so that an eviction has nothing to write and a
\* crash takes nothing back.
THEOREM CacheCoherent == Spec => []BuffersCoherent
  BY AlwaysSound, PTL DEF CacheInv

-----------------------------------------------------------------------------
(* What balloc(), bfree() and fs_iupdate() do to the disk                  *)

LEMMA WriteSbEffect ==
    ASSUME NEW s, Sound(s)
    PROVE  LET t == WriteSb(s)
           IN  /\ Leads(s, t) /\ t.fl = s.fl /\ t.stolen = s.stolen
               /\ t.disk[0][1] = s.fl
               /\ \A c \in Blocks \ {0} : t.disk[c] = s.disk[c]
  <1> DEFINE t == WriteSb(s)
  <1>1. s.fl \in Blocks /\ s.disk[0] \in Contents
    BY Constants DEF Sound, Memory
  <1>2. /\ Leads(s, t) /\ DiskSet(s, t, 0, [s.disk[0] EXCEPT ![1] = s.fl])
        /\ t.fl = s.fl /\ t.stolen = s.stolen
    BY <1>1, SetWordLeads, Constants DEF WriteSb
  <1> HIDE DEF t
  <1>3. t.disk[0][1] = s.fl
    BY <1>1, <1>2, Constants DEF DiskSet, Contents
  <1> QED
    BY <1>2, <1>3 DEF DiskSet, t

LEMMA AllocEffect ==
    ASSUME NEW s, Sound(s), s.fl # 0
    PROVE  LET t == balloc(s).s
           IN  /\ Leads(s, t) /\ t.stolen = s.stolen
               /\ t.fl = s.disk[s.fl][1] /\ t.disk[0][1] = t.fl
               /\ \A c \in Blocks \ {0} : t.disk[c] = s.disk[c]
  <1> DEFINE r == bread(s, s.fl)
             v == r.s.bufs[r.k].data[1]
             m == [r.s EXCEPT !.fl = v]
             t == WriteSb(m)
  <1>1. s.fl \in Blocks /\ s.fl # None
    BY Constants DEF Sound, Memory
  <1>2. balloc(s).s = t
    BY DEF balloc
  <1>3. /\ Leads(s, r.s) /\ r.k \in Bufs /\ r.s.bufs[r.k].blk = s.fl
        /\ r.s.disk = s.disk /\ r.s.fl = s.fl /\ r.s.stolen = s.stolen
    BY <1>1, Bread
  <1> HIDE DEF r
  <1>4. Sound(r.s)
    BY <1>3 DEF Leads
  <1>5. r.s.bufs[r.k].data \in Contents /\ r.s.bufs[r.k].data = s.disk[s.fl]
    BY <1>1, <1>3, <1>4, SoundFields DEF Sound, Coherent
  <1>6. v \in Blocks /\ v = s.disk[s.fl][1]
    BY <1>5, Constants DEF Contents
  <1> HIDE DEF v
  <1>7. /\ Leads(r.s, m) /\ m.fl = v
        /\ m.disk = r.s.disk /\ m.stolen = r.s.stolen
    BY <1>4, <1>6, SetHead
  <1> HIDE DEF m
  <1>8. /\ Leads(m, t) /\ t.fl = m.fl /\ t.stolen = m.stolen
        /\ t.disk[0][1] = m.fl
        /\ \A c \in Blocks \ {0} : t.disk[c] = m.disk[c]
    BY <1>7, WriteSbEffect DEF Leads
  <1> HIDE DEF t
  <1>9. Leads(s, t)
    BY <1>3, <1>7, <1>8, LeadsOn
  <1> QED
    BY <1>2, <1>3, <1>6, <1>7, <1>8, <1>9

LEMMA FreeEffect ==
    ASSUME NEW s, Sound(s), NEW b \in Blocks \ {0}
    PROVE  LET t == bfree(s, b)
           IN  /\ Leads(s, t) /\ t.stolen = s.stolen
               /\ t.fl = b /\ t.disk[0][1] = b /\ t.disk[b][1] = s.fl
               /\ \A c \in Blocks \ {0, b} : t.disk[c] = s.disk[c]
  <1> DEFINE data == [Zero EXCEPT ![1] = s.fl]
             m == SetBlock(s, b, data)
             u == [m EXCEPT !.fl = b]
             t == WriteSb(u)
  <1>1. s.fl \in Blocks
    BY DEF Sound, Memory
  <1>2. data \in Contents /\ data[1] = s.fl
    BY <1>1, Constants DEF Contents
  <1>3. bfree(s, b) = t
    BY DEF bfree
  <1> HIDE DEF data
  <1>4. /\ Leads(s, m) /\ DiskSet(s, m, b, data) /\ m.fl = s.fl /\ m.stolen = s.stolen
    BY <1>2, SetBlockLeads
  <1> HIDE DEF m
  <1>5. Leads(m, u) /\ u.fl = b /\ u.disk = m.disk /\ u.stolen = m.stolen
    BY <1>4, SetHead DEF Leads
  <1> HIDE DEF u
  <1>6. /\ Leads(u, t) /\ t.fl = u.fl /\ t.stolen = u.stolen
        /\ t.disk[0][1] = u.fl
        /\ \A c \in Blocks \ {0} : t.disk[c] = u.disk[c]
    BY <1>5, WriteSbEffect DEF Leads
  <1> HIDE DEF t
  <1>7. Leads(s, t)
    BY <1>4, <1>5, <1>6, LeadsOn
  <1> QED
    BY <1>2, <1>3, <1>4, <1>5, <1>6, <1>7 DEF DiskSet

LEMMA InodeUpdateEffect ==
    ASSUME NEW s, Sound(s), NEW f \in Files
    PROVE  LET t == fs_iupdate(s, f)
           IN  /\ Leads(s, t) /\ t.fl = s.fl /\ t.stolen = s.stolen
               /\ \A c \in Blocks \ {1} : t.disk[c] = s.disk[c]
  <1> DEFINE v == s.ino[f].indirect
             data == [s.disk[1] EXCEPT ![f] = v]
             t == SetWord(s, 1, f, v)
  <1>1. v \in Blocks /\ f \in Words
    BY InodeFields, Constants
  <1>2. fs_iupdate(s, f) = t
    BY DEF fs_iupdate
  <1> HIDE DEF v
  <1>3. Leads(s, t) /\ DiskSet(s, t, 1, data) /\ t.fl = s.fl /\ t.stolen = s.stolen
    BY <1>1, SetWordLeads, Constants
  <1> HIDE DEF t, data
  <1> QED
    BY <1>2, <1>3 DEF DiskSet

-----------------------------------------------------------------------------
(* Who has which block                                                     *)

\* The blocks that are on the free list or in files.
Body == Blocks \ {0, 1}

\* The places of a file where the number of a block stands: its direct pointers,
\* the words of its indirect block, and last its indirect pointer.
Final == NDIRECT + PTRS_PER_BLK
Slots == Files \X (0..Final)
At(s, p) ==
    LET i == s.ino[p[1]] IN
    IF p[2] < NDIRECT THEN i.direct[p[2]]
    ELSE IF p[2] = Final THEN i.indirect
    ELSE IF i.indirect = 0 THEN 0 ELSE s.disk[i.indirect][p[2] - NDIRECT + 1]
Used(s, P) == {At(s, p) : p \in P} \ {0}

\* A word of an indirect block counts only while the block does.
Closed(P) == P \in SUBSET Slots /\ \A p \in P : p[2] >= NDIRECT => <<p[1], Final>> \in P

\* The slots P hold different blocks.
Apart(s, P) ==
    \A p \in P : /\ At(s, p) \in Body \cup {0}
                 /\ \A q \in P \ {p} : At(s, q) = At(s, p) => At(s, p) = 0

\* The free list is the chain of the blocks q[0], ..., q[n - 1].
ChainOf(s, n, q) ==
    /\ q \in [0..n -> Body \cup {0}] /\ q[0] = s.fl /\ q[n] = 0
    /\ \A i \in 0..(n - 1) : /\ q[i] # 0 /\ s.disk[q[i]][1] = q[i + 1]
                             /\ \A j \in 0..(n - 1) : q[j] = q[i] => j = i
Links(n, q) == {q[i] : i \in 0..(n - 1)}
FreeList(s, U) == \E n \in Nat : \E q : ChainOf(s, n, q) /\ U = Links(n, q)

\* Every block is on the free list, in a slot of P, or in the hands of the
\* function that is running, which has X.
Balanced(s, P, X) ==
    /\ Sound(s) /\ Closed(P) /\ Apart(s, P)
    /\ X \in SUBSET (Body \ Used(s, P))
    /\ FreeList(s, Body \ (Used(s, P) \cup X))
    /\ s.disk[0][1] = s.fl

\* The slots P keep their blocks, and those that are not indirect blocks their
\* contents.
Kept(s, t, P) ==
    \A p \in P : At(s, p) # 0 =>
        At(t, p) = At(s, p) /\ (p[2] # Final => t.disk[At(s, p)] = s.disk[At(s, p)])

LEMMA SlotTypes ==
    ASSUME NEW s, Sound(s), NEW p \in Slots
    PROVE  /\ p[1] \in Files /\ p[2] \in 0..Final /\ p = <<p[1], p[2]>>
           /\ NDIRECT \in Nat /\ NDIRECT > 0 /\ PTRS_PER_BLK \in Nat /\ PTRS_PER_BLK > 0
           /\ Final \in Nat /\ Final > NDIRECT
           /\ At(s, p) \in Blocks
  <1>1. /\ NDIRECT \in Nat /\ NDIRECT > 0 /\ PTRS_PER_BLK \in Nat /\ PTRS_PER_BLK > 0
        /\ Final \in Nat /\ Final > NDIRECT
    BY BufCacheAssumption DEF Final
  <1>2. p[1] \in Files /\ p[2] \in 0..Final /\ p = <<p[1], p[2]>>
    BY DEF Slots
  <1>3. /\ s.ino[p[1]].indirect \in Blocks
        /\ \A n \in 0..(NDIRECT - 1) : s.ino[p[1]].direct[n] \in Blocks
    BY <1>2, InodeFields
  <1>4. CASE p[2] < NDIRECT
    <2>1. p[2] \in 0..(NDIRECT - 1)
      BY <1>1, <1>2, <1>4
    <2>2. At(s, p) = s.ino[p[1]].direct[p[2]]
      BY <1>4 DEF At
    <2> QED
      BY <1>1, <1>2, <1>3, <2>1, <2>2
  <1>5. CASE ~(p[2] < NDIRECT) /\ p[2] = Final
    BY <1>1, <1>2, <1>3, <1>5 DEF At
  <1>6. CASE ~(p[2] < NDIRECT) /\ p[2] # Final
    <2>1. p[2] - NDIRECT + 1 \in Words
      BY <1>1, <1>2, <1>6 DEF Final, Words
    <2>2. s.disk[s.ino[p[1]].indirect] \in Contents
      BY <1>3 DEF Sound, Memory
    <2>3. s.disk[s.ino[p[1]].indirect][p[2] - NDIRECT + 1] \in Blocks
      BY <2>1, <2>2 DEF Contents
    <2>4. At(s, p) = IF s.ino[p[1]].indirect = 0 THEN 0
                     ELSE s.disk[s.ino[p[1]].indirect][p[2] - NDIRECT + 1]
      BY <1>6 DEF At
    <2> QED
      BY <1>1, <1>2, <2>3, <2>4, Constants
  <1> QED
    BY <1>4, <1>5, <1>6

\* A slot changes only with the inode, or with the indirect block that it is in.
LEMMA SameSlots ==
    ASSUME NEW s, Sound(s), NEW P, Closed(P), NEW t,
           \A p \in P : /\ t.ino[p[1]].direct = s.ino[p[1]].direct
                        /\ t.ino[p[1]].indirect = s.ino[p[1]].indirect,
           \A p \in P : p[2] = Final /\ At(s, p) # 0 => t.disk[At(s, p)] = s.disk[At(s, p)]
    PROVE  /\ \A p \in P : At(t, p) = At(s, p)
           /\ Used(t, P) = Used(s, P)
           /\ Apart(s, P) => Apart(t, P)
  <1>1. ASSUME NEW p \in P
        PROVE  At(t, p) = At(s, p)
    <2>1. p \in Slots
      BY DEF Closed
    <2>2. /\ p[1] \in Files /\ p[2] \in 0..Final /\ NDIRECT \in Nat
          /\ Final \in Nat /\ ~(Final < NDIRECT)
          /\ t.ino[p[1]].direct = s.ino[p[1]].direct
          /\ t.ino[p[1]].indirect = s.ino[p[1]].indirect
      BY <2>1, SlotTypes
    <2>3. CASE p[2] >= NDIRECT /\ s.ino[p[1]].indirect # 0
      <3> DEFINE l == <<p[1], Final>>
      <3>1. l \in P /\ l[1] = p[1] /\ l[2] = Final
        BY <2>3 DEF Closed
      <3> HIDE DEF l
      <3>2. At(s, l) = s.ino[l[1]].indirect
        BY <2>2, <3>1 DEF At
      <3>3. t.disk[s.ino[p[1]].indirect] = s.disk[s.ino[p[1]].indirect]
        BY <2>3, <3>1, <3>2
      <3> QED
        BY <2>2, <3>3 DEF At
    <2>4. CASE ~(p[2] >= NDIRECT) \/ s.ino[p[1]].indirect = 0
      <3>1. CASE p[2] < NDIRECT
        BY <2>2, <3>1 DEF At
      <3>2. CASE ~(p[2] < NDIRECT)
        <4>1. s.ino[p[1]].indirect = 0 /\ t.ino[p[1]].indirect = 0
          BY <2>2, <2>4, <3>2
        <4>2. At(s, p) = 0 /\ At(t, p) = 0
          BY <3>2, <4>1 DEF At
        <4> QED
          BY <4>2
      <3> QED
        BY <3>1, <3>2
    <2> QED
      BY <2>3, <2>4
  <1>2. Used(t, P) = Used(s, P)
    BY <1>1 DEF Used
  <1>3. Apart(s, P) => Apart(t, P)
    BY <1>1 DEF Apart
  <1> QED
    BY <1>1, <1>2, <1>3

\* Whatever is written elsewhere, the slots P stay what they are.
LEMMA Elsewhere ==
    ASSUME NEW s, Sound(s), NEW P, Closed(P), NEW t,
           \A p \in P : /\ t.ino[p[1]].direct = s.ino[p[1]].direct
                        /\ t.ino[p[1]].indirect = s.ino[p[1]].indirect,
           \A c \in Used(s, P) : t.disk[c] = s.disk[c]
    PROVE  /\ \A p \in P : At(t, p) = At(s, p)
           /\ Used(t, P) = Used(s, P)
           /\ Apart(s, P) => Apart(t, P)
           /\ Kept(s, t, P)
  <1>1. \A p \in P : At(s, p) # 0 => t.disk[At(s, p)] = s.disk[At(s, p)]
    BY DEF Used
  <1>2. /\ \A p \in P : At(t, p) = At(s, p)
        /\ Used(t, P) = Used(s, P)
        /\ Apart(s, P) => Apart(t, P)
    BY <1>1, SameSlots
  <1> QED
    BY <1>1, <1>2 DEF Kept

-----------------------------------------------------------------------------
(* The free list as a chain                                                *)

LEMMA ListSame ==
    ASSUME NEW s, NEW t, NEW U, FreeList(s, U), t.fl = s.fl,
           \A c \in U : t.disk[c] = s.disk[c]
    PROVE  FreeList(t, U)
  <1>1. PICK n \in Nat : \E q : ChainOf(s, n, q) /\ U = Links(n, q)
    BY DEF FreeList
  <1>2. PICK q : ChainOf(s, n, q) /\ U = Links(n, q)
    BY <1>1
  <1>3. \A i \in 0..(n - 1) : t.disk[q[i]] = s.disk[q[i]]
    BY <1>2 DEF Links
  <1>4. ChainOf(t, n, q)
    BY <1>2, <1>3 DEF ChainOf
  <1> QED
    BY <1>2, <1>4 DEF FreeList

\* balloc() takes the head of the list.
LEMMA ListPop ==
    ASSUME NEW s, NEW t, NEW U, FreeList(s, U), s.fl # 0, t.fl = s.disk[s.fl][1],
           \A c \in U : t.disk[c] = s.disk[c]
    PROVE  s.fl \in U /\ FreeList(t, U \ {s.fl})
  <1>1. PICK n \in Nat : \E q : ChainOf(s, n, q) /\ U = Links(n, q)
    BY DEF FreeList
  <1>2. PICK q : ChainOf(s, n, q) /\ U = Links(n, q)
    BY <1>1
  <1>3. n # 0
    BY <1>2 DEF ChainOf
  <1>4. PICK m \in Nat : m = n - 1
    BY <1>3
  <1> DEFINE r == [i \in 0..m |-> q[i + 1]]
  <1>5. /\ 0 \in 0..(n - 1) /\ 0 \in 0..m
        /\ \A i \in 0..(m - 1) : i + 1 \in 0..(n - 1) /\ i \in 0..m /\ i + 1 \in 0..m
        /\ \A i \in 0..m : i + 1 \in 0..n
        /\ \A i \in 0..(n - 1) : i # 0 => i - 1 \in 0..(m - 1) /\ (i - 1) + 1 = i
    BY <1>3, <1>4
  <1>6. s.fl \in U /\ q[0] = s.fl
    BY <1>2, <1>5 DEF ChainOf, Links
  <1>7. ASSUME NEW i \in 0..(m - 1)
        PROVE  /\ r[i] = q[i + 1] /\ r[i] # 0 /\ r[i + 1] = q[(i + 1) + 1]
               /\ t.disk[r[i]][1] = r[i + 1]
               /\ \A j \in 0..(m - 1) : r[j] = r[i] => j = i
    <2>1. /\ q[i + 1] # 0 /\ q[i + 1] \in U /\ s.disk[q[i + 1]][1] = q[(i + 1) + 1]
          /\ \A j \in 0..(n - 1) : q[j] = q[i + 1] => j = i + 1
      BY <1>2, <1>5 DEF ChainOf, Links
    <2>2. r[i] = q[i + 1] /\ r[i + 1] = q[(i + 1) + 1]
      BY <1>5
    <2>3. ASSUME NEW j \in 0..(m - 1), r[j] = r[i]
          PROVE  j = i
      <3>1. r[j] = q[j + 1] /\ j + 1 \in 0..(n - 1)
        BY <1>5
      <3>2. j + 1 = i + 1
        BY <2>1, <2>2, <2>3, <3>1
      <3> QED
        BY <3>2
    <2> QED
      BY <2>1, <2>2, <2>3
  <1>8. r \in [0..m -> Body \cup {0}] /\ r[0] = t.fl /\ r[m] = 0
    <2>1. q \in [0..n -> Body \cup {0}] /\ q[n] = 0 /\ s.disk[q[0]][1] = q[0 + 1]
      BY <1>2, <1>5 DEF ChainOf
    <2>2. r[0] = q[0 + 1] /\ r[m] = q[n]
      BY <1>4, <1>5
    <2> QED
      BY <1>5, <1>6, <2>1, <2>2
  <1>9. U \ {s.fl} = Links(m, r)
    <2>1. ASSUME NEW c \in U \ {s.fl}
          PROVE  c \in Links(m, r)
      <3>1. PICK i \in 0..(n - 1) : c = q[i]
        BY <1>2 DEF Links
      <3>2. i # 0
        BY <1>6, <3>1
      <3>3. i - 1 \in 0..(m - 1) /\ (i - 1) + 1 = i
        BY <1>5, <3>2
      <3>4. c = r[i - 1]
        BY <1>5, <3>1, <3>3
      <3> QED
        BY <3>3, <3>4 DEF Links
    <2>2. ASSUME NEW i \in 0..(m - 1)
          PROVE  r[i] \in U \ {s.fl}
      <3>1. r[i] = q[i + 1] /\ i + 1 \in 0..(n - 1)
        BY <1>5, <1>7
      <3>2. r[i] \in U
        BY <1>2, <3>1 DEF Links
      <3>3. q[0] # q[i + 1]
        BY <1>2, <1>5, <3>1 DEF ChainOf
      <3> QED
        BY <1>6, <3>1, <3>2, <3>3
    <2> HIDE DEF r
    <2> QED
      BY <2>1, <2>2 DEF Links
  <1> HIDE DEF r
  <1>10. ChainOf(t, m, r)
    BY <1>7, <1>8 DEF ChainOf
  <1> QED
    BY <1>6, <1>9, <1>10 DEF FreeList

\* bfree() puts a block before the head.
LEMMA ListPush ==
    ASSUME NEW s, NEW t, NEW U, FreeList(s, U), NEW b \in Body \ U,
           t.fl = b, t.disk[b][1] = s.fl, \A c \in U : t.disk[c] = s.disk[c]
    PROVE  FreeList(t, U \cup {b})
  <1>1. PICK n \in Nat : \E q : ChainOf(s, n, q) /\ U = Links(n, q)
    BY DEF FreeList
  <1>2. PICK q : ChainOf(s, n, q) /\ U = Links(n, q)
    BY <1>1
  <1>3. PICK m \in Nat : m = n + 1
    OBVIOUS
  <1> DEFINE r == [i \in 0..m |-> IF i = 0 THEN b ELSE q[i - 1]]
  <1>4. /\ 0 \in 0..m /\ 0 \in 0..(m - 1) /\ m \in 0..m /\ m # 0 /\ m - 1 = n
        /\ \A i \in 0..(m - 1) : i # 0 => i - 1 \in 0..(n - 1) /\ (i - 1) + 1 = i
        /\ \A i \in 0..(m - 1) : i \in 0..m /\ i + 1 \in 0..m /\ i + 1 # 0 /\ (i + 1) - 1 = i
        /\ \A i \in 0..m : i # 0 => i - 1 \in 0..n
        /\ \A i \in 0..(n - 1) : i + 1 \in 0..(m - 1)
    BY <1>3
  <1>5. /\ q \in [0..n -> Body \cup {0}] /\ q[0] = s.fl /\ q[n] = 0
        /\ \A i \in 0..(n - 1) : /\ q[i] # 0 /\ s.disk[q[i]][1] = q[i + 1]
                                 /\ \A j \in 0..(n - 1) : q[j] = q[i] => j = i
        /\ \A i \in 0..(n - 1) : q[i] \in U
    BY <1>2 DEF ChainOf, Links
  <1>6. r \in [0..m -> Body \cup {0}] /\ r[0] = b /\ r[m] = 0
    BY <1>4, <1>5
  <1>7. /\ \A i \in 0..m : i # 0 => r[i] = q[i - 1]
        /\ \A i \in 0..(m - 1) : r[i + 1] = q[i]
        /\ \A i \in 0..(m - 1) : i # 0 => r[i] \in U
    BY <1>4, <1>5
  <1> HIDE DEF r
  <1>8. b # 0 /\ b \notin U
    BY DEF Body
  <1>9. ASSUME NEW i \in 0..(m - 1)
        PROVE  /\ r[i] # 0 /\ t.disk[r[i]][1] = r[i + 1]
               /\ \A j \in 0..(m - 1) : r[j] = r[i] => j = i
    <2>1. CASE i = 0
      <3>1. r[i] = b /\ r[i + 1] = q[0]
        BY <1>4, <1>6, <1>7, <2>1
      <3>2. \A j \in 0..(m - 1) : j # 0 => r[j] # b
        BY <1>7, <1>8
      <3>3. r[i] # 0 /\ t.disk[r[i]][1] = r[i + 1]
        <4>1. t.disk[b][1] = s.fl /\ s.fl = q[0]
          BY <1>5
        <4>2. t.disk[r[i]][1] = q[0]
          BY <3>1, <4>1
        <4> QED
          BY <1>8, <3>1, <4>2
      <3>4. \A j \in 0..(m - 1) : r[j] = r[i] => j = i
        BY <2>1, <3>1, <3>2
      <3> QED
        BY <3>3, <3>4
    <2>2. CASE i # 0
      <3>1. i - 1 \in 0..(n - 1) /\ r[i] = q[i - 1] /\ r[i + 1] = q[(i - 1) + 1] /\ r[i] \in U
        BY <1>4, <1>7, <2>2
      <3>2. r[i] # 0 /\ t.disk[r[i]][1] = r[i + 1]
        BY <1>5, <3>1
      <3>3. ASSUME NEW j \in 0..(m - 1), r[j] = r[i]
            PROVE  j = i
        <4>1. j # 0
          BY <1>6, <1>8, <3>1, <3>3
        <4>2. j - 1 \in 0..(n - 1) /\ r[j] = q[j - 1]
          BY <1>4, <1>7, <4>1
        <4>3. \A x, y \in 0..(n - 1) : q[x] = q[y] => x = y
          BY <1>5
        <4>4. q[j - 1] = q[i - 1]
          BY <3>1, <3>3, <4>2
        <4>5. j - 1 = i - 1
          BY <3>1, <4>2, <4>3, <4>4
        <4> QED
          BY <4>5
      <3> QED
        BY <3>2, <3>3
    <2> QED
      BY <2>1, <2>2
  <1>10. U \cup {b} = Links(m, r)
    <2>1. ASSUME NEW c \in U
          PROVE  c \in Links(m, r)
      <3>1. PICK i \in 0..(n - 1) : c = q[i]
        BY <1>2 DEF Links
      <3>2. i + 1 \in 0..(m - 1) /\ i \in 0..(m - 1) /\ r[i + 1] = q[i]
        BY <1>3, <1>4, <1>7
      <3> QED
        BY <3>1, <3>2 DEF Links
    <2>2. b \in Links(m, r)
      BY <1>4, <1>6 DEF Links
    <2>3. ASSUME NEW i \in 0..(m - 1)
          PROVE  r[i] \in U \cup {b}
      BY <1>6, <1>7
    <2> QED
      BY <2>1, <2>2, <2>3 DEF Links
  <1>11. ChainOf(t, m, r)
    BY <1>6, <1>9 DEF ChainOf
  <1> QED
    BY <1>10, <1>11 DEF FreeList

-----------------------------------------------------------------------------
(* Blocks change hands                                                     *)

\* Nothing changes but blocks nobody has.
LEMMA BalanceStays ==
    ASSUME NEW s, NEW P, NEW X, Balanced(s, P, X), NEW t, Sound(t), t.fl = s.fl,
           \A p \in P : /\ t.ino[p[1]].direct = s.ino[p[1]].direct
                        /\ t.ino[p[1]].indirect = s.ino[p[1]].indirect,
           \A c \in Blocks \ {1} : t.disk[c] = s.disk[c]
    PROVE  /\ Balanced(t, P, X) /\ Kept(s, t, P)
           /\ \A p \in P : At(t, p) = At(s, p)
  <1>1. Sound(s) /\ Closed(P) /\ Apart(s, P)
    BY DEF Balanced
  <1>2. \A c \in Used(s, P) : c \in Body
    BY <1>1 DEF Used, Apart
  <1>3. \A c \in Used(s, P) : t.disk[c] = s.disk[c]
    BY <1>2 DEF Body
  <1>4. /\ \A p \in P : At(t, p) = At(s, p)
        /\ Used(t, P) = Used(s, P) /\ Apart(t, P) /\ Kept(s, t, P)
    BY <1>1, <1>3, Elsewhere
  <1> DEFINE U == Body \ (Used(s, P) \cup X)
  <1>5. FreeList(s, U) /\ \A c \in U : t.disk[c] = s.disk[c]
    BY DEF Balanced, Body
  <1> HIDE DEF U
  <1>6. FreeList(t, U)
    BY <1>5, ListSame
  <1>7. t.disk[0][1] = t.fl
    BY Constants DEF Balanced
  <1> QED
    BY <1>1, <1>4, <1>6, <1>7 DEF Balanced, U

\* balloc() gives the function a block that nobody has.
LEMMA BalanceAlloc ==
    ASSUME NEW s, NEW P, Balanced(s, P, {}), s.fl # 0
    PROVE  LET t == balloc(s).s
           IN  /\ Balanced(t, P, {s.fl}) /\ Kept(s, t, P)
               /\ \A p \in P : At(t, p) = At(s, p)
               /\ s.fl \in Body \ Used(s, P)
               /\ \A c \in Blocks \ {0} : t.disk[c] = s.disk[c]
  <1> DEFINE t == balloc(s).s
             U == Body \ (Used(s, P) \cup {})
  <1>1. Sound(s) /\ Closed(P) /\ Apart(s, P)
    BY DEF Balanced
  <1>2. /\ Leads(s, t) /\ t.stolen = s.stolen
        /\ t.fl = s.disk[s.fl][1] /\ t.disk[0][1] = t.fl
        /\ \A c \in Blocks \ {0} : t.disk[c] = s.disk[c]
    BY <1>1, AllocEffect
  <1> HIDE DEF t
  <1>3. \A c \in Used(s, P) : t.disk[c] = s.disk[c]
    <2>1. \A c \in Used(s, P) : c \in Body
      BY <1>1 DEF Used, Apart
    <2> QED
      BY <1>2, <2>1 DEF Body
  <1>4. t.ino = s.ino
    BY <1>2 DEF Leads
  <1>5. /\ \A p \in P : At(t, p) = At(s, p)
        /\ Used(t, P) = Used(s, P) /\ Apart(t, P) /\ Kept(s, t, P)
    BY <1>1, <1>3, <1>4, Elsewhere
  <1>6. FreeList(s, U) /\ \A c \in U : t.disk[c] = s.disk[c]
    BY <1>2 DEF Balanced, Body
  <1>7. U = Body \ Used(s, P)
    OBVIOUS
  <1> HIDE DEF U
  <1>8. s.fl \in U /\ FreeList(t, U \ {s.fl})
    BY <1>2, <1>6, ListPop
  <1>9. U \ {s.fl} = Body \ (Used(t, P) \cup {s.fl})
    BY <1>5, <1>7
  <1>10. Balanced(t, P, {s.fl})
    BY <1>1, <1>2, <1>5, <1>7, <1>8, <1>9 DEF Balanced, Leads
  <1> QED
    BY <1>2, <1>5, <1>7, <1>8, <1>10 DEF t

\* bfree() puts what the function has back on the list.
LEMMA BalanceFree ==
    ASSUME NEW s, NEW P, NEW b, Balanced(s, P, {b})
    PROVE  LET t == bfree(s, b)
           IN  /\ Balanced(t, P, {}) /\ Kept(s, t, P)
               /\ \A p \in P : At(t, p) = At(s, p)
               /\ t.stolen = s.stolen /\ Leads(s, t)
  <1> DEFINE t == bfree(s, b)
             U == Body \ (Used(s, P) \cup {b})
  <1>1. Sound(s) /\ Closed(P) /\ Apart(s, P) /\ b \in Body /\ b \notin Used(s, P)
    BY DEF Balanced
  <1>2. /\ Leads(s, t) /\ t.stolen = s.stolen
        /\ t.fl = b /\ t.disk[0][1] = b /\ t.disk[b][1] = s.fl
        /\ \A c \in Blocks \ {0, b} : t.disk[c] = s.disk[c]
    <2>1. b \in Blocks \ {0}
      BY <1>1 DEF Body
    <2> QED
      BY <1>1, <2>1, FreeEffect
  <1> HIDE DEF t
  <1>3. \A c \in Used(s, P) : t.disk[c] = s.disk[c]
    <2>1. \A c \in Used(s, P) : c \in Body
      BY <1>1 DEF Used, Apart
    <2> QED
      BY <1>1, <1>2, <2>1 DEF Body
  <1>4. t.ino = s.ino
    BY <1>2 DEF Leads
  <1>5. /\ \A p \in P : At(t, p) = At(s, p)
        /\ Used(t, P) = Used(s, P) /\ Apart(t, P) /\ Kept(s, t, P)
    BY <1>1, <1>3, <1>4, Elsewhere
  <1>6. FreeList(s, U) /\ \A c \in U : t.disk[c] = s.disk[c]
    BY <1>2 DEF Balanced, Body
  <1>7. b \in Body \ U /\ U \cup {b} = Body \ (Used(t, P) \cup {})
    BY <1>1, <1>5
  <1> HIDE DEF U
  <1>8. FreeList(t, U \cup {b})
    BY <1>2, <1>6, <1>7, ListPush
  <1>9. Balanced(t, P, {})
    BY <1>1, <1>2, <1>5, <1>7, <1>8 DEF Balanced, Leads
  <1> QED
    BY <1>2, <1>5, <1>9 DEF t

\* A slot that was empty takes what the function has.
LEMMA BalanceTake ==
    ASSUME NEW s, NEW P, NEW b, Balanced(s, P, {b}), NEW p \in P, At(s, p) = 0,
           NEW t, Sound(t), t.fl = s.fl, t.disk[0] = s.disk[0],
           \A c \in Body \ (Used(s, P) \cup {b}) : t.disk[c] = s.disk[c],
           At(t, p) = b, \A r \in P \ {p} : At(t, r) = At(s, r)
    PROVE  Balanced(t, P, {})
  <1>1. /\ Sound(s) /\ Closed(P) /\ Apart(s, P) /\ b \in Body /\ b \notin Used(s, P)
        /\ b # 0
    BY DEF Balanced, Body
  <1> DEFINE U == Body \ (Used(s, P) \cup {b})
  <1>2. FreeList(s, U) /\ \A c \in U : t.disk[c] = s.disk[c]
    BY DEF Balanced
  <1>3. Used(t, P) = Used(s, P) \cup {b}
    BY <1>1 DEF Used
  <1>4. U = Body \ (Used(t, P) \cup {})
    BY <1>3
  <1> HIDE DEF U
  <1>5. FreeList(t, U)
    BY <1>2, ListSame
  <1>6. \A r \in P : At(s, r) # b
    BY <1>1 DEF Used
  <1>7. Apart(t, P)
    <2> SUFFICES ASSUME NEW r \in P
                 PROVE  /\ At(t, r) \in Body \cup {0}
                        /\ \A q \in P \ {r} : At(t, q) = At(t, r) => At(t, r) = 0
      BY DEF Apart
    <2>1. CASE r = p
      BY <1>1, <1>6, <2>1
    <2>2. CASE r # p
      <3>1. /\ At(s, r) \in Body \cup {0}
            /\ \A q \in P \ {r} : At(s, q) = At(s, r) => At(s, r) = 0
        BY <1>1 DEF Apart
      <3>2. At(t, r) = At(s, r) /\ \A q \in P \ {p} : At(t, q) = At(s, q)
        BY <2>2
      <3> QED
        BY <1>6, <3>1, <3>2
    <2> QED
      BY <2>1, <2>2
  <1>8. t.disk[0][1] = t.fl
    BY DEF Balanced
  <1> QED
    BY <1>1, <1>4, <1>5, <1>7, <1>8 DEF Balanced

\* fs_iput() stops looking at a slot.
LEMMA BalanceRelease ==
    ASSUME NEW s, NEW P, Balanced(s, P, {}), NEW p \in P, Closed(P \ {p})
    PROVE  Balanced(s, P \ {p}, {At(s, p)} \ {0})
  <1> DEFINE R == P \ {p}
             X == {At(s, p)} \ {0}
  <1>1. Sound(s) /\ Closed(P) /\ Apart(s, P)
    BY DEF Balanced
  <1>2. At(s, p) \in Body \cup {0} /\ \A q \in R : At(s, q) = At(s, p) => At(s, p) = 0
    BY <1>1 DEF Apart
  <1>3. Used(s, P) \cup {} = Used(s, R) \cup X
    BY DEF Used
  <1>4. X \in SUBSET (Body \ Used(s, R))
    BY <1>2 DEF Used
  <1>5. Apart(s, R)
    BY <1>1 DEF Apart
  <1> HIDE DEF R, X
  <1>6. FreeList(s, Body \ (Used(s, R) \cup X))
    BY <1>3 DEF Balanced
  <1>7. Balanced(s, R, X)
    BY <1>1, <1>4, <1>5, <1>6 DEF Balanced, R
  <1> QED
    BY <1>7 DEF R, X

\* "if (ptrs[i] != 0) bfree(ptrs[i])"
LEMMA BalanceFreeIfAny ==
    ASSUME NEW s, NEW P, Balanced(s, P, {}), NEW p \in P, Closed(P \ {p})
    PROVE  LET t == FreeIfAny(s, At(s, p))
           IN  /\ Balanced(t, P \ {p}, {}) /\ Kept(s, t, P \ {p})
               /\ \A r \in P \ {p} : At(t, r) = At(s, r)
               /\ t.stolen = s.stolen
  <1> DEFINE b == At(s, p)
             R == P \ {p}
             t == FreeIfAny(s, b)
  <1>1. Balanced(s, R, {b} \ {0})
    BY BalanceRelease
  <1> HIDE DEF b, R
  <1>2. CASE b = 0
    <2>1. t = s /\ {b} \ {0} = {}
      BY <1>2 DEF FreeIfAny
    <2>2. Kept(s, s, R)
      BY DEF Kept
    <2> HIDE DEF t
    <2> QED
      BY <1>1, <2>1, <2>2 DEF t, R, b
  <1>3. CASE b # 0
    <2>1. t = bfree(s, b) /\ {b} \ {0} = {b}
      BY <1>3 DEF FreeIfAny
    <2>2. Balanced(s, R, {b})
      BY <1>1, <2>1
    <2> HIDE DEF t
    <2>3. /\ Balanced(t, R, {}) /\ Kept(s, t, R)
          /\ \A r \in R : At(t, r) = At(s, r)
          /\ t.stolen = s.stolen
      BY <2>1, <2>2, BalanceFree
    <2> QED
      BY <2>3 DEF t, R, b
  <1> QED
    BY <1>2, <1>3

-----------------------------------------------------------------------------
(* The slots of one file                                                   *)

LEMMA KeptOn ==
    ASSUME NEW s, NEW t, NEW u, NEW P, Kept(s, t, P), Kept(t, u, P)
    PROVE  Kept(s, u, P)
  BY DEF Kept

LEMMA SameKept ==
    ASSUME NEW s, NEW P
    PROVE  Kept(s, s, P)
  BY DEF Kept

\* The slots of the files but f.
Others(f) == {p \in Slots : p[1] # f}

LEMMA ClosedSlots ==
    ASSUME NEW f \in Files
    PROVE  /\ Closed(Slots) /\ Closed(Others(f))
           /\ Final \in Nat /\ NDIRECT \in Nat /\ NDIRECT > 0 /\ Final > NDIRECT
           /\ \A n \in 0..Final : <<f, n>> \in Slots /\ <<f, n>> \notin Others(f)
           /\ \A p \in Slots \ Others(f) : p[2] \in 0..Final /\ p = <<f, p[2]>>
  <1>1. /\ Final \in Nat /\ NDIRECT \in Nat /\ NDIRECT > 0 /\ Final > NDIRECT
    BY BufCacheAssumption DEF Final
  <1>2. ASSUME NEW p \in Slots
        PROVE  /\ p[1] \in Files /\ p[2] \in 0..Final /\ p = <<p[1], p[2]>>
               /\ <<p[1], Final>> \in Slots
    BY <1>1 DEF Slots
  <1>3. Closed(Slots)
    BY <1>2 DEF Closed
  <1>4. Closed(Others(f))
    BY <1>2 DEF Closed, Others
  <1>5. \A n \in 0..Final : <<f, n>> \in Slots /\ <<f, n>> \notin Others(f)
    BY DEF Slots, Others
  <1>6. \A p \in Slots \ Others(f) : p[2] \in 0..Final /\ p = <<f, p[2]>>
    BY <1>2 DEF Others
  <1> QED
    BY <1>1, <1>3, <1>4, <1>5, <1>6

\* What other files have is not touched by writing to the blocks of f.
LEMMA OthersSame ==
    ASSUME NEW s, NEW X, Balanced(s, Slots, X), NEW f \in Files, NEW t,
           \A g \in Files \ {f} : t.ino[g] = s.ino[g],
           \A c \in Body \ X :
              (\A p \in Slots \ Others(f) : At(s, p) # c) => t.disk[c] = s.disk[c]
    PROVE  \A p \in Others(f) :
              At(t, p) = At(s, p) /\ (At(s, p) # 0 => t.disk[At(s, p)] = s.disk[At(s, p)])
  <1>1. Sound(s) /\ Apart(s, Slots) /\ X \in SUBSET (Body \ Used(s, Slots))
    BY DEF Balanced
  <1>2. Closed(Others(f)) /\ Others(f) \in SUBSET Slots
    BY ClosedSlots DEF Others
  <1>3. ASSUME NEW c \in Used(s, Others(f))
        PROVE  t.disk[c] = s.disk[c]
    <2>1. PICK p \in Others(f) : c = At(s, p) /\ c # 0
      BY DEF Used
    <2>2. c \in Body /\ c \in Used(s, Slots)
      BY <1>1, <1>2, <2>1 DEF Apart, Used
    <2>3. \A q \in Slots \ Others(f) : At(s, q) # c
      BY <1>1, <1>2, <2>1 DEF Apart
    <2> QED
      BY <1>1, <2>2, <2>3
  <1>4. \A p \in Others(f) : t.ino[p[1]] = s.ino[p[1]]
    BY DEF Others, Slots
  <1>5. \A p \in Others(f) : At(t, p) = At(s, p)
    BY <1>1, <1>2, <1>3, <1>4, Elsewhere
  <1>6. \A p \in Others(f) : At(s, p) # 0 => At(s, p) \in Used(s, Others(f))
    BY DEF Used
  <1> QED
    BY <1>3, <1>5, <1>6

\* An inode's indirect pointer takes a new block, which is cleared.
LEMMA IndirectTaken ==
    ASSUME NEW s, NEW b, Balanced(s, Slots, {b}), NEW f \in Files, s.ino[f].indirect = 0,
           NEW t, Sound(t), t.fl = s.fl,
           t.ino[f].indirect = b, t.ino[f].direct = s.ino[f].direct,
           \A g \in Files \ {f} : t.ino[g] = s.ino[g],
           t.disk[b] = Zero, \A c \in Blocks : c # b => t.disk[c] = s.disk[c]
    PROVE  Balanced(t, Slots, {}) /\ Kept(s, t, Slots)
  <1> DEFINE p == <<f, Final>>
  <1>1. b \in Body /\ b \notin Used(s, Slots) /\ b # 0 /\ Apart(s, Slots) /\ Body \in SUBSET Blocks
    BY DEF Balanced, Body
  <1>2. \A r \in Others(f) :
           At(t, r) = At(s, r) /\ (At(s, r) # 0 => t.disk[At(s, r)] = s.disk[At(s, r)])
    BY <1>1, OthersSame
  <1>3. p \in Slots /\ p[1] = f /\ p[2] = Final
    BY ClosedSlots
  <1>4. At(s, p) = 0 /\ At(t, p) = b
    BY <1>3, ClosedSlots DEF At
  <1> HIDE DEF p
  <1>5. ASSUME NEW r \in Slots \ {p}
        PROVE  At(t, r) = At(s, r)
    <2>1. CASE r \in Others(f)
      BY <1>2, <2>1
    <2>2. CASE r \notin Others(f)
      <3>1. r[1] = f /\ r[2] \in 0..Final /\ r[2] # Final
        BY <2>2, ClosedSlots DEF p
      <3>2. CASE r[2] < NDIRECT
        BY <3>1, <3>2 DEF At
      <3>3. CASE ~(r[2] < NDIRECT)
        <4>1. r[2] - NDIRECT + 1 \in Words
          BY <3>1, <3>3, BufCacheAssumption DEF Final, Words
        <4>2. At(s, r) = 0 /\ At(t, r) = t.disk[b][r[2] - NDIRECT + 1]
          BY <1>1, <3>1, <3>3 DEF At
        <4> QED
          BY <4>1, <4>2 DEF Zero
      <3> QED
        BY <3>2, <3>3
    <2> QED
      BY <2>1, <2>2
  <1>6. Balanced(t, Slots, {})
    <2>1. t.disk[0] = s.disk[0]
      BY <1>1, Constants
    <2>2. \A c \in Body \ (Used(s, Slots) \cup {b}) : t.disk[c] = s.disk[c]
      BY <1>1
    <2> QED
      BY <1>3, <1>4, <1>5, <2>1, <2>2, BalanceTake
  <1>7. \A r \in Slots : At(s, r) # 0 => At(s, r) \in Body /\ At(s, r) # b /\ r # p
    BY <1>1, <1>4 DEF Apart, Used
  <1>8. Kept(s, t, Slots)
    BY <1>1, <1>5, <1>7 DEF Kept
  <1> QED
    BY <1>6, <1>8

\* A direct pointer takes a new block.
LEMMA DirectTaken ==
    ASSUME NEW s, NEW b, Balanced(s, Slots, {b}), NEW f \in Files,
           NEW n \in 0..(NDIRECT - 1), s.ino[f].direct[n] = 0,
           NEW t, Sound(t), t.fl = s.fl, t.disk = s.disk,
           t.ino[f].direct[n] = b, t.ino[f].indirect = s.ino[f].indirect,
           \A i \in 0..(NDIRECT - 1) : i # n => t.ino[f].direct[i] = s.ino[f].direct[i],
           \A g \in Files \ {f} : t.ino[g] = s.ino[g]
    PROVE  Balanced(t, Slots, {}) /\ Kept(s, t, Slots)
  <1> DEFINE p == <<f, n>>
  <1>1. b \in Body /\ b \notin Used(s, Slots) /\ b # 0
    BY DEF Balanced, Body
  <1>2. p \in Slots /\ p[1] = f /\ p[2] = n /\ n < NDIRECT
    BY ClosedSlots
  <1>3. At(s, p) = 0 /\ At(t, p) = b
    BY <1>2 DEF At
  <1> HIDE DEF p
  <1>4. ASSUME NEW r \in Slots \ {p}
        PROVE  At(t, r) = At(s, r)
    <2>1. CASE r \in Others(f)
      <3>1. r[1] \in Files \ {f}
        BY <2>1 DEF Others, Slots
      <3> QED
        BY <3>1 DEF At
    <2>2. CASE r \notin Others(f)
      <3>1. r[1] = f /\ r[2] \in 0..Final /\ r[2] # n
        BY <2>2, ClosedSlots DEF p
      <3>2. r[2] < NDIRECT => r[2] \in 0..(NDIRECT - 1)
        BY <3>1, ClosedSlots
      <3> QED
        BY <3>1, <3>2 DEF At
    <2> QED
      BY <2>1, <2>2
  <1>5. Balanced(t, Slots, {})
    BY <1>2, <1>3, <1>4, BalanceTake
  <1>6. Kept(s, t, Slots)
    BY <1>3, <1>4 DEF Kept
  <1> QED
    BY <1>5, <1>6

\* A word of an indirect block takes a new block.
LEMMA PointerTaken ==
    ASSUME NEW s, NEW b, Balanced(s, Slots, {b}), NEW f \in Files,
           NEW n \in NDIRECT..(Final - 1), NEW ind, ind = s.ino[f].indirect, ind # 0,
           s.disk[ind][n - NDIRECT + 1] = 0,
           NEW t, Sound(t), t.fl = s.fl, t.ino = s.ino,
           t.disk[ind] = [s.disk[ind] EXCEPT ![n - NDIRECT + 1] = b],
           \A c \in Blocks : c # ind => t.disk[c] = s.disk[c]
    PROVE  /\ Balanced(t, Slots, {}) /\ Kept(s, t, Slots)
           /\ At(t, <<f, n>>) = b
  <1> DEFINE p == <<f, n>>
             l == <<f, Final>>
  <1>1. /\ b \in Body /\ b \notin Used(s, Slots) /\ b # 0 /\ Apart(s, Slots)
        /\ Body \in SUBSET Blocks /\ Sound(s) /\ 0 \notin Body
    BY DEF Balanced, Body
  <1>2. /\ p \in Slots /\ p[1] = f /\ p[2] = n /\ ~(n < NDIRECT) /\ n # Final
        /\ l \in Slots /\ l[1] = f /\ l[2] = Final /\ l \notin Others(f) /\ ~(Final < NDIRECT)
        /\ l # p
    BY ClosedSlots
  <1>3. At(s, l) = ind /\ At(t, l) = ind /\ At(s, p) = 0
    BY <1>2 DEF At
  <1>4. ind \in Body
    BY <1>1, <1>2, <1>3 DEF Apart
  <1>5. s.disk[ind] \in Contents
    BY <1>1, <1>4 DEF Sound, Memory
  <1>6. n - NDIRECT + 1 \in Words
    BY ClosedSlots, BufCacheAssumption DEF Words, Final
  <1>7. At(t, p) = b
    <2>1. t.disk[ind][n - NDIRECT + 1] = b
      BY <1>5, <1>6 DEF Contents
    <2> QED
      BY <1>2, <2>1 DEF At
  <1>8. \A r \in Others(f) :
           At(t, r) = At(s, r) /\ (At(s, r) # 0 => t.disk[At(s, r)] = s.disk[At(s, r)])
    <2>1. \A c \in Body \ {b} :
             (\A r \in Slots \ Others(f) : At(s, r) # c) => t.disk[c] = s.disk[c]
      BY <1>1, <1>2, <1>3
    <2>2. \A g \in Files \ {f} : t.ino[g] = s.ino[g]
      OBVIOUS
    <2> QED
      BY <2>1, <2>2, OthersSame
  <1> HIDE DEF p, l
  <1>9. ASSUME NEW r \in Slots \ {p}
        PROVE  At(t, r) = At(s, r)
    <2>1. CASE r \in Others(f)
      BY <1>8, <2>1
    <2>2. CASE r \notin Others(f)
      <3>1. r[1] = f /\ r[2] \in 0..Final /\ r[2] # n
        BY <2>2, ClosedSlots DEF p
      <3>2. CASE r[2] < NDIRECT \/ r[2] = Final
        BY <3>1, <3>2 DEF At
      <3>3. CASE ~(r[2] < NDIRECT \/ r[2] = Final)
        <4>1. /\ r[2] - NDIRECT + 1 \in Words
              /\ r[2] - NDIRECT + 1 # n - NDIRECT + 1
          BY <3>1, <3>3, ClosedSlots, BufCacheAssumption DEF Final, Words
        <4>2. t.disk[ind][r[2] - NDIRECT + 1] = s.disk[ind][r[2] - NDIRECT + 1]
          BY <1>5, <4>1 DEF Contents
        <4> QED
          BY <3>1, <3>3, <4>2 DEF At
      <3> QED
        BY <3>2, <3>3
    <2> QED
      BY <2>1, <2>2
  <1>10. Balanced(t, Slots, {})
    <2>1. t.disk[0] = s.disk[0]
      BY <1>1, <1>4, Constants
    <2>2. ind \in Used(s, Slots)
      BY <1>2, <1>3 DEF Used
    <2>3. \A c \in Body \ (Used(s, Slots) \cup {b}) : t.disk[c] = s.disk[c]
      BY <1>1, <2>2
    <2> QED
      BY <1>2, <1>3, <1>7, <1>9, <2>1, <2>3, BalanceTake
  <1>11. ASSUME NEW r \in Slots, At(s, r) # 0
         PROVE  At(t, r) = At(s, r) /\ (r[2] # Final => t.disk[At(s, r)] = s.disk[At(s, r)])
    <2>1. r # p /\ At(s, r) \in Body
      BY <1>1, <1>3, <1>11 DEF Apart
    <2>2. ASSUME r[2] # Final
          PROVE  t.disk[At(s, r)] = s.disk[At(s, r)]
      <3>1. r # l
        BY <1>2, <2>2
      <3>2. At(s, r) # ind
        BY <1>1, <1>2, <1>3, <1>11, <3>1 DEF Apart
      <3> QED
        BY <1>1, <2>1, <3>2
    <2> QED
      BY <1>9, <2>1, <2>2
  <1> QED
    BY <1>7, <1>10, <1>11 DEF Kept, p

-----------------------------------------------------------------------------
(* bmap()                                                                  *)

\* What bmap() and its parts keep, unless they lose their buffer.
Keeps(s, t) == Balanced(t, Slots, {}) /\ Kept(s, t, Slots)

LEMMA WithIndirectKeeps ==
    ASSUME NEW s, Balanced(s, Slots, {}), NEW f \in Files
    PROVE  LET m == WithIndirect(s, f)
           IN  /\ Keeps(s, m.s) /\ m.s.stolen = s.stolen
               /\ m.blk = m.s.ino[f].indirect /\ m = [s |-> m.s, blk |-> m.blk]
  <1> DEFINE a == balloc(s)
             i == [a.s.ino[f] EXCEPT !.indirect = a.blk]
             t == [a.s EXCEPT !.ino[f] = i]
             u == SetBlock(t, a.blk, Zero)
             m == WithIndirect(s, f)
  <1>0. Sound(s)
    BY DEF Balanced
  <1>1. CASE s.ino[f].indirect # 0 \/ s.fl = 0
    <2>1. m = [s |-> s, blk |-> s.ino[f].indirect]
      BY <1>1 DEF WithIndirect
    <2> QED
      BY <2>1, SameKept DEF Keeps
  <1>2. CASE ~(s.ino[f].indirect # 0 \/ s.fl = 0)
    <2>1. Mapped(a) /\ a = [s |-> a.s, blk |-> a.blk] /\ a.blk = s.fl
      BY <1>0, AllocRecord, AllocLeads
    <2>2. m = [a EXCEPT !.s = SetBlock([@ EXCEPT !.ino[f].indirect = a.blk], a.blk, Zero)]
      BY <1>2 DEF WithIndirect
    <2>3. /\ Balanced(a.s, Slots, {s.fl}) /\ Kept(s, a.s, Slots)
          /\ s.fl \in Body \ Used(s, Slots)
      BY <1>2, BalanceAlloc
    <2>4. Leads(s, a.s) /\ a.s.stolen = s.stolen
      BY <1>0, <1>2, AllocEffect
    <2> HIDE DEF a, m
    <2>5. [a.s EXCEPT !.ino[f].indirect = a.blk] = t
      OBVIOUS
    <2>6. m = [s |-> u, blk |-> a.blk]
      BY <2>1, <2>2, <2>5
    <2>7. /\ i \in Inode /\ i.indirect = a.blk /\ i.direct = a.s.ino[f].direct
      BY <2>1, InodeFields DEF Inode, Mapped
    <2> HIDE DEF i
    <2>8. /\ Sound(t) /\ t.ino[f] = i /\ \A g \in Files \ {f} : t.ino[g] = a.s.ino[g]
          /\ t.bufs = a.s.bufs /\ t.disk = a.s.disk /\ t.fl = a.s.fl /\ t.stolen = a.s.stolen
      BY <2>1, <2>7, SetInode DEF Mapped
    <2> HIDE DEF t
    <2>9. a.blk \in Blocks /\ Zero \in Contents
      BY <2>1, Constants DEF Mapped
    <2>10. /\ Leads(t, u) /\ DiskSet(t, u, a.blk, Zero)
           /\ u.fl = t.fl /\ u.stolen = t.stolen
      BY <2>8, <2>9, SetBlockLeads
    <2> HIDE DEF u
    <2>11. /\ Sound(u) /\ u.fl = a.s.fl /\ u.stolen = s.stolen
           /\ u.ino[f].indirect = s.fl /\ u.ino[f].direct = a.s.ino[f].direct
           /\ \A g \in Files \ {f} : u.ino[g] = a.s.ino[g]
           /\ u.disk[s.fl] = Zero /\ \A c \in Blocks : c # s.fl => u.disk[c] = a.s.disk[c]
      BY <2>1, <2>4, <2>7, <2>8, <2>10 DEF Leads, DiskSet
    <2>12. a.s.ino[f].indirect = 0
      BY <1>2, <2>4 DEF Leads
    <2>13. Balanced(u, Slots, {}) /\ Kept(a.s, u, Slots)
      BY <2>3, <2>11, <2>12, IndirectTaken
    <2>14. Kept(s, u, Slots)
      BY <2>3, <2>13, KeptOn
    <2>15. m.s = u /\ m.blk = s.fl
      BY <2>1, <2>6
    <2> QED
      BY <2>6, <2>11, <2>13, <2>14, <2>15 DEF m, Keeps
  <1> QED
    BY <1>1, <1>2

\* bmap() fills the word of the indirect block that it points at, if the pointer
\* still is one to that block.
LEMMA SetPointerKeeps ==
    ASSUME NEW s, Balanced(s, Slots, {}), NEW f \in Files, NEW n \in NDIRECT..(Final - 1),
           NEW ind, ind = s.ino[f].indirect, ind # 0,
           NEW k \in Bufs, s.bufs[k].blk = ind, s.bufs[k].data[n - NDIRECT + 1] = 0
    PROVE  LET a == balloc(s)
               w == n - NDIRECT + 1
               u == Store([a.s EXCEPT !.stolen = @ \/ a.s.bufs[k].blk # ind],
                          k, [a.s.bufs[k].data EXCEPT ![w] = a.blk])
           IN  u.stolen \/ (Keeps(s, u) /\ u.ino = s.ino /\ a.blk = At(u, <<f, n>>))
  <1> DEFINE a == balloc(s)
             w == n - NDIRECT + 1
             b == s.fl
             d == a.s.stolen \/ a.s.bufs[k].blk # ind
             t == [a.s EXCEPT !.stolen = d]
             data == [a.s.bufs[k].data EXCEPT ![w] = a.blk]
             u == Store(t, k, data)
             p == <<f, n>>
  <1>1. Sound(s) /\ Apart(s, Slots)
    BY DEF Balanced
  <1>2. /\ w \in Words /\ p \in Slots /\ p[1] = f /\ p[2] = n
        /\ ~(n < NDIRECT) /\ n # Final
    BY ClosedSlots, BufCacheAssumption DEF Words, Final
  <1>3. ind \in Blocks
    BY <1>1, InodeFields
  <1>4. ind # None /\ s.disk[ind][w] = 0 /\ s.disk[ind] \in Contents
    <2>1. ind # None
      BY <1>3, Constants
    <2>2. s.bufs[k].data = s.disk[ind]
      BY <1>1, <2>1 DEF Sound, Coherent
    <2> QED
      BY <1>3, <1>1, <2>1, <2>2 DEF Sound, Memory
  <1>5. /\ Leads(s, a.s) /\ Mapped(a) /\ a.blk = b
    BY <1>1, AllocRecord, AllocLeads
  <1>6. b = 0 => a.s = s
    BY DEF balloc
  <1>7. b # 0 => /\ Balanced(a.s, Slots, {b}) /\ Kept(s, a.s, Slots)
                 /\ \A c \in Blocks \ {0} : a.s.disk[c] = s.disk[c]
    BY BalanceAlloc
  <1> HIDE DEF a, w
  <1>8. d \in BOOLEAN
    OBVIOUS
  <1> HIDE DEF d
  <1>9. /\ Leads(a.s, t) /\ t.stolen = d
        /\ t.bufs = a.s.bufs /\ t.disk = a.s.disk /\ t.fl = a.s.fl
    BY <1>5, <1>8, SetStolen DEF Mapped
  <1> HIDE DEF t
  <1>10. data \in Contents
    <2>1. a.s.bufs[k].data \in Contents /\ a.blk \in Blocks
      BY <1>5, SoundFields DEF Mapped
    <2> QED
      BY <2>1 DEF Contents
  <1>11. t.bufs[k].blk # None
    <2>1. s.bufs[k].blk # None
      BY <1>4
    <2>2. a.s.bufs[k].blk # None
      BY <1>5, <2>1 DEF Leads
    <2> QED
      BY <1>9, <2>2
  <1> HIDE DEF data
  <1>12. /\ Leads(t, u) /\ DiskSet(t, u, t.bufs[k].blk, data)
         /\ u.fl = t.fl /\ u.stolen = t.stolen
    BY <1>9, <1>10, <1>11, Stored DEF Leads
  <1> HIDE DEF u
  <1>13. ASSUME ~u.stolen
         PROVE  Keeps(s, u) /\ u.ino = s.ino /\ a.blk = At(u, p)
    <2>1. a.s.bufs[k].blk = ind
      BY <1>9, <1>12, <1>13 DEF d
    <2>2. a.s.bufs[k].data = a.s.disk[ind] /\ a.s.disk[ind] = s.disk[ind]
      <3>1. a.s.bufs[k].data = a.s.disk[ind]
        BY <1>4, <1>5, <2>1 DEF Mapped, Sound, Coherent
      <3>2. a.s.disk[ind] = s.disk[ind]
        BY <1>3, <1>6, <1>7
      <3> QED
        BY <3>1, <3>2
    <2>3. data = [a.s.disk[ind] EXCEPT ![w] = b]
      BY <1>5, <2>2 DEF data
    <2>4. /\ Sound(u) /\ u.fl = a.s.fl /\ u.ino = a.s.ino /\ u.ino = s.ino
          /\ u.disk[ind] = [a.s.disk[ind] EXCEPT ![w] = b]
          /\ \A c \in Blocks : c # ind => u.disk[c] = a.s.disk[c]
      BY <1>5, <1>9, <1>12, <2>1, <2>3 DEF Leads, DiskSet
    <2>5. CASE b = 0
      <3>1. u.disk[ind] = s.disk[ind]
        BY <1>4, <1>6, <2>4, <2>5 DEF Contents
      <3>2. \A c \in Blocks \ {1} : u.disk[c] = s.disk[c]
        BY <1>6, <2>4, <2>5, <3>1
      <3>3. u.fl = s.fl /\ u.ino = s.ino
        BY <1>6, <2>4, <2>5
      <3>4. Balanced(u, Slots, {}) /\ Kept(s, u, Slots) /\ At(u, p) = At(s, p)
        BY <1>2, <2>4, <3>2, <3>3, BalanceStays
      <3>5. At(s, p) = 0
        BY <1>2, <1>4 DEF At, w
      <3> QED
        BY <1>5, <2>5, <3>3, <3>4, <3>5 DEF Keeps
    <2>6. CASE b # 0
      <3>1. Balanced(a.s, Slots, {b}) /\ Kept(s, a.s, Slots)
        BY <1>7, <2>6
      <3>2. a.s.ino[f].indirect = ind /\ a.s.disk[ind][n - NDIRECT + 1] = 0
        BY <1>4, <1>5, <2>2 DEF Leads, w
      <3>3. u.disk[ind] = [a.s.disk[ind] EXCEPT ![n - NDIRECT + 1] = b]
        BY <2>4 DEF w
      <3>4. Balanced(u, Slots, {}) /\ Kept(a.s, u, Slots) /\ At(u, p) = b
        <4>1. PICK v : v = a.s
          OBVIOUS
        <4>2. /\ Balanced(v, Slots, {b}) /\ v.ino[f].indirect = ind
              /\ v.disk[ind][n - NDIRECT + 1] = 0
              /\ Sound(u) /\ u.fl = v.fl /\ u.ino = v.ino
              /\ u.disk[ind] = [v.disk[ind] EXCEPT ![n - NDIRECT + 1] = b]
              /\ \A c \in Blocks : c # ind => u.disk[c] = v.disk[c]
          BY <2>4, <3>1, <3>2, <3>3, <4>1
        <4> HIDE DEF b, p
        <4>3. Balanced(u, Slots, {}) /\ Kept(v, u, Slots) /\ At(u, <<f, n>>) = b
          BY <4>2, PointerTaken
        <4> QED
          BY <4>1, <4>3 DEF p
      <3>5. Kept(s, u, Slots)
        BY <3>1, <3>4, KeptOn
      <3> QED
        BY <1>5, <2>4, <3>4, <3>5 DEF Keeps
    <2> QED
      BY <2>5, <2>6
  <1>14. u.stolen \/ (Keeps(s, u) /\ u.ino = s.ino /\ a.blk = At(u, p))
    BY <1>13
  <1>15. u = Store([balloc(s).s EXCEPT
                      !.stolen = balloc(s).s.stolen \/ balloc(s).s.bufs[k].blk # ind],
                   k, [balloc(s).s.bufs[k].data EXCEPT ![n - NDIRECT + 1] = balloc(s).blk])
    BY DEF u, t, data, d, w, a
  <1> QED
    BY <1>14, <1>15 DEF a

LEMMA BreadKeeps ==
    ASSUME NEW s, Balanced(s, Slots, {}), NEW b \in Blocks
    PROVE  LET r == bread(s, b)
           IN  /\ Keeps(s, r.s) /\ r.s.ino = s.ino /\ r.s.stolen = s.stolen
               /\ r.k \in Bufs /\ r.s.bufs[r.k].blk = b
               /\ r.s.bufs[r.k].data = r.s.disk[b]
  <1> DEFINE r == bread(s, b)
             t == r.s
  <1>1. Sound(s) /\ b # None
    BY Constants DEF Balanced
  <1>2. /\ Leads(s, t) /\ r.k \in Bufs /\ t.bufs[r.k].blk = b
        /\ t.disk = s.disk /\ t.fl = s.fl /\ t.stolen = s.stolen
    BY <1>1, Bread
  <1> HIDE DEF t
  <1>3. Sound(t) /\ t.ino = s.ino
    BY <1>2 DEF Leads
  <1>4. Balanced(t, Slots, {}) /\ Kept(s, t, Slots)
    BY <1>2, <1>3, BalanceStays
  <1>5. t.bufs[r.k].data = t.disk[b]
    BY <1>1, <1>2, <1>3 DEF Sound, Coherent
  <1> QED
    BY <1>2, <1>3, <1>4, <1>5 DEF Keeps, t

LEMMA SameFunction ==
    ASSUME NEW S, NEW T, NEW x \in [S -> T], NEW y \in [S -> T], \A n \in S : x[n] = y[n]
    PROVE  x = y
  OBVIOUS

LEMMA KeepsOn ==
    ASSUME NEW s, NEW t, NEW u, Keeps(s, t), Keeps(t, u)
    PROVE  Keeps(s, u)
  BY KeptOn DEF Keeps

\* bmap() gives the block of the slot, and no slot or contents are lost.
LEMMA BmapKeeps ==
    ASSUME NEW s, Balanced(s, Slots, {}), NEW f \in Files, NEW bn \in FileBlocks
    PROVE  LET m == bmap(s, f, bn)
           IN  m.s.stolen \/ (Keeps(s, m.s) /\ m.blk = At(m.s, <<f, bn>>))
  <1> DEFINE m == bmap(s, f, bn)
             p == <<f, bn>>
  <1>0. Sound(s)
    BY DEF Balanced
  <1>1. CASE bn >= NDIRECT
    <2> DEFINE w == bn - NDIRECT + 1
               ind == WithIndirect(s, f)
               r == bread(ind.s, ind.blk)
               a == balloc(r.s)
               u == Store([a.s EXCEPT !.stolen = @ \/ a.s.bufs[r.k].blk # ind.blk],
                          r.k, [a.s.bufs[r.k].data EXCEPT ![w] = a.blk])
    <2>1. /\ bn \in NDIRECT..(Final - 1) /\ w \in Words
          /\ p \in Slots /\ p[1] = f /\ p[2] = bn /\ ~(bn < NDIRECT) /\ bn # Final
      BY <1>1, ClosedSlots, BufCacheAssumption DEF FileBlocks, Words, Final
    <2>2. /\ Keeps(s, ind.s) /\ ind.s.stolen = s.stolen
          /\ ind.blk = ind.s.ino[f].indirect /\ ind = [s |-> ind.s, blk |-> ind.blk]
      BY WithIndirectKeeps
    <2>3. m = IF ind.blk = 0 THEN ind
              ELSE IF r.s.bufs[r.k].data[w] # 0
                   THEN [s |-> r.s, blk |-> r.s.bufs[r.k].data[w]]
                   ELSE [s |-> u, blk |-> a.blk]
      BY <1>1 DEF bmap
    <2> HIDE DEF ind
    <2>4. Balanced(ind.s, Slots, {})
      BY <2>2 DEF Keeps
    <2>5. ind.blk \in Blocks
      BY <2>2, <2>4, InodeFields DEF Balanced
    <2>6. CASE ind.blk = 0
      <3>1. At(ind.s, p) = 0
        BY <2>1, <2>2, <2>6 DEF At
      <3> QED
        BY <2>2, <2>3, <2>6, <3>1
    <2>7. CASE ind.blk # 0
      <3>1. /\ Keeps(ind.s, r.s) /\ r.s.ino = ind.s.ino /\ r.s.stolen = ind.s.stolen
            /\ r.k \in Bufs /\ r.s.bufs[r.k].blk = ind.blk
            /\ r.s.bufs[r.k].data = r.s.disk[ind.blk]
        BY <2>4, <2>5, BreadKeeps
      <3> HIDE DEF r
      <3>2. Keeps(s, r.s)
        BY <2>2, <3>1, KeepsOn
      <3>3. At(r.s, p) = r.s.bufs[r.k].data[w]
        BY <2>1, <2>2, <2>7, <3>1 DEF At
      <3>4. CASE r.s.bufs[r.k].data[w] # 0
        <4>1. m.s = r.s /\ m.blk = r.s.bufs[r.k].data[w]
          BY <2>3, <2>7, <3>4
        <4> QED
          BY <3>2, <3>3, <4>1
      <3>5. CASE r.s.bufs[r.k].data[w] = 0
        <4>1. PICK v : v = r.s
          OBVIOUS
        <4>2. PICK c : c = ind.blk
          OBVIOUS
        <4>3. /\ Balanced(v, Slots, {}) /\ c = v.ino[f].indirect /\ c # 0
              /\ v.bufs[r.k].blk = c /\ v.bufs[r.k].data[bn - NDIRECT + 1] = 0
          BY <2>2, <2>7, <3>1, <3>2, <3>5, <4>1, <4>2 DEF Keeps
        <4>4. u.stolen \/ (Keeps(v, u) /\ u.ino = v.ino /\ a.blk = At(u, <<f, bn>>))
          <5> HIDE DEF p
          <5>1. LET e == balloc(v)
                    x == bn - NDIRECT + 1
                    y == Store([e.s EXCEPT !.stolen = @ \/ e.s.bufs[r.k].blk # c],
                               r.k, [e.s.bufs[r.k].data EXCEPT ![x] = e.blk])
                IN  y.stolen \/ (Keeps(v, y) /\ y.ino = v.ino /\ e.blk = At(y, <<f, bn>>))
            BY <2>1, <3>1, <4>3, SetPointerKeeps
          <5> QED
            BY <4>1, <4>2, <5>1
        <4>5. m.s = u /\ m.blk = a.blk
          BY <2>3, <2>7, <3>5
        <4> HIDE DEF u, a
        <4>6. Keeps(v, u) => Keeps(s, u)
          BY <3>2, <4>1, KeepsOn
        <4> QED
          BY <4>4, <4>5, <4>6
      <3> QED
        BY <3>4, <3>5
    <2> QED
      BY <2>6, <2>7
  <1>2. CASE ~(bn >= NDIRECT)
    <2> DEFINE old == s.ino[f].direct[bn]
               a == balloc(s)
               i == [a.s.ino[f] EXCEPT !.direct[bn] = a.blk]
               t == [a.s EXCEPT !.ino[f] = i]
    <2>1. /\ bn \in 0..(NDIRECT - 1) /\ bn < NDIRECT
          /\ p \in Slots /\ p[1] = f /\ p[2] = bn
      BY <1>2, ClosedSlots DEF FileBlocks
    <2>2. old = At(s, p)
      BY <2>1 DEF At
    <2>3. m = IF old # 0 THEN [s |-> s, blk |-> old]
              ELSE [a EXCEPT !.s.ino[f].direct[bn] = a.blk]
      BY <1>2 DEF bmap
    <2>4. CASE old # 0
      <3>1. m.s = s /\ m.blk = old
        BY <2>3, <2>4
      <3> QED
        BY <2>2, <3>1, SameKept DEF Keeps
    <2>5. CASE old = 0
      <3>1. Mapped(a) /\ a = [s |-> a.s, blk |-> a.blk] /\ a.blk = s.fl /\ Leads(s, a.s)
        BY <1>0, AllocRecord, AllocLeads
      <3>2. s.fl = 0 => a.s = s
        BY DEF balloc
      <3>3. s.fl # 0 => Balanced(a.s, Slots, {s.fl}) /\ Kept(s, a.s, Slots)
        BY BalanceAlloc
      <3> HIDE DEF a, m
      <3>4. [a EXCEPT !.s.ino[f].direct[bn] = a.blk] = [s |-> t, blk |-> a.blk]
        BY <3>1
      <3>5. m.s = t /\ m.blk = s.fl
        BY <2>3, <2>5, <3>1, <3>4
      <3>6. /\ i \in Inode /\ i.direct[bn] = s.fl /\ i.indirect = a.s.ino[f].indirect
            /\ \A n \in 0..(NDIRECT - 1) : n # bn => i.direct[n] = a.s.ino[f].direct[n]
            /\ a.s.ino[f].direct \in [0..(NDIRECT - 1) -> Blocks]
            /\ i.direct \in [0..(NDIRECT - 1) -> Blocks]
        <4>1. a.s.ino[f] \in Inode /\ a.blk \in Blocks
          BY <3>1, InodeFields DEF Mapped
        <4> QED
          BY <2>1, <3>1, <4>1 DEF Inode
      <3> HIDE DEF i
      <3>7. /\ Sound(t) /\ t.ino[f] = i /\ \A g \in Files \ {f} : t.ino[g] = a.s.ino[g]
            /\ t.bufs = a.s.bufs /\ t.disk = a.s.disk /\ t.fl = a.s.fl
        BY <3>1, <3>6, SetInode DEF Mapped
      <3> HIDE DEF t
      <3>8. At(t, p) = s.fl
        BY <2>1, <3>6, <3>7 DEF At
      <3>9. a.s.ino = s.ino
        BY <3>1 DEF Leads
      <3>10. CASE s.fl = 0
        <4>1. i.direct = s.ino[f].direct
          <5>1. \A n \in 0..(NDIRECT - 1) : i.direct[n] = s.ino[f].direct[n]
            BY <2>5, <3>6, <3>9, <3>10
          <5>2. /\ s.ino[f].direct \in [0..(NDIRECT - 1) -> Blocks]
                /\ i.direct \in [0..(NDIRECT - 1) -> Blocks]
            BY <3>6, <3>9
          <5>3. PICK x, y : x = i.direct /\ y = s.ino[f].direct
            OBVIOUS
          <5>4. PICK S : S = 0..(NDIRECT - 1)
            OBVIOUS
          <5>5. /\ x \in [S -> Blocks] /\ y \in [S -> Blocks]
                /\ \A n \in S : x[n] = y[n]
            BY <5>1, <5>2, <5>3, <5>4
          <5>6. x = y
            BY <5>5, SameFunction
          <5> QED
            BY <5>3, <5>6
        <4>2. ASSUME NEW q \in Slots
              PROVE  /\ t.ino[q[1]].direct = s.ino[q[1]].direct
                     /\ t.ino[q[1]].indirect = s.ino[q[1]].indirect
          <5>1. q[1] \in Files
            BY DEF Slots
          <5> QED
            BY <3>6, <3>7, <3>9, <4>1, <5>1
        <4>3. t.fl = s.fl /\ \A c \in Blocks \ {1} : t.disk[c] = s.disk[c]
          BY <3>2, <3>7, <3>10
        <4>4. Balanced(t, Slots, {}) /\ Kept(s, t, Slots)
          BY <3>7, <4>2, <4>3, BalanceStays
        <4> QED
          BY <3>5, <3>8, <4>4 DEF Keeps, m
      <3>11. CASE s.fl # 0
        <4>1. PICK v : v = a.s
          OBVIOUS
        <4>2. PICK b : b = s.fl
          OBVIOUS
        <4>3. /\ Balanced(v, Slots, {b}) /\ v.ino[f].direct[bn] = 0
              /\ t.fl = v.fl /\ t.disk = v.disk
              /\ t.ino[f].direct[bn] = b /\ t.ino[f].indirect = v.ino[f].indirect
              /\ \A n \in 0..(NDIRECT - 1) : n # bn => t.ino[f].direct[n] = v.ino[f].direct[n]
              /\ \A g \in Files \ {f} : t.ino[g] = v.ino[g]
          BY <2>5, <3>3, <3>6, <3>7, <3>9, <3>11, <4>1, <4>2
        <4>4. Balanced(t, Slots, {}) /\ Kept(v, t, Slots)
          BY <2>1, <3>7, <4>3, DirectTaken
        <4>5. Kept(s, v, Slots)
          BY <3>3, <3>11, <4>1
        <4>6. Kept(s, t, Slots)
          BY <4>4, <4>5, KeptOn
        <4> QED
          BY <3>5, <3>8, <4>4, <4>6 DEF Keeps, m
      <3> QED
        BY <3>10, <3>11
    <2> QED
      BY <2>4, <2>5
  <1> QED
    BY <1>1, <1>2

-----------------------------------------------------------------------------
(* fs_write()                                                              *)

\* WritesReadBack, of a memory that is passed on.
ReadBack(s, wr) ==
    \A f \in Files, bn \in FileBlocks : wr[f][bn] # 0 =>
        /\ At(s, <<f, bn>>) # 0
        /\ s.disk[At(s, <<f, bn>>)] = [w \in Words |-> wr[f][bn]]

LEMMA DataSlots ==
    ASSUME NEW f \in Files, NEW bn \in FileBlocks
    PROVE  /\ <<f, bn>> \in Slots /\ <<f, bn>>[1] = f /\ <<f, bn>>[2] = bn
           /\ <<f, bn>>[2] # Final
  BY BufCacheAssumption DEF FileBlocks, Slots, Final

LEMMA KeptReads ==
    ASSUME NEW s, NEW t, Kept(s, t, Slots), NEW wr, ReadBack(s, wr)
    PROVE  ReadBack(t, wr)
  <1> SUFFICES ASSUME NEW f \in Files, NEW bn \in FileBlocks, wr[f][bn] # 0
               PROVE  /\ At(t, <<f, bn>>) # 0
                      /\ t.disk[At(t, <<f, bn>>)] = [w \in Words |-> wr[f][bn]]
    BY DEF ReadBack
  <1>1. PICK p : p = <<f, bn>>
    OBVIOUS
  <1>2. p \in Slots /\ p[2] # Final
    BY <1>1, DataSlots
  <1>3. At(s, p) # 0 /\ s.disk[At(s, p)] = [w \in Words |-> wr[f][bn]]
    BY <1>1 DEF ReadBack
  <1>4. At(t, p) = At(s, p) /\ t.disk[At(s, p)] = s.disk[At(s, p)]
    BY <1>2, <1>3 DEF Kept
  <1> QED
    BY <1>1, <1>3, <1>4

Filled(s, t, b, v) ==
    /\ Sound(t) /\ t.ino = s.ino /\ t.fl = s.fl
    /\ DiskSet(s, t, b, [w \in Words |-> v])

\* A block of a file is overwritten.
LEMMA BlockFilled ==
    ASSUME NEW s, Balanced(s, Slots, {}), NEW f \in Files, NEW bn \in FileBlocks,
           NEW v \in Values, NEW b, b = At(s, <<f, bn>>), b # 0,
           NEW t, Filled(s, t, b, v),
           NEW wr \in [Files -> [FileBlocks -> {0} \cup Values]], ReadBack(s, wr)
    PROVE  Balanced(t, Slots, {}) /\ ReadBack(t, [wr EXCEPT ![f][bn] = v])
  <1>0. /\ Sound(t) /\ t.ino = s.ino /\ t.fl = s.fl
        /\ t.disk[b] = [w \in Words |-> v] /\ \A c \in Blocks : c # b => t.disk[c] = s.disk[c]
    BY DEF Filled, DiskSet
  <1>1. Sound(s) /\ Closed(Slots) /\ Apart(s, Slots) /\ 0 \notin Body /\ Body \in SUBSET Blocks
    BY DEF Balanced, Body
  <1>2. PICK p : p = <<f, bn>>
    OBVIOUS
  <1>3. p \in Slots /\ p[2] # Final /\ At(s, p) = b
    BY <1>2, DataSlots
  <1>4. \A r \in Slots \ {p} : At(s, r) # 0 => At(s, r) # b /\ At(s, r) \in Blocks
    BY <1>1, <1>3 DEF Apart
  <1>5. /\ \A r \in Slots : At(t, r) = At(s, r)
        /\ Used(t, Slots) = Used(s, Slots) /\ Apart(t, Slots)
    <2>1. \A r \in Slots : r[2] = Final /\ At(s, r) # 0 => t.disk[At(s, r)] = s.disk[At(s, r)]
      BY <1>0, <1>3, <1>4
    <2> QED
      BY <1>0, <1>1, <2>1, SameSlots
  <1>6. Balanced(t, Slots, {})
    <2> DEFINE U == Body \ (Used(s, Slots) \cup {})
    <2>1. b \in Used(s, Slots) /\ b \in Body
      BY <1>1, <1>3 DEF Used, Apart
    <2>2. FreeList(s, U) /\ \A c \in U : t.disk[c] = s.disk[c]
      BY <1>0, <1>1, <2>1 DEF Balanced
    <2> HIDE DEF U
    <2>3. FreeList(t, U)
      BY <1>0, <2>2, ListSame
    <2>4. t.disk[0] = s.disk[0]
      BY <1>0, <1>1, <2>1, Constants
    <2> QED
      BY <1>0, <1>1, <1>5, <2>3, <2>4 DEF Balanced, U
  <1> SUFFICES ASSUME NEW g \in Files, NEW n \in FileBlocks, [wr EXCEPT ![f][bn] = v][g][n] # 0
               PROVE  /\ At(t, <<g, n>>) # 0
                      /\ t.disk[At(t, <<g, n>>)]
                            = [w \in Words |-> [wr EXCEPT ![f][bn] = v][g][n]]
    BY <1>6 DEF ReadBack
  <1>7. PICK q : q = <<g, n>>
    OBVIOUS
  <1>8. q \in Slots
    BY <1>7, DataSlots
  <1>9. CASE q = p
    <2>1. g = f /\ n = bn
      BY <1>2, <1>7, <1>9
    <2>2. [wr EXCEPT ![f][bn] = v][g][n] = v
      BY <2>1
    <2> QED
      BY <1>0, <1>3, <1>5, <1>7, <1>9, <2>2
  <1>10. CASE q # p
    <2>1. [wr EXCEPT ![f][bn] = v][g][n] = wr[g][n]
      <3>1. ~(g = f /\ n = bn)
        BY <1>2, <1>7, <1>10
      <3> QED
        BY <3>1
    <2>2. At(s, q) # 0 /\ s.disk[At(s, q)] = [w \in Words |-> wr[g][n]]
      BY <1>7, <2>1 DEF ReadBack
    <2>3. t.disk[At(s, q)] = s.disk[At(s, q)]
      BY <1>0, <1>4, <1>8, <1>10, <2>2
    <2> QED
      BY <1>5, <1>7, <1>8, <2>1, <2>2, <2>3
  <1> QED
    BY <1>9, <1>10

LEMMA WriteKeeps ==
    ASSUME NEW s, Balanced(s, Slots, {}), NEW f \in Files, NEW bn \in FileBlocks,
           NEW v \in Values,
           NEW wr \in [Files -> [FileBlocks -> {0} \cup Values]], ReadBack(s, wr)
    PROVE  LET r == fs_write(s, f, bn, v)
           IN  \/ r.s.stolen
               \/ /\ Balanced(r.s, Slots, {})
                  /\ ReadBack(r.s, IF r.blk = 0 THEN wr ELSE [wr EXCEPT ![f][bn] = v])
  <1> DEFINE r == fs_write(s, f, bn, v)
             m == bmap(s, f, bn)
             data == [w \in Words |-> v]
             t == SetBlock(m.s, m.blk, data)
             size == IF bn >= t.ino[f].size THEN bn + 1 ELSE t.ino[f].size
             i == [t.ino[f] EXCEPT !.size = size]
             u == [t EXCEPT !.ino[f] = i]
             z == fs_iupdate(u, f)
             new == [wr EXCEPT ![f][bn] = v]
  <1>0. Sound(s)
    BY DEF Balanced
  <1>1. Mapped(m)
    BY <1>0, BmapMaps
  <1>2. m = [s |-> m.s, blk |-> m.blk]
    <2>1. \E x, y : m = [s |-> x, blk |-> y]
      BY <1>0, BmapIsRecord
    <2> QED
      BY <2>1
  <1>3. m.s.stolen \/ (Keeps(s, m.s) /\ m.blk = At(m.s, <<f, bn>>))
    BY BmapKeeps
  <1>4. CASE m.blk = 0
    <2>1. r = m
      BY <1>4 DEF fs_write
    <2> HIDE DEF r, m
    <2>2. Keeps(s, m.s) => Balanced(m.s, Slots, {}) /\ ReadBack(m.s, wr)
      BY KeptReads DEF Keeps
    <2> QED
      BY <1>3, <1>4, <2>1, <2>2 DEF r
  <1>5. CASE m.blk # 0
    <2> DEFINE z1 == fs_iupdate(
                        [t EXCEPT !.ino[f].size = IF bn >= @ THEN bn + 1 ELSE @], f)
    <2>1. r = [m EXCEPT !.s = z1]
      BY <1>5 DEF fs_write
    <2> HIDE DEF m, t
    <2>2. z1 = z
      OBVIOUS
    <2> HIDE DEF z1
    <2>3. r.s = z /\ r.blk = m.blk
      BY <1>2, <2>1, <2>2
    <2> HIDE DEF r
    <2>4. data \in Contents
      BY Constants
    <2>5. /\ Leads(m.s, t) /\ DiskSet(m.s, t, m.blk, data)
          /\ t.fl = m.s.fl /\ t.stolen = m.s.stolen
      BY <1>1, <2>4, SetBlockLeads DEF Mapped, t
    <2>6. Sound(t) /\ t.ino = m.s.ino
      BY <2>5 DEF Leads
    <2>7. size \in 0..Cardinality(FileBlocks)
      <3>1. t.ino[f].size \in 0..(NDIRECT + PTRS_PER_BLK)
        BY <2>6, InodeFields, LongestFile
      <3>2. size \in 0..(NDIRECT + PTRS_PER_BLK)
        BY <3>1, BufCacheAssumption DEF FileBlocks
      <3> QED
        BY <3>2, LongestFile
    <2> HIDE DEF size
    <2>8. i \in Inode /\ i.direct = t.ino[f].direct /\ i.indirect = t.ino[f].indirect
      BY <2>6, <2>7, InodeFields DEF Inode
    <2> HIDE DEF i
    <2>9. /\ Sound(u) /\ u.ino[f] = i /\ \A g \in Files \ {f} : u.ino[g] = t.ino[g]
          /\ u.disk = t.disk /\ u.fl = t.fl /\ u.stolen = t.stolen
      BY <2>6, <2>8, SetInode
    <2> HIDE DEF u
    <2>10. /\ Leads(u, z) /\ z.fl = u.fl /\ z.stolen = u.stolen
           /\ \A c \in Blocks \ {1} : z.disk[c] = u.disk[c]
      BY <2>9, InodeUpdateEffect
    <2> HIDE DEF z
    <2>11. CASE m.s.stolen
      BY <2>3, <2>5, <2>9, <2>10, <2>11 DEF r
    <2>12. CASE ~m.s.stolen
      <3>1. /\ Balanced(m.s, Slots, {}) /\ Kept(s, m.s, Slots)
            /\ m.blk = At(m.s, <<f, bn>>)
        BY <1>3, <2>12 DEF Keeps
      <3>2. ReadBack(m.s, wr)
        BY <3>1, KeptReads
      <3>3. PICK x : x = m.s
        OBVIOUS
      <3>4. PICK b : b = m.blk
        OBVIOUS
      <3>5. Balanced(t, Slots, {}) /\ ReadBack(t, new)
        <4>1. /\ Balanced(x, Slots, {}) /\ b = At(x, <<f, bn>>) /\ b # 0
              /\ Filled(x, t, b, v) /\ ReadBack(x, wr)
          BY <1>5, <2>5, <2>6, <3>1, <3>2, <3>3, <3>4 DEF Filled
        <4> HIDE DEF data, new
        <4>2. Balanced(t, Slots, {}) /\ ReadBack(t, [wr EXCEPT ![f][bn] = v])
          BY <4>1, BlockFilled
        <4> QED
          BY <4>2 DEF new
      <3>6. Sound(z) /\ z.fl = t.fl /\ \A c \in Blocks \ {1} : z.disk[c] = t.disk[c]
        BY <2>9, <2>10 DEF Leads
      <3>7. ASSUME NEW p \in Slots
            PROVE  /\ z.ino[p[1]].direct = t.ino[p[1]].direct
                   /\ z.ino[p[1]].indirect = t.ino[p[1]].indirect
        <4>1. p[1] \in Files /\ z.ino = u.ino
          BY <2>10 DEF Slots, Leads
        <4> QED
          BY <2>8, <2>9, <4>1
      <3>8. Balanced(z, Slots, {}) /\ Kept(t, z, Slots)
        BY <3>5, <3>6, <3>7, BalanceStays
      <3> HIDE DEF new
      <3>9. ReadBack(z, new)
        BY <3>5, <3>8, KeptReads
      <3> QED
        BY <1>5, <2>3, <3>8, <3>9 DEF r, new
    <2> QED
      BY <2>11, <2>12
  <1> QED
    BY <1>4, <1>5

-----------------------------------------------------------------------------
(* fs_iput()                                                               *)

\* The slots of f from n on, and those of the other files.
From(f, n) == {p \in Slots : p[1] # f \/ p[2] >= n}

\* fs_iput() has given back the blocks of s that are not in P, and no others.
Carries(s, t, P) ==
    Balanced(t, P, {}) /\ Kept(s, t, P) /\ \A p \in P : At(t, p) = At(s, p)

LEMMA FromSlots ==
    ASSUME NEW f \in Files
    PROVE  /\ From(f, 0) = Slots /\ From(f, Final + 1) = Others(f)
           /\ \A n \in 0..Final : /\ <<f, n>> \in From(f, n)
                                  /\ From(f, n) \ {<<f, n>>} = From(f, n + 1)
                                  /\ Closed(From(f, n)) /\ Closed(From(f, n + 1))
  <1>1. Final \in Nat /\ NDIRECT \in Nat
    BY ClosedSlots
  <1>2. \A p \in Slots : p[1] \in Files /\ p[2] \in 0..Final /\ p = <<p[1], p[2]>>
    BY DEF Slots
  <1>3. From(f, 0) = Slots
    BY <1>1, <1>2 DEF From
  <1>4. From(f, Final + 1) = Others(f)
    BY <1>1, <1>2 DEF From, Others
  <1>5. ASSUME NEW n \in 0..Final
        PROVE  <<f, n>> \in From(f, n) /\ From(f, n) \ {<<f, n>>} = From(f, n + 1)
    <2>1. <<f, n>> \in From(f, n)
      BY <1>1 DEF From, Slots
    <2>2. ASSUME NEW p \in Slots
          PROVE  (p \in From(f, n) /\ p # <<f, n>>) <=> p \in From(f, n + 1)
      <3>1. p = <<f, n>> <=> p[1] = f /\ p[2] = n
        BY <1>2
      <3>2. p[2] \in Int /\ n \in Int
        BY <1>1, <1>2
      <3> QED
        BY <3>1, <3>2 DEF From
    <2> QED
      BY <2>1, <2>2 DEF From
  <1>6. ASSUME NEW n \in 0..Final
        PROVE  Closed(From(f, n))
    <2>1. ASSUME NEW p \in From(f, n)
          PROVE  <<p[1], Final>> \in From(f, n)
      <3>1. p[1] \in Files
        BY <1>2 DEF From
      <3> QED
        BY <1>1, <2>1, <3>1 DEF From, Slots
    <2> QED
      BY <2>1 DEF Closed, From
  <1>7. ASSUME NEW n \in 0..Final
        PROVE  Closed(From(f, n + 1))
    <2>1. CASE n = Final
      BY <1>4, <2>1, ClosedSlots
    <2>2. CASE n # Final
      <3>1. n + 1 \in 0..Final
        BY <1>1, <2>2
      <3> QED
        BY <1>6, <3>1
    <2> QED
      BY <2>1, <2>2
  <1> QED
    BY <1>3, <1>4, <1>5, <1>6, <1>7

\* The block of one slot more is given back.
LEMMA CarriesOn ==
    ASSUME NEW s, NEW t, NEW P, Carries(s, t, P), NEW p \in P, Closed(P \ {p})
    PROVE  LET u == FreeIfAny(t, At(s, p))
           IN  Carries(s, u, P \ {p}) /\ u.stolen = t.stolen
  <1> DEFINE u == FreeIfAny(t, At(s, p))
             R == P \ {p}
  <1>1. Balanced(t, P, {}) /\ Kept(s, t, P) /\ \A r \in P : At(t, r) = At(s, r)
    BY DEF Carries
  <1>2. At(t, p) = At(s, p)
    BY <1>1
  <1>3. /\ Balanced(u, R, {}) /\ Kept(t, u, R)
        /\ \A r \in R : At(u, r) = At(t, r)
        /\ u.stolen = t.stolen
    BY <1>1, <1>2, BalanceFreeIfAny
  <1> HIDE DEF u
  <1>4. Kept(s, t, R)
    BY <1>1 DEF Kept
  <1>5. Kept(s, u, R)
    BY <1>3, <1>4, KeptOn
  <1>6. \A r \in R : At(u, r) = At(s, r)
    BY <1>1, <1>3
  <1> QED
    BY <1>3, <1>5, <1>6 DEF Carries, u

LEMMA StolenStays ==
    ASSUME NEW s, Sound(s), NEW b \in Blocks
    PROVE  FreeIfAny(s, b).stolen = s.stolen
  <1>1. CASE b = 0
    BY <1>1 DEF FreeIfAny
  <1>2. CASE b # 0
    <2>1. b \in Blocks \ {0}
      BY <1>2
    <2> QED
      BY <1>2, <2>1, FreeEffect DEF FreeIfAny
  <1> QED
    BY <1>1, <1>2

\* One turn of the loop over the indirect block.
LEMMA PointerCarries ==
    ASSUME NEW s, NEW t, Sound(t), NEW f \in Files, NEW w \in Words,
           t.ino = s.ino, NEW ind, ind = s.ino[f].indirect, ind # 0, NEW k \in Bufs,
           t.stolen \/ Carries(s, t, From(f, NDIRECT + w - 1))
    PROVE  LET u == FreePointer(t, k, ind, w)
           IN  u.stolen \/ Carries(s, u, From(f, NDIRECT + w))
  <1> DEFINE d == t.stolen \/ t.bufs[k].blk # ind
             x == [t EXCEPT !.stolen = d]
             b == t.bufs[k].data[w]
             u == FreeIfAny(x, b)
  <1>1. FreePointer(t, k, ind, w) = u
    BY DEF FreePointer
  <1>2. b \in Blocks
    <2>1. t.bufs[k].data \in Contents
      BY SoundFields
    <2> QED
      BY <2>1 DEF Contents
  <1>3. d \in BOOLEAN
    OBVIOUS
  <1> HIDE DEF d
  <1>4. /\ Leads(t, x) /\ x.stolen = d
        /\ x.bufs = t.bufs /\ x.disk = t.disk /\ x.fl = t.fl
    BY <1>3, SetStolen
  <1> HIDE DEF x, b
  <1>5. Sound(x) /\ x.ino = t.ino
    BY <1>4 DEF Leads
  <1>6. CASE d
    BY <1>1, <1>2, <1>4, <1>5, <1>6, StolenStays
  <1>7. CASE ~d
    <2> DEFINE n == NDIRECT + w - 1
               p == <<f, n>>
    <2>1. /\ n \in 0..Final /\ n + 1 = NDIRECT + w /\ n - NDIRECT + 1 = w
          /\ ~(n < NDIRECT) /\ n # Final /\ p[1] = f /\ p[2] = n
      BY BufCacheAssumption DEF Final, Words
    <2>2. t.bufs[k].blk = ind /\ ~t.stolen
      BY <1>7 DEF d
    <2> HIDE DEF n
    <2>3. /\ p \in From(f, n) /\ From(f, n) \ {p} = From(f, NDIRECT + w)
          /\ Closed(From(f, n)) /\ Closed(From(f, NDIRECT + w))
      BY <2>1, FromSlots
    <2>4. Carries(s, t, From(f, n))
      BY <2>2 DEF n
    <2>5. b = At(s, p)
      <3>1. ind # None
        BY InodeFields, Constants
      <3>2. t.bufs[k].data = t.disk[ind]
        BY <2>2, <3>1 DEF Sound, Coherent
      <3>3. At(t, p) = t.disk[ind][w]
        BY <2>1 DEF At
      <3>4. At(t, p) = At(s, p)
        BY <2>3, <2>4 DEF Carries
      <3> QED
        BY <3>2, <3>3, <3>4 DEF b
    <2> HIDE DEF p
    <2>6. /\ Balanced(x, From(f, n), {}) /\ Kept(t, x, From(f, n))
          /\ \A r \in From(f, n) : At(x, r) = At(t, r)
      <3>1. Balanced(t, From(f, n), {})
        BY <2>4 DEF Carries
      <3> QED
        BY <1>4, <1>5, <3>1, BalanceStays
    <2>7. Carries(s, x, From(f, n))
      BY <2>4, <2>6, KeptOn DEF Carries
    <2>8. Carries(s, u, From(f, n) \ {p})
      BY <2>3, <2>5, <2>7, CarriesOn
    <2> QED
      BY <1>1, <2>3, <2>8
  <1> QED
    BY <1>6, <1>7

\* The loop over the direct blocks.
LEMMA DirectCarries ==
    ASSUME NEW s, Balanced(s, Slots, {}), NEW f \in Files,
           NEW b \in [1..NDIRECT -> Blocks],
           \A n \in 1..NDIRECT : b[n] = s.ino[f].direct[n - 1]
    PROVE  LET t == FreeAll(s, b)
           IN  Leads(s, t) /\ t.stolen = s.stolen /\ Carries(s, t, From(f, NDIRECT))
  <1>1. Sound(s) /\ NDIRECT \in Nat /\ NDIRECT > 0 /\ Final \in Nat /\ Final > NDIRECT
    BY ClosedSlots DEF Balanced
  <1>8. PICK g : AllTurns(g, s, NDIRECT, b)
    BY <1>1, FreeAllTurns
  <1>2. /\ g[0] = s
        /\ \A w \in 1..NDIRECT : Leads(s, g[w - 1]) /\ g[w] = FreeIfAny(g[w - 1], b[w])
        /\ Leads(s, g[NDIRECT]) /\ FreeAll(s, b) = g[NDIRECT]
    BY <1>8 DEF AllTurns
  <1> DEFINE D == [w \in 0..NDIRECT |->
                     {x \in Memory : x.stolen = s.stolen /\ Carries(s, x, From(f, w))}]
  <1>3. g[0] \in D[0]
    <2>1. Carries(s, s, From(f, 0))
      BY SameKept, FromSlots DEF Carries
    <2>2. 0 \in 0..NDIRECT /\ s \in Memory
      BY <1>1 DEF Sound
    <2> QED
      BY <1>2, <2>1, <2>2
  <1>4. ASSUME NEW w \in 1..NDIRECT, g[w - 1] \in D[w - 1]
        PROVE  g[w] \in D[w]
    <2> DEFINE p == <<f, w - 1>>
    <2>1. /\ w - 1 \in 0..Final /\ (w - 1) + 1 = w /\ w \in 0..NDIRECT
          /\ w - 1 \in 0..NDIRECT /\ w - 1 < NDIRECT /\ p[1] = f /\ p[2] = w - 1
      BY <1>1
    <2>2. Carries(s, g[w - 1], From(f, w - 1)) /\ g[w - 1].stolen = s.stolen
      BY <1>4, <2>1
    <2>3. b[w] = At(s, p)
      BY <2>1 DEF At
    <2>4. /\ p \in From(f, w - 1) /\ From(f, w - 1) \ {p} = From(f, w)
          /\ Closed(From(f, w))
      BY <2>1, FromSlots
    <2>5. g[w] = FreeIfAny(g[w - 1], At(s, p))
      BY <1>2, <2>3
    <2> HIDE DEF p, D
    <2>6. PICK x : x = g[w - 1]
      OBVIOUS
    <2>7. Carries(s, g[w], From(f, w)) /\ g[w].stolen = s.stolen
      BY <2>2, <2>4, <2>5, <2>6, CarriesOn
    <2>8. g[w] \in Memory
      BY <2>7 DEF Carries, Balanced, Sound
    <2> QED
      BY <2>1, <2>7, <2>8 DEF D
  <1>5. D[NDIRECT] = {x \in Memory : x.stolen = s.stolen /\ Carries(s, x, From(f, NDIRECT))}
    BY <1>1
  <1> HIDE DEF D
  <1>6. g[NDIRECT] \in D[NDIRECT]
    BY <1>1, <1>3, <1>4, TurnsLead
  <1> QED
    BY <1>2, <1>5, <1>6

\* The loop over the indirect block.
LEMMA PointersCarry ==
    ASSUME NEW s, NEW t, Sound(t), NEW f \in Files,
           t.ino = s.ino, NEW ind, ind = s.ino[f].indirect, ind # 0, NEW k \in Bufs,
           Carries(s, t, From(f, NDIRECT))
    PROVE  LET u == FreePointers(t, k, ind)
           IN  Leads(t, u) /\ (u.stolen \/ Carries(s, u, From(f, Final)))
  <1> DEFINE N == PTRS_PER_BLK
  <1>1. N \in Nat /\ N > 0 /\ NDIRECT \in Nat /\ Final = NDIRECT + N /\ Words = 1..N
    BY BufCacheAssumption DEF Final, Words
  <1>2. PICK g : /\ g[0] = t
                 /\ \A w \in Words : /\ Leads(t, g[w - 1])
                                     /\ g[w] = FreePointer(g[w - 1], k, ind, w)
                 /\ Leads(t, g[N]) /\ FreePointers(t, k, ind) = g[N]
    BY FreePointersTurns
  <1> HIDE DEF N
  <1> DEFINE D == [w \in 0..N |-> {x \in Memory : x.stolen \/ Carries(s, x, From(f, NDIRECT + w))}]
  <1>3. g[0] \in D[0]
    <2>1. 0 \in 0..N /\ t \in Memory /\ NDIRECT + 0 = NDIRECT
      BY <1>1 DEF Sound
    <2> QED
      BY <1>2, <2>1
  <1>4. ASSUME NEW w \in 1..N, g[w - 1] \in D[w - 1]
        PROVE  g[w] \in D[w]
    <2>1. /\ w \in Words /\ w \in 0..N /\ w - 1 \in 0..N
          /\ NDIRECT + (w - 1) = NDIRECT + w - 1
      BY <1>1
    <2>2. PICK x : x = g[w - 1]
      OBVIOUS
    <2>3. x.stolen \/ Carries(s, x, From(f, NDIRECT + w - 1))
      BY <1>4, <2>1, <2>2
    <2>4. Sound(x) /\ x.ino = s.ino /\ g[w] = FreePointer(x, k, ind, w)
      BY <1>2, <2>1, <2>2 DEF Leads
    <2> HIDE DEF D
    <2>5. g[w].stolen \/ Carries(s, g[w], From(f, NDIRECT + w))
      BY <2>1, <2>3, <2>4, PointerCarries
    <2>6. g[w] \in Memory
      <3>1. Leads(x, FreePointer(x, k, ind, w))
        BY <2>1, <2>4, FreePointerLeads
      <3> QED
        BY <2>4, <3>1 DEF Leads, Sound
    <2> QED
      BY <2>1, <2>5, <2>6 DEF D
  <1>5. D[N] = {x \in Memory : x.stolen \/ Carries(s, x, From(f, Final))}
    BY <1>1
  <1> HIDE DEF D
  <1>6. g[N] \in D[N]
    BY <1>1, <1>3, <1>4, TurnsLead
  <1> QED
    BY <1>2, <1>5, <1>6

\* A file without an indirect block has no slots but the direct ones.
LEMMA NoIndirect ==
    ASSUME NEW s, NEW f \in Files, Balanced(s, From(f, NDIRECT), {}), s.ino[f].indirect = 0
    PROVE  Balanced(s, Others(f), {})
  <1>1. Sound(s) /\ Apart(s, From(f, NDIRECT)) /\ Closed(Others(f))
    BY ClosedSlots DEF Balanced
  <1>2. Others(f) \in SUBSET From(f, NDIRECT)
    BY DEF Others, From
  <1>3. ASSUME NEW p \in From(f, NDIRECT), p \notin Others(f)
        PROVE  At(s, p) = 0
    <2>1. p[1] = f /\ p[2] >= NDIRECT /\ p[2] \in 0..Final /\ NDIRECT \in Nat
      BY <1>3, ClosedSlots DEF From, Others
    <2>2. ~(p[2] < NDIRECT)
      BY <2>1, ClosedSlots
    <2> QED
      BY <2>1, <2>2 DEF At
  <1>4. Used(s, Others(f)) = Used(s, From(f, NDIRECT))
    BY <1>2, <1>3 DEF Used
  <1>5. Apart(s, Others(f))
    BY <1>1, <1>2 DEF Apart
  <1> QED
    BY <1>1, <1>4, <1>5 DEF Balanced

\* An inode without blocks is as good as none.
LEMMA EmptySlots ==
    ASSUME NEW s, NEW f \in Files, Balanced(s, Others(f), {}),
           NEW t, Sound(t), t.ino[f] = Empty, \A g \in Files \ {f} : t.ino[g] = s.ino[g],
           t.disk = s.disk, t.fl = s.fl
    PROVE  Balanced(t, Slots, {}) /\ Kept(s, t, Others(f))
  <1>1. Sound(s) /\ Apart(s, Others(f)) /\ Closed(Others(f)) /\ Closed(Slots)
    BY ClosedSlots DEF Balanced
  <1>2. ASSUME NEW p \in Others(f)
        PROVE  At(t, p) = At(s, p) /\ p \in Slots
    <2>1. p[1] \in Files \ {f} /\ p \in Slots
      BY DEF Others, Slots
    <2> QED
      BY <2>1 DEF At
  <1>3. ASSUME NEW p \in Slots \ Others(f)
        PROVE  At(t, p) = 0
    <2>1. p[1] = f /\ p[2] \in 0..Final
      BY ClosedSlots DEF Others
    <2>2. t.ino[f].indirect = 0 /\ \A n \in 0..(NDIRECT - 1) : t.ino[f].direct[n] = 0
      BY DEF Empty
    <2>3. p[2] < NDIRECT => p[2] \in 0..(NDIRECT - 1)
      BY <2>1, ClosedSlots
    <2> QED
      BY <2>1, <2>2, <2>3 DEF At
  <1>4. Used(t, Slots) = Used(s, Others(f))
    <2>1. Others(f) \in SUBSET Slots
      BY DEF Others
    <2> QED
      BY <1>2, <1>3, <2>1 DEF Used
  <1>5. Apart(t, Slots)
    <2> SUFFICES ASSUME NEW p \in Slots
                 PROVE  /\ At(t, p) \in Body \cup {0}
                        /\ \A q \in Slots \ {p} : At(t, q) = At(t, p) => At(t, p) = 0
      BY DEF Apart
    <2>1. CASE p \in Others(f)
      <3>1. /\ At(s, p) \in Body \cup {0}
            /\ \A q \in Others(f) \ {p} : At(s, q) = At(s, p) => At(s, p) = 0
        BY <1>1, <2>1 DEF Apart
      <3>2. At(t, p) = At(s, p)
        BY <1>2, <2>1
      <3>3. ASSUME NEW q \in Slots \ {p}, At(t, q) = At(t, p)
            PROVE  At(t, p) = 0
        BY <1>2, <1>3, <3>1, <3>2, <3>3
      <3> QED
        BY <3>1, <3>2, <3>3
    <2>2. CASE p \notin Others(f)
      BY <1>3, <2>2
    <2> QED
      BY <2>1, <2>2
  <1> DEFINE U == Body \ (Used(s, Others(f)) \cup {})
  <1>6. FreeList(s, U)
    BY DEF Balanced
  <1> HIDE DEF U
  <1>7. FreeList(t, U)
    BY <1>6, ListSame
  <1>8. Balanced(t, Slots, {})
    BY <1>1, <1>4, <1>5, <1>7 DEF Balanced, U
  <1>9. Kept(s, t, Others(f))
    BY <1>2 DEF Kept
  <1> QED
    BY <1>8, <1>9

LEMMA OthersRead ==
    ASSUME NEW s, NEW t, NEW f \in Files, Kept(s, t, Others(f)),
           NEW wr \in [Files -> [FileBlocks -> {0} \cup Values]], ReadBack(s, wr)
    PROVE  ReadBack(t, [wr EXCEPT ![f] = [bn \in FileBlocks |-> 0]])
  <1> DEFINE new == [wr EXCEPT ![f] = [bn \in FileBlocks |-> 0]]
  <1> SUFFICES ASSUME NEW g \in Files, NEW bn \in FileBlocks, new[g][bn] # 0
               PROVE  /\ At(t, <<g, bn>>) # 0
                      /\ t.disk[At(t, <<g, bn>>)] = [w \in Words |-> new[g][bn]]
    BY DEF ReadBack
  <1>1. g # f
    OBVIOUS
  <1>2. new[g][bn] = wr[g][bn]
    BY <1>1
  <1>3. PICK p : p = <<g, bn>>
    OBVIOUS
  <1>4. p \in Others(f) /\ p[2] # Final
    BY <1>1, <1>3, DataSlots DEF Others
  <1>5. At(s, p) # 0 /\ s.disk[At(s, p)] = [w \in Words |-> wr[g][bn]]
    BY <1>2, <1>3 DEF ReadBack
  <1>6. At(t, p) = At(s, p) /\ t.disk[At(s, p)] = s.disk[At(s, p)]
    BY <1>4, <1>5 DEF Kept
  <1> HIDE DEF new
  <1> QED
    BY <1>2, <1>3, <1>5, <1>6

\* fs_iput() gives back what the file had, and nothing else.
LEMMA PutKeeps ==
    ASSUME NEW s, Balanced(s, Slots, {}), NEW f \in Files
    PROVE  LET t == fs_iput(s, f)
           IN  t.stolen \/ (Balanced(t, Slots, {}) /\ Kept(s, t, Others(f)))
  <1> DEFINE di == s.ino[f]
             direct == [n \in 1..NDIRECT |-> di.direct[n - 1]]
             s0 == fs_iupdate(s, f)
             t0 == FreeAll(s0, direct)
             ib == bread(t0, di.indirect)
             p == FreePointers(ib.s, ib.k, di.indirect)
             q == bfree(p, di.indirect)
             t1 == IF di.indirect = 0 THEN t0 ELSE q
             u == [t1 EXCEPT !.ino[f] = Empty]
             t == fs_iupdate(u, f)
             ind == di.indirect
  <1>1. fs_iput(s, f) = t
    BY DEF fs_iput, FreeAll
  <1>2. ind \in Blocks /\ direct \in [1..NDIRECT -> Blocks]
    <2>1. /\ di.indirect \in Blocks
          /\ \A n \in 0..(NDIRECT - 1) : di.direct[n] \in Blocks
      BY InodeFields DEF Balanced
    <2>2. ASSUME NEW n \in 1..NDIRECT
          PROVE  n - 1 \in 0..(NDIRECT - 1)
      BY BufCacheAssumption
    <2> HIDE DEF di
    <2> QED
      BY <2>1, <2>2
  <1>3. \A n \in 1..NDIRECT : direct[n] = s.ino[f].direct[n - 1]
    OBVIOUS
  <1>4. ind = s.ino[f].indirect /\ di.indirect = ind
    OBVIOUS
  <1> HIDE DEF di, direct, ind
  <1>5. /\ Balanced(s0, Slots, {}) /\ Kept(s, s0, Slots) /\ s0.ino = s.ino
    <2>1. /\ Leads(s, s0) /\ s0.fl = s.fl /\ s0.stolen = s.stolen
          /\ \A c \in Blocks \ {1} : s0.disk[c] = s.disk[c]
      BY InodeUpdateEffect DEF Balanced
    <2> HIDE DEF s0
    <2>2. Sound(s0) /\ s0.ino = s.ino
      BY <2>1 DEF Leads
    <2> QED
      BY <2>1, <2>2, BalanceStays
  <1> HIDE DEF s0
  <1>6. Leads(s0, t0) /\ t0.stolen = s0.stolen /\ Carries(s0, t0, From(f, NDIRECT))
    <2>1. \A n \in 1..NDIRECT : direct[n] = s0.ino[f].direct[n - 1]
      BY <1>3, <1>5
    <2> QED
      BY <1>2, <1>5, <2>1, DirectCarries
  <1> HIDE DEF t0
  <1>7. Sound(t0) /\ t0.ino = s.ino
    BY <1>5, <1>6 DEF Leads
  <1>8. Sound(t1) /\ t1.ino = s.ino
        /\ (t1.stolen \/ (Balanced(t1, Others(f), {}) /\ Kept(s0, t1, Others(f))))
    <2>1. CASE ind = 0
      <3>1. t1 = t0
        BY <1>4, <2>1
      <3>2. Balanced(t0, Others(f), {})
        BY <1>4, <1>6, <1>7, <2>1, NoIndirect DEF Carries
      <3>3. Kept(s0, t0, Others(f))
        BY <1>6 DEF Carries, Kept, Others, From
      <3> QED
        BY <1>7, <3>1, <3>2, <3>3
    <2>2. CASE ind # 0
      <3>1. t1 = q /\ q = bfree(p, ind) /\ p = FreePointers(ib.s, ib.k, ind)
            /\ ib = bread(t0, ind)
        BY <1>4, <2>2
      <3> HIDE DEF ib, p, q, t1
      <3>2. /\ Leads(t0, ib.s) /\ ib.k \in Bufs
            /\ ib.s.disk = t0.disk /\ ib.s.fl = t0.fl
        BY <1>2, <1>7, <3>1, Bread
      <3>3. Sound(ib.s) /\ ib.s.ino = s0.ino
        BY <1>5, <1>7, <3>2 DEF Leads
      <3>4. Carries(s0, ib.s, From(f, NDIRECT))
        <4>1. PICK x : x = ib.s
          OBVIOUS
        <4>2. /\ Balanced(x, From(f, NDIRECT), {}) /\ Kept(t0, x, From(f, NDIRECT))
              /\ \A r \in From(f, NDIRECT) : At(x, r) = At(t0, r)
          <5>1. Balanced(t0, From(f, NDIRECT), {})
            BY <1>6 DEF Carries
          <5>2. /\ Sound(x) /\ x.fl = t0.fl /\ x.ino = t0.ino
                /\ \A c \in Blocks \ {1} : x.disk[c] = t0.disk[c]
            BY <1>5, <1>7, <3>2, <3>3, <4>1
          <5> QED
            BY <5>1, <5>2, BalanceStays
        <4>3. Kept(s0, x, From(f, NDIRECT))
          BY <1>6, <4>2, KeptOn DEF Carries
        <4> QED
          BY <1>6, <4>1, <4>2, <4>3 DEF Carries
      <3>5. Leads(ib.s, p) /\ (p.stolen \/ Carries(s0, p, From(f, Final)))
        <4>1. PICK x : x = ib.s
          OBVIOUS
        <4>2. Sound(x) /\ x.ino = s0.ino /\ ind = s0.ino[f].indirect
              /\ Carries(s0, x, From(f, NDIRECT)) /\ p = FreePointers(x, ib.k, ind)
          BY <1>4, <1>5, <3>1, <3>3, <3>4, <4>1
        <4>3. Leads(x, p) /\ (p.stolen \/ Carries(s0, p, From(f, Final)))
          BY <2>2, <3>2, <4>2, PointersCarry
        <4> QED
          BY <4>1, <4>3
      <3>6. Sound(p) /\ p.ino = s.ino
        BY <1>5, <3>3, <3>5 DEF Leads
      <3>7. Sound(q) /\ q.ino = s.ino /\ q.stolen = p.stolen
        <4>1. ind \in Blocks \ {0}
          BY <1>2, <2>2
        <4> QED
          BY <3>1, <3>6, <4>1, FreeEffect DEF Leads
      <3>8. ASSUME Carries(s0, p, From(f, Final))
            PROVE  Balanced(q, Others(f), {}) /\ Kept(s0, q, Others(f))
        <4> DEFINE l == <<f, Final>>
        <4>1. /\ l \in From(f, Final) /\ From(f, Final) \ {l} = Others(f)
              /\ Closed(Others(f)) /\ l[1] = f /\ l[2] = Final /\ ~(Final < NDIRECT)
          BY FromSlots, ClosedSlots
        <4>2. At(s0, l) = ind
          BY <1>4, <1>5, <4>1 DEF At
        <4> HIDE DEF l
        <4>3. q = FreeIfAny(p, At(s0, l))
          BY <2>2, <3>1, <4>2 DEF FreeIfAny
        <4>4. Carries(s0, q, Others(f))
          BY <3>8, <4>1, <4>3, CarriesOn
        <4> QED
          BY <4>4 DEF Carries
      <3> QED
        BY <3>1, <3>5, <3>7, <3>8
    <2> QED
      BY <2>1, <2>2
  <1> HIDE DEF t1
  <1>9. Empty \in Inode
    <2>1. 0 \in 0..Cardinality(FileBlocks)
      BY LongestFile, BufCacheAssumption
    <2> QED
      BY <2>1, Constants DEF Inode, Empty
  <1>10. /\ Sound(u) /\ u.ino[f] = Empty /\ \A g \in Files \ {f} : u.ino[g] = t1.ino[g]
         /\ u.disk = t1.disk /\ u.fl = t1.fl /\ u.stolen = t1.stolen
    BY <1>8, <1>9, SetInode
  <1> HIDE DEF u
  <1>11. /\ Leads(u, t) /\ t.fl = u.fl /\ t.stolen = u.stolen
         /\ \A c \in Blocks \ {1} : t.disk[c] = u.disk[c]
    BY <1>10, InodeUpdateEffect
  <1> HIDE DEF t
  <1>12. ASSUME ~t.stolen
         PROVE  Balanced(t, Slots, {}) /\ Kept(s, t, Others(f))
    <2>1. Balanced(t1, Others(f), {}) /\ Kept(s0, t1, Others(f))
      BY <1>8, <1>10, <1>11, <1>12
    <2>2. Balanced(u, Slots, {}) /\ Kept(t1, u, Others(f))
      BY <1>10, <2>1, EmptySlots
    <2>3. Balanced(t, Slots, {}) /\ Kept(u, t, Slots)
      <3>1. Sound(t) /\ t.ino = u.ino
        BY <1>11 DEF Leads
      <3> QED
        BY <1>11, <2>2, <3>1, BalanceStays
    <2>4. Kept(s, s0, Others(f)) /\ Kept(u, t, Others(f))
      BY <1>5, <2>3 DEF Kept, Others
    <2> QED
      BY <2>1, <2>2, <2>3, <2>4, KeptOn
  <1> QED
    BY <1>1, <1>12

-----------------------------------------------------------------------------
(* The properties, from what the functions keep                            *)

\* The free list as BlocksPartitioned walks it.
LEMMA FreeListWalked ==
    ASSUME NEW n \in Nat, NEW q, ChainOf(Mem, n, q)
    PROVE  n <= NBLOCKS /\ \A i \in 0..NBLOCKS : NthFree[i] = IF i <= n THEN q[i] ELSE 0
  <1>1. /\ q \in [0..n -> Body \cup {0}] /\ q[0] = free_list /\ q[n] = 0
        /\ \A i \in 0..(n - 1) : /\ q[i] # 0 /\ disk[q[i]][1] = q[i + 1]
                                 /\ \A j \in 0..(n - 1) : q[j] = q[i] => j = i
    BY DEF ChainOf, Mem
  <1>2. NBLOCKS \in Nat /\ NBLOCKS > 2
    BY BufCacheAssumption
  <1>3. n <= NBLOCKS
    <2> SUFFICES ASSUME n > NBLOCKS PROVE FALSE
      BY <1>2
    <2> DEFINE S == 0..NBLOCKS
               r == [i \in S |-> q[i]]
    <2>1. IsFiniteSet(S) /\ Cardinality(S) = NBLOCKS + 1
      <3>1. 0 \in Int /\ NBLOCKS \in Int /\ ~(0 > NBLOCKS)
        BY <1>2
      <3>2. IsFiniteSet(0..NBLOCKS) /\ Cardinality(0..NBLOCKS) = NBLOCKS - 0 + 1
        BY <3>1, FS_Interval
      <3> QED
        BY <1>2, <3>2
    <2>2. IsFiniteSet(Blocks) /\ Cardinality(Blocks) = NBLOCKS
      <3>1. PICK m \in Nat : m = NBLOCKS - 1
        BY <1>2
      <3>2. 0 \in Int /\ m \in Int /\ ~(0 > m)
        BY <3>1
      <3>3. IsFiniteSet(0..m) /\ Cardinality(0..m) = m - 0 + 1
        BY <3>2, FS_Interval
      <3> QED
        BY <1>2, <3>1, <3>3 DEF Blocks
    <2>3. r \in [S -> Blocks]
      <3>1. \A i \in S : i \in 0..n
        BY <1>2
      <3>2. Body \cup {0} \in SUBSET Blocks
        BY Constants DEF Body
      <3> QED
        BY <1>1, <3>1, <3>2
    <2>4. \A i \in S : i \in 0..(n - 1) /\ r[i] = q[i]
      BY <1>2
    <2> HIDE DEF S, r
    <2>5. Cardinality(Blocks) < Cardinality(S)
      BY <1>2, <2>1, <2>2
    <2>6. PICK x, y \in S : x # y /\ r[x] = r[y]
      BY <2>1, <2>2, <2>3, <2>5, FS_PigeonHole
    <2> QED
      BY <1>1, <2>4, <2>6
  <1> DEFINE Walk(g) == [i \in 0..NBLOCKS |->
                IF i = 0 THEN free_list
                ELSE LET before == g[i - 1] IN IF before = 0 THEN 0 ELSE disk[before][1]]
             h == [i \in 0..NBLOCKS |-> IF i <= n THEN q[i] ELSE 0]
  <1>4. h = Walk(h)
    <2>1. ASSUME NEW i \in 0..NBLOCKS
          PROVE  h[i] = Walk(h)[i]
      <3>1. CASE i = 0
        BY <1>1, <3>1
      <3>2. CASE i # 0
        <4>1. /\ i - 1 \in 0..NBLOCKS /\ i \in Nat
              /\ (i - 1) + 1 = i
          BY <1>2, <3>2
        <4>2. Walk(h)[i] = IF h[i - 1] = 0 THEN 0 ELSE disk[h[i - 1]][1]
          BY <3>2
        <4>3. CASE i <= n
          <5>1. i - 1 \in 0..(n - 1) /\ h[i - 1] = q[i - 1] /\ h[i] = q[i]
            BY <3>2, <4>1, <4>3
          <5>2. q[i - 1] # 0 /\ disk[q[i - 1]][1] = q[i]
            BY <1>1, <4>1, <5>1
          <5> HIDE DEF h, Walk
          <5> QED
            BY <4>2, <5>1, <5>2
        <4>4. CASE ~(i <= n)
          <5>1. h[i - 1] = 0 /\ h[i] = 0
            <6>1. h[i] = 0
              BY <4>4
            <6>2. CASE i - 1 <= n
              <7>1. i - 1 = n
                BY <4>1, <4>4, <6>2
              <7> QED
                BY <1>1, <4>1, <6>1, <7>1
            <6>3. CASE ~(i - 1 <= n)
              BY <4>1, <6>1, <6>3
            <6> QED
              BY <6>2, <6>3
          <5> HIDE DEF h, Walk
          <5> QED
            BY <4>2, <5>1
        <4> QED
          BY <4>3, <4>4
      <3> QED
        BY <3>1, <3>2
    <2>2. DOMAIN h = 0..NBLOCKS /\ DOMAIN Walk(h) = 0..NBLOCKS
          /\ h = [i \in DOMAIN h |-> h[i]] /\ Walk(h) = [i \in DOMAIN Walk(h) |-> Walk(h)[i]]
      OBVIOUS
    <2> HIDE DEF h, Walk
    <2> QED
      BY <2>1, <2>2
  <1>5. NthFree = CHOOSE g : g = Walk(g)
    BY DEF NthFree
  <1> HIDE DEF h
  <1>6. NthFree = Walk(NthFree)
    BY <1>4, <1>5
  <1>7. ASSUME NEW i \in 0..NBLOCKS
        PROVE  NthFree[i] = h[i]
    <2> DEFINE bad == {j \in 0..NBLOCKS : NthFree[j] # h[j]}
    <2> SUFFICES ASSUME bad # {} PROVE FALSE
      OBVIOUS
    <2>1. bad \in SUBSET Nat
      OBVIOUS
    <2>2. PICK j \in bad : \A k \in bad : j <= k
      BY <2>1, HasLeast
    <2>3. NthFree[j] = Walk(NthFree)[j] /\ h[j] = Walk(h)[j] /\ j \in 0..NBLOCKS
      BY <1>4, <1>6, <2>2
    <2>4. CASE j = 0
      BY <2>2, <2>3, <2>4
    <2>5. CASE j # 0
      <3>1. j - 1 \in 0..NBLOCKS /\ ~(j <= j - 1)
        <4>1. PICK m \in Nat : m = j /\ m <= NBLOCKS
          BY <2>3
        <4>2. m - 1 \in 0..NBLOCKS /\ ~(m <= m - 1)
          BY <1>2, <2>5, <4>1
        <4> QED
          BY <4>1, <4>2
      <3>2. NthFree[j - 1] = h[j - 1]
        BY <2>2, <3>1
      <3>3. Walk(NthFree)[j] = Walk(h)[j]
        BY <2>3, <2>5, <3>2
      <3> QED
        BY <2>2, <2>3, <3>3
    <2> QED
      BY <2>4, <2>5
  <1> QED
    BY <1>3, <1>7 DEF h

LEMMA PlacesAreSlots ==
    /\ Places = ({None} \X (0..NBLOCKS)) \cup Slots
    /\ \A p \in Slots : p[1] # None /\ BlockAt(p) = At(Mem, p)
    /\ \A f \in Files, bn \in FileBlocks : MappedBlock(f, bn) = At(Mem, <<f, bn>>)
  <1>1. /\ NDIRECT \in Nat /\ NDIRECT > 0 /\ PTRS_PER_BLK \in Nat /\ PTRS_PER_BLK > 0
        /\ Final \in Nat /\ Final > NDIRECT /\ Final = NDIRECT + PTRS_PER_BLK
        /\ None \notin Files
    BY BufCacheAssumption DEF Final, None
  <1>2. Places = ({None} \X (0..NBLOCKS)) \cup Slots
    BY DEF Places, Slots, Final
  <1>3. ASSUME NEW f \in Files, NEW bn \in FileBlocks
        PROVE  MappedBlock(f, bn) = At(Mem, <<f, bn>>)
    <2>1. <<f, bn>>[1] = f /\ <<f, bn>>[2] = bn /\ bn # Final
      BY DataSlots
    <2>2. Mem.ino = ino /\ Mem.disk = disk
      BY DEF Mem
    <2> QED
      BY <2>1, <2>2 DEF MappedBlock, At
  <1>4. ASSUME NEW p \in Slots
        PROVE  p[1] # None /\ BlockAt(p) = At(Mem, p)
    <2>1. p[1] \in Files /\ p[2] \in 0..Final /\ p = <<p[1], p[2]>>
      BY DEF Slots
    <2>2. CASE p[2] \in FileBlocks
      BY <1>1, <1>3, <2>1, <2>2 DEF BlockAt
    <2>3. CASE p[2] \notin FileBlocks
      <3>1. p[2] = Final /\ ~(p[2] < NDIRECT)
        BY <1>1, <2>1, <2>3 DEF FileBlocks
      <3>2. At(Mem, p) = ino[p[1]].indirect
        BY <3>1 DEF At, Mem
      <3> QED
        BY <1>1, <2>1, <2>3, <3>2 DEF BlockAt
    <2> QED
      BY <1>1, <2>1, <2>2, <2>3
  <1> QED
    BY <1>2, <1>3, <1>4

LEMMA BalancedPartition == Balanced(Mem, Slots, {}) => BlocksPartitioned
  <1> SUFFICES ASSUME Balanced(Mem, Slots, {})
               PROVE  BlocksPartitioned
    OBVIOUS
  <1> DEFINE U == Body \ (Used(Mem, Slots) \cup {})
  <1>1. /\ Apart(Mem, Slots) /\ FreeList(Mem, U) /\ Mem.disk[0][1] = Mem.fl
        /\ U = Body \ Used(Mem, Slots) /\ Body \in SUBSET Blocks
        /\ 0 \notin Body /\ 1 \notin Body
    BY DEF Balanced, Body
  <1> HIDE DEF U
  <1>2. PICK n \in Nat : \E q : ChainOf(Mem, n, q) /\ U = Links(n, q)
    BY <1>1 DEF FreeList
  <1>3. PICK q : ChainOf(Mem, n, q) /\ U = Links(n, q)
    BY <1>2
  <1>4. n <= NBLOCKS /\ \A i \in 0..NBLOCKS : NthFree[i] = IF i <= n THEN q[i] ELSE 0
    BY <1>3, FreeListWalked
  <1>5. /\ q \in [0..n -> Body \cup {0}] /\ q[n] = 0
        /\ \A i, j \in 0..(n - 1) : q[j] = q[i] => j = i
        /\ U = {q[i] : i \in 0..(n - 1)}
    BY <1>3 DEF ChainOf, Links
  <1>6. NBLOCKS \in Nat
    BY BufCacheAssumption
  <1> DEFINE Free == {None} \X (0..NBLOCKS)
  <1>7. /\ Places = Free \cup Slots
        /\ \A p \in Slots : BlockAt(p) = At(Mem, p)
    BY PlacesAreSlots
  <1>8. ASSUME NEW p \in Free
        PROVE  /\ p[2] \in 0..NBLOCKS /\ p = <<None, p[2]>>
               /\ BlockAt(p) = IF p[2] <= n THEN q[p[2]] ELSE 0
               /\ BlockAt(p) # 0 => p[2] \in 0..(n - 1) /\ BlockAt(p) = q[p[2]]
               /\ BlockAt(p) \in Body \cup {0}
    <2>1. p[1] = None /\ p[2] \in 0..NBLOCKS /\ p = <<None, p[2]>>
      OBVIOUS
    <2>2. BlockAt(p) = NthFree[p[2]]
      BY <2>1 DEF BlockAt
    <2>3. BlockAt(p) = IF p[2] <= n THEN q[p[2]] ELSE 0
      BY <1>4, <2>1, <2>2
    <2>4. CASE p[2] <= n
      <3>1. p[2] \in 0..n /\ BlockAt(p) = q[p[2]]
        BY <2>1, <2>3, <2>4
      <3>2. BlockAt(p) # 0 => p[2] # n
        BY <1>5, <3>1
      <3>3. p[2] # n => p[2] \in 0..(n - 1)
        BY <3>1
      <3> QED
        BY <1>5, <2>1, <2>3, <3>1, <3>2, <3>3
    <2>5. CASE ~(p[2] <= n)
      BY <2>1, <2>3, <2>5
    <2> QED
      BY <2>4, <2>5
  <1>9. ASSUME NEW i \in 0..(n - 1)
        PROVE  <<None, i>> \in Free /\ BlockAt(<<None, i>>) = q[i]
    <2>1. i \in 0..NBLOCKS /\ i <= n
      BY <1>4, <1>6
    <2>2. NthFree[i] = q[i]
      BY <1>4, <2>1
    <2> QED
      BY <2>1, <2>2 DEF BlockAt
  <1> HIDE DEF Free
  <1>10. ASSUME NEW b \in Blocks \ {0, 1}
         PROVE  Cardinality({p \in Places : BlockAt(p) = b}) = 1
    <2> DEFINE H == {p \in Places : BlockAt(p) = b}
    <2>1. b \in Body /\ b # 0
      BY DEF Body
    <2>2. CASE b \in U
      <3>1. PICK i \in 0..(n - 1) : q[i] = b
        BY <1>5, <2>2
      <3> DEFINE l == <<None, i>>
      <3>2. l \in Free /\ BlockAt(l) = b
        BY <1>9, <3>1
      <3>3. ASSUME NEW p \in Free, BlockAt(p) = b
            PROVE  p = l
        <4>1. p[2] \in 0..(n - 1) /\ b = q[p[2]] /\ p = <<None, p[2]>>
          BY <1>8, <2>1, <3>3
        <4>2. p[2] = i
          BY <1>5, <3>1, <4>1
        <4> QED
          BY <4>1, <4>2
      <3> HIDE DEF l
      <3>4. ASSUME NEW p \in Slots
            PROVE  BlockAt(p) # b
        <4>1. b \notin Used(Mem, Slots)
          BY <1>1, <2>2
        <4> QED
          BY <1>7, <2>1, <4>1 DEF Used
      <3>5. H = {l}
        BY <1>7, <3>2, <3>3, <3>4
      <3> HIDE DEF H
      <3>6. Cardinality(H) = 1
        BY <3>5, FS_Singleton
      <3> QED
        BY <3>6 DEF H
    <2>3. CASE b \notin U
      <3>1. b \in Used(Mem, Slots)
        BY <1>1, <2>1, <2>3
      <3>2. PICK l \in Slots : At(Mem, l) = b
        BY <3>1 DEF Used
      <3>3. ASSUME NEW p \in Slots, BlockAt(p) = b
            PROVE  p = l
        BY <1>1, <1>7, <2>1, <3>2, <3>3 DEF Apart
      <3>4. ASSUME NEW p \in Free
            PROVE  BlockAt(p) # b
        <4> SUFFICES ASSUME BlockAt(p) = b PROVE FALSE
          OBVIOUS
        <4>1. p[2] \in 0..(n - 1) /\ b = q[p[2]]
          BY <1>8, <2>1
        <4> QED
          BY <1>5, <2>3, <4>1
      <3>5. H = {l}
        BY <1>7, <3>2, <3>3, <3>4
      <3> HIDE DEF H
      <3>6. Cardinality(H) = 1
        BY <3>5, FS_Singleton
      <3> QED
        BY <3>6 DEF H
    <2> QED
      BY <2>2, <2>3
  <1>11. ASSUME NEW p \in Places
         PROVE  BlockAt(p) # 1
    <2>1. BlockAt(p) \in Body \cup {0}
      BY <1>1, <1>7, <1>8 DEF Apart
    <2> QED
      BY <1>1, <2>1
  <1>12. disk[0][1] = free_list
    BY <1>1 DEF Mem
  <1> QED
    BY <1>10, <1>11, <1>12 DEF BlocksPartitioned

LEMMA ReadsAreBack == ReadBack(Mem, written) => WritesReadBack
  <1> SUFFICES ASSUME ReadBack(Mem, written), NEW f \in Files, NEW bn \in FileBlocks,
                      written[f][bn] # 0
               PROVE  /\ MappedBlock(f, bn) # 0
                      /\ disk[MappedBlock(f, bn)] = [w \in Words |-> written[f][bn]]
    BY DEF WritesReadBack
  <1>1. MappedBlock(f, bn) = At(Mem, <<f, bn>>)
    BY PlacesAreSlots
  <1>2. Mem.disk = disk
    BY DEF Mem
  <1> QED
    BY <1>1, <1>2 DEF ReadBack

-----------------------------------------------------------------------------
(* Initially and at every step                                             *)

\* The inductive invariant of the blocks and of what the files hold.
Owned(s, wr) == s.stolen \/ (Balanced(s, Slots, {}) /\ ReadBack(s, wr))

\* The list fs_init() finds: 2, 3, ..., NBLOCKS - 1.
LEMMA FirstList ==
    ASSUME NEW s, s.fl = 2,
           \A b \in Body : s.disk[b][1] = IF b < NBLOCKS - 1 THEN b + 1 ELSE 0
    PROVE  FreeList(s, Body)
  <1>1. NBLOCKS \in Nat /\ NBLOCKS > 2 /\ Body = 2..(NBLOCKS - 1)
    BY BufCacheAssumption DEF Body, Blocks
  <1>2. PICK n \in Nat : n = NBLOCKS - 2 /\ n > 0
    BY <1>1
  <1>3. \A b \in Nat : b \in Body <=> b >= 2 /\ b < n + 2
    BY <1>1, <1>2
  <1> DEFINE q == [i \in 0..n |-> IF i < n THEN i + 2 ELSE 0]
  <1>4. q[0] = 2 /\ q[n] = 0 /\ q \in [0..n -> Body \cup {0}]
    BY <1>2, <1>3
  <1>5. ASSUME NEW i \in 0..(n - 1)
        PROVE  q[i] = i + 2 /\ q[i] \in Body /\ q[i] # 0
               /\ q[i + 1] = IF i + 2 < NBLOCKS - 1 THEN i + 3 ELSE 0
    <2>1. i \in Nat /\ i < n /\ i + 1 \in 0..n /\ i \in 0..n
      BY <1>2
    <2>2. q[i] = i + 2 /\ q[i + 1] = IF i + 1 < n THEN (i + 1) + 2 ELSE 0
      BY <2>1
    <2> HIDE DEF q
    <2>3. i + 2 \in Body /\ i + 2 # 0
      BY <1>2, <1>3, <2>1
    <2>4. (i + 1) + 2 = i + 3 /\ (i + 1 < n <=> i + 2 < NBLOCKS - 1)
      BY <1>1, <1>2, <2>1
    <2> QED
      BY <2>2, <2>3, <2>4
  <1> HIDE DEF q
  <1>6. \A i \in 0..(n - 1) : s.disk[q[i]][1] = q[i + 1]
    <2> SUFFICES ASSUME NEW i \in 0..(n - 1) PROVE s.disk[q[i]][1] = q[i + 1]
      OBVIOUS
    <2>1. s.disk[q[i]][1] = IF q[i] < NBLOCKS - 1 THEN q[i] + 1 ELSE 0
      BY <1>5
    <2>2. i \in Nat /\ (i + 2) + 1 = i + 3
      BY <1>2
    <2> QED
      BY <1>5, <2>1, <2>2
  <1>7. \A i, j \in 0..(n - 1) : q[j] = q[i] => j = i
    <2> SUFFICES ASSUME NEW i \in 0..(n - 1), NEW j \in 0..(n - 1), q[j] = q[i] PROVE j = i
      OBVIOUS
    <2>1. j + 2 = i + 2 /\ i \in Int /\ j \in Int
      BY <1>5
    <2> QED
      BY <2>1
  <1>8. Body = Links(n, q)
    <2>1. ASSUME NEW b \in Body
          PROVE  \E i \in 0..(n - 1) : q[i] = b
      <3>1. b \in Nat /\ b >= 2 /\ b < n + 2
        BY <1>1, <1>3
      <3>2. b - 2 \in 0..(n - 1) /\ (b - 2) + 2 = b
        BY <1>2, <3>1
      <3> QED
        BY <1>5, <3>2
    <2> QED
      BY <1>5, <2>1 DEF Links
  <1>9. ChainOf(s, n, q)
    BY <1>4, <1>5, <1>6, <1>7 DEF ChainOf
  <1> QED
    BY <1>8, <1>9 DEF FreeList

LEMMA InitOwned == Init => Owned(Mem, written)
  <1> SUFFICES ASSUME Init PROVE Owned(Mem, written)
    OBVIOUS
  <1>1. Sound(Mem)
    BY InitSound, InvIsSound
  <1>2. /\ Mem.fl = 2 /\ Mem.ino = [f \in Files |-> Empty]
        /\ written = [f \in Files |-> [bn \in FileBlocks |-> 0]]
    BY DEF Init, Mem
  <1> DEFINE Chain(b) == IF b < NBLOCKS - 1 THEN b + 1 ELSE 0
             blank == [b \in Blocks |-> IF b = 0 THEN [Zero EXCEPT ![1] = 2]
                                        ELSE IF b = 1 THEN Zero
                                        ELSE [Zero EXCEPT ![1] = Chain(b)]]
  <1>3. Mem.disk = blank
    BY DEF Init, Mem
  <1>4. \A x : [Zero EXCEPT ![1] = x][1] = x
    BY Constants DEF Zero
  <1>5. Mem.disk[0][1] = 2
    BY <1>3, <1>4, Constants
  <1>6. \A b \in Body : Mem.disk[b][1] = IF b < NBLOCKS - 1 THEN b + 1 ELSE 0
    BY <1>3, <1>4 DEF Body
  <1> HIDE DEF blank, Chain
  <1>7. FreeList(Mem, Body)
    <2>1. PICK s : s = Mem
      OBVIOUS
    <2>2. FreeList(s, Body)
      BY <1>2, <1>6, <2>1, FirstList
    <2> QED
      BY <2>1, <2>2
  <1>8. \A p \in Slots : At(Mem, p) = 0
    <2> SUFFICES ASSUME NEW p \in Slots PROVE At(Mem, p) = 0
      OBVIOUS
    <2>1. /\ p[1] \in Files /\ p[2] \in 0..Final
          /\ NDIRECT \in Nat /\ NDIRECT > 0
      BY BufCacheAssumption DEF Slots, Final
    <2>2. Mem.ino[p[1]] = Empty
      BY <1>2, <2>1
    <2>3. Empty.indirect = 0 /\ (p[2] < NDIRECT => Empty.direct[p[2]] = 0)
      BY <2>1 DEF Empty, Final
    <2> QED
      BY <2>2, <2>3 DEF At
  <1>9. Used(Mem, Slots) = {} /\ Apart(Mem, Slots)
    BY <1>8 DEF Used, Apart
  <1>10. Closed(Slots)
    <2> SUFFICES ASSUME NEW p \in Slots PROVE <<p[1], Final>> \in Slots
      BY DEF Closed
    <2>1. Final \in Nat /\ p[1] \in Files
      BY BufCacheAssumption DEF Slots, Final
    <2> QED
      BY <2>1 DEF Slots
  <1>11. Body \ (Used(Mem, Slots) \cup {}) = Body
    BY <1>9
  <1>12. Balanced(Mem, Slots, {})
    BY <1>1, <1>2, <1>5, <1>7, <1>9, <1>10, <1>11 DEF Balanced
  <1>13. ReadBack(Mem, written)
    BY <1>2 DEF ReadBack
  <1> QED
    BY <1>12, <1>13 DEF Owned

LEMMA StepOwned == CacheInv /\ Owned(Mem, written) /\ [Next]_vars => Owned(Mem, written)'
  <1> SUFFICES ASSUME CacheInv, Owned(Mem, written), [Next]_vars
               PROVE  Owned(Mem', written')
    BY DEF Owned
  <1>1. Sound(Mem) /\ Written
    BY InvIsSound
  <1>2. PICK s : s = Mem
    OBVIOUS
  <1>3. Sound(s) /\ Owned(s, written)
        /\ written \in [Files -> [FileBlocks -> {0} \cup Values]]
    BY <1>1, <1>2 DEF Written
  <1>4. s.stolen = stolen
    BY <1>2 DEF Mem
  <1>5. ASSUME NEW f \in Files, NEW bn \in FileBlocks, NEW v \in Values, Write(f, bn, v)
        PROVE  Owned(Mem', written')
    <2> DEFINE r == fs_write(s, f, bn, v)
    <2>1. /\ ~stolen /\ Become(r.s)
          /\ written' = IF r.blk = 0 THEN written ELSE [written EXCEPT ![f][bn] = v]
      BY <1>2, <1>5 DEF Write
    <2>2. Balanced(s, Slots, {}) /\ ReadBack(s, written)
      BY <1>3, <1>4, <2>1 DEF Owned
    <2>3. Sound(r.s)
      BY <1>3, WriteMaps
    <2>4. \/ r.s.stolen
          \/ /\ Balanced(r.s, Slots, {})
             /\ ReadBack(r.s, IF r.blk = 0 THEN written ELSE [written EXCEPT ![f][bn] = v])
      BY <1>3, <2>2, WriteKeeps
    <2> HIDE DEF r
    <2>5. Mem' = r.s
      BY <2>1, <2>3, BecomesMem
    <2> QED
      BY <2>1, <2>4, <2>5 DEF Owned
  <1>6. ASSUME NEW f \in Files, Delete(f)
        PROVE  Owned(Mem', written')
    <2> DEFINE t == fs_iput(s, f)
    <2>1. /\ ~stolen /\ Become(t)
          /\ written' = [written EXCEPT ![f] = [bn \in FileBlocks |-> 0]]
      BY <1>2, <1>6 DEF Delete
    <2>2. Balanced(s, Slots, {}) /\ ReadBack(s, written)
      BY <1>3, <1>4, <2>1 DEF Owned
    <2>3. Sound(t)
      BY <1>3, PutSound
    <2>4. t.stolen \/ (Balanced(t, Slots, {}) /\ Kept(s, t, Others(f)))
      BY <2>2, PutKeeps
    <2> HIDE DEF t
    <2>5. Mem' = t
      BY <2>1, <2>3, BecomesMem
    <2>6. t.stolen \/ ReadBack(t, written')
      BY <1>3, <2>1, <2>2, <2>4, OthersRead
    <2> QED
      BY <2>4, <2>5, <2>6 DEF Owned
  <1>7. ASSUME NEW b \in Blocks, Touch(b)
        PROVE  Owned(Mem', written')
    <2> DEFINE t == bread(s, b).s
    <2>1. Become(t) /\ written' = written
      BY <1>2, <1>7 DEF Touch
    <2>2. Sound(t) /\ t.stolen = s.stolen
      BY <1>3, Bread DEF Leads
    <2>3. ASSUME Balanced(s, Slots, {}), ReadBack(s, written)
          PROVE  Balanced(t, Slots, {}) /\ ReadBack(t, written)
      <3>1. Keeps(s, t)
        BY <2>3, BreadKeeps
      <3> HIDE DEF t
      <3>2. Balanced(t, Slots, {}) /\ Kept(s, t, Slots)
        BY <3>1 DEF Keeps
      <3> QED
        BY <2>3, <3>2, KeptReads
    <2> HIDE DEF t
    <2>4. Mem' = t
      BY <2>1, <2>2, BecomesMem
    <2> QED
      BY <1>3, <2>1, <2>2, <2>3, <2>4 DEF Owned
  <1>8. CASE UNCHANGED vars
    <2>1. Mem' = Mem /\ written' = written
      BY <1>8 DEF vars, Mem
    <2> QED
      BY <2>1
  <1> QED
    BY <1>5, <1>6, <1>7, <1>8 DEF Next

LEMMA AlwaysOwned == Spec => []Owned(Mem, written)
  BY InitSound, StepSound, InitOwned, StepOwned, PTL DEF Spec

LEMMA OwnedParts ==
    Owned(Mem, written) => BlocksPartitioned /\ ReadsBackUnlessStolen
  <1>1. Mem.stolen = stolen
    BY DEF Mem
  <1>2. stolen => BlocksPartitioned
    BY DEF BlocksPartitioned
  <1> QED
    BY <1>1, <1>2, BalancedPartition, ReadsAreBack DEF Owned, ReadsBackUnlessStolen

\* balloc(), bfree(), bmap() and fs_iput(), whatever order they are called in and
\* whichever buffers bread() gives away: until one of them has used a pointer to
\* a buffer that was given away, every block but the first two is on the free
\* list or in one place of one file, never in two and never lost, and the
\* superblock on the disk has the head of the list.
THEOREM BlocksOwned == Spec => []BlocksPartitioned
  BY AlwaysOwned, OwnedParts, PTL

\* fs_write() through bmap(), and fs_iput() of other files: until then, every
\* block of a file is found again and holds what was last written to it.
THEOREM FilesReadBack == Spec => []ReadsBackUnlessStolen
  BY AlwaysOwned, OwnedParts, PTL
=============================================================================
