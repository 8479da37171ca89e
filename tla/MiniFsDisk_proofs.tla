------------------------- MODULE MiniFsDisk_proofs --------------------------
(***************************************************************************)
(* What the functions of fs.c below directories do to the disk, for every  *)
(* number of inodes, blocks and pointers.  Proofs about MiniFs, part 1.    *)
(*                                                                         *)
(* A state s is what such a function is given and returns: the free list's *)
(* head, the inode cache, and the disk s.d that all writes passed on so    *)
(* far lead to.  Kernel(s) is the file system as the kernel sees it, the   *)
(* cache before the disk; a place <<i, n>> is where inode i has the number *)
(* of a block.  Owned(m, P, X): every block is at one place of P, or on    *)
(* the free list, which is a chain to 0, or in X, and never at two; X are  *)
(* the blocks that a function has in its hands, or that a crash has lost.  *)
(* Safe is what can be said of the disk alone; Trail(d, q, e): the writes  *)
(* q lead from d to e, and the disk is safe after each of them.  Sound is  *)
(* what every function keeps between two writes.                           *)
(***************************************************************************)
EXTENDS MiniFs, FiniteSetTheorems, WellFoundedInduction, TLAPS
-----------------------------------------------------------------------------
(* Cells and blocks                                                        *)

LEMMA Sizes ==
    /\ NINODES \in Nat /\ NINODES > 0 /\ NBLOCKS \in Nat /\ NBLOCKS > 0
    /\ NDIRECT \in Nat /\ NDIRECT > 0 /\ CPB \in Nat /\ CPB >= 2 /\ CPB > 0
    /\ 1 \in 1..CPB /\ 1 \in Inodes /\ 0 \notin Inodes /\ 0 \notin Blocks
    /\ Inodes \subseteq Nat /\ Blocks \subseteq Nat /\ Blocks \cup {0} = 0..NBLOCKS
    /\ Blocks \subseteq 0..NBLOCKS /\ Inodes \subseteq 0..NINODES /\ 0 \in 0..NBLOCKS
    /\ ZeroCell \in Cell /\ ZeroCell.ino = 0
    /\ Data \in Cell
    /\ ZeroBlock \in [1..CPB -> Cell] /\ \A c \in 1..CPB : ZeroBlock[c].ino = 0
    /\ \A b \in 0..NBLOCKS : Link(b) \in Cell /\ Link(b).ino = b
    /\ \A i \in 0..NINODES, n \in Names \cup {".", ".."} :
          Entry(n, i) \in Cell /\ Entry(n, i).ino = i /\ Entry(n, i).name = n
  <1>1. /\ NINODES \in Nat /\ NINODES > 0 /\ NBLOCKS \in Nat /\ NBLOCKS > 0
        /\ NDIRECT \in Nat /\ NDIRECT > 0 /\ CPB \in Nat /\ CPB >= 2 /\ CPB > 0
    <2>1. /\ NINODES \in Nat \ {0} /\ NBLOCKS \in Nat \ {0} /\ NDIRECT \in Nat \ {0}
          /\ CPB \in Nat /\ CPB >= 2
      BY MiniFsAssumption
    <2> QED
      BY <2>1
  <1>2. /\ 1 \in 1..CPB /\ 1 \in Inodes /\ 0 \notin Inodes /\ 0 \notin Blocks
        /\ Inodes \subseteq Nat /\ Blocks \subseteq Nat /\ Blocks \cup {0} = 0..NBLOCKS
        /\ Blocks \subseteq 0..NBLOCKS /\ Inodes \subseteq 0..NINODES /\ 0 \in 0..NBLOCKS
    BY <1>1 DEF Inodes, Blocks
  <1>3. /\ 0 \in 0..(NINODES + NBLOCKS) /\ 0..NBLOCKS \subseteq 0..(NINODES + NBLOCKS)
        /\ 0..NINODES \subseteq 0..(NINODES + NBLOCKS)
        /\ NINODES + NBLOCKS \in 0..(NINODES + NBLOCKS)
    BY <1>1
  <1>4. /\ ZeroCell \in Cell /\ ZeroCell.ino = 0
        /\ ZeroBlock \in [1..CPB -> Cell] /\ \A c \in 1..CPB : ZeroBlock[c].ino = 0
    BY <1>3 DEF ZeroCell, ZeroBlock, Cell
  <1>5. Data \in Cell
    BY <1>3 DEF Data, Entry, Cell
  <1>6. \A b \in 0..NBLOCKS : Link(b) \in Cell /\ Link(b).ino = b
    BY <1>3 DEF Link, Entry, Cell
  <1>7. \A i \in 0..NINODES, n \in Names \cup {".", ".."} :
          Entry(n, i) \in Cell /\ Entry(n, i).ino = i /\ Entry(n, i).name = n
    BY <1>3 DEF Entry, Cell
  <1> QED
    BY <1>1, <1>2, <1>4, <1>5, <1>6, <1>7

\* A position falls into one cell of one block.
LEMMA Division ==
    ASSUME NEW C \in Nat, C > 0, NEW k \in Nat
    PROVE  /\ k \div C \in Nat /\ k % C \in 0..(C - 1) /\ k = C * (k \div C) + (k % C)
           /\ \A q \in Nat, r \in 0..(C - 1) : k = C * q + r => k \div C = q /\ k % C = r
  <1>1. k \div C \in Nat /\ k % C \in 0..(C - 1) /\ k = C * (k \div C) + (k % C)
    OBVIOUS
  <1>2. ASSUME NEW q \in Nat, NEW r \in 0..(C - 1), k = C * q + r
        PROVE  k \div C = q /\ k % C = r
    <2>1. k \div C = q
      BY <1>2
    <2>2. k % C = r
      BY <1>2
    <2> QED
      BY <2>1, <2>2
  <1> QED
    BY <1>1, <1>2

LEMMA Position ==
    ASSUME NEW k \in Nat
    PROVE  /\ k \div CPB \in Nat /\ (k % CPB) + 1 \in 1..CPB
           /\ \A bn \in Nat, c \in 1..CPB :
                 (bn * CPB + (c - 1) - k + 1 = 1) <=> (bn = k \div CPB /\ c = (k % CPB) + 1)
  <1>1. PICK C \in Nat : C = CPB /\ C > 0
    BY Sizes
  <1>2. PICK d \in Nat : d = k \div C
    BY <1>1, Division
  <1>3. PICK r \in 0..(C - 1) : r = k % C
    BY <1>1, Division
  <1>4. k = C * d + r
    BY <1>1, <1>2, <1>3, Division
  <1>5. ASSUME NEW bn \in Nat, NEW c \in 1..C
        PROVE  (bn * C + (c - 1) - k + 1 = 1) <=> (bn = d /\ c = r + 1)
    <2>1. PICK x \in Nat : x = bn * C /\ x = C * bn
      OBVIOUS
    <2>2. ASSUME x + (c - 1) - k + 1 = 1
          PROVE  bn = d /\ c = r + 1
      <3>1. c - 1 \in 0..(C - 1) /\ k = C * bn + (c - 1)
        BY <2>1, <2>2, <1>1
      <3>2. k \div C = bn /\ k % C = c - 1
        BY <1>1, <3>1, Division
      <3> QED
        BY <1>2, <1>3, <3>2, <1>1
    <2>3. ASSUME bn = d, c = r + 1
          PROVE  x + (c - 1) - k + 1 = 1
      BY <2>1, <2>3, <1>4, <1>3, <1>1
    <2> QED
      BY <2>1, <2>2, <2>3
  <1> QED
    BY <1>1, <1>2, <1>3, <1>5

LEMMA LastPosition ==
    ASSUME NEW size \in Nat, NEW k \in 0..(size - 1)
    PROVE  k \div CPB \in 0..((size - 1) \div CPB)
  <1>1. PICK C \in Nat : C = CPB /\ C > 0
    BY Sizes
  <1>2. PICK n \in Nat : n = size - 1 /\ k \in Nat /\ k <= n
    OBVIOUS
  <1>3. PICK d \in Nat : d = k \div C /\ k - C * d \in 0..(C - 1)
    BY <1>1, <1>2, Division
  <1>4. PICK e \in Nat : e = n \div C /\ n - C * e \in 0..(C - 1)
    BY <1>1, <1>2, Division
  <1>5. d <= e
    <2>1. SUFFICES ASSUME e + 1 <= d
                   PROVE  FALSE
      OBVIOUS
    <2>2. PICK f \in Nat : f = d - (e + 1)
      BY <2>1
    <2>4. d = e + 1 + f
      BY <2>2
    <2>3. C * d = C * e + C + C * f /\ C * f \in Nat /\ C * e \in Nat /\ C * d \in Nat
      BY <2>4, <1>1, <1>4
    <2> QED
      BY <2>3, <1>2, <1>3, <1>4, <1>1
  <1> QED
    BY <1>1, <1>2, <1>3, <1>4, <1>5

LEMMA FirstPosition ==
    ASSUME NEW size \in Nat, NEW bn \in 0..((size - 1) \div CPB)
    PROVE  bn * CPB \in 0..(size - 1) /\ (bn * CPB) \div CPB = bn
  <1>1. PICK C \in Nat : C = CPB /\ C > 0
    BY Sizes
  <1>2. size # 0
    BY <1>1
  <1>3. PICK n \in Nat : n = size - 1
    BY <1>2
  <1>4. PICK e \in Nat : e = n \div C /\ n - C * e \in 0..(C - 1)
    BY <1>1, <1>3, Division
  <1>5. PICK x \in Nat : x = bn * C /\ x = C * bn
    BY <1>1
  <1>6. PICK f \in Nat : e = bn + f
    BY <1>1, <1>3, <1>4
  <1>7. C * e = x + C * f /\ C * f \in Nat /\ C * e \in Nat
    BY <1>1, <1>5, <1>6
  <1>8. x \in 0..n
    BY <1>1, <1>4, <1>5, <1>7
  <1>9. x \div C = bn
    <2>1. 0 \in 0..(C - 1) /\ x = C * bn + 0 /\ bn \in Nat
      BY <1>1, <1>5
    <2> QED
      BY <1>1, <2>1, Division
  <1> QED
    BY <1>1, <1>3, <1>5, <1>8, <1>9

LEMMA HasLeast ==
    ASSUME NEW S \in SUBSET Nat, S # {}
    PROVE  \E x \in S : \A y \in S : x <= y
  <1>1. PICK x \in S : \A y \in S : ~(<<y, x>> \in OpToRel(<, Nat))
    BY NatLessThanWellFounded, WFMin
  <1>2. \A y \in S : ~(y < x)
    BY <1>1 DEF OpToRel
  <1> QED
    BY <1>2

LEMMA MinIsLeast ==
    ASSUME NEW S \in SUBSET Nat, S # {}
    PROVE  Min(S) \in S /\ \A y \in S : Min(S) <= y
  BY HasLeast DEF Min

-----------------------------------------------------------------------------
(* Who has which block                                                     *)

\* The inodes and blocks that somebody sees, with the free list he starts from.
Store == [fl : 0..NBLOCKS, ino : [Inodes -> DiskInode], block : [Blocks -> [1..CPB -> Cell]]]

\* Where an inode has the number of a block, as in BlockAt.
Final == NDIRECT + CPB
Places == Inodes \X Slots
At(m, p) ==
    LET di == m.ino[p[1]] IN
    IF p[2] < NDIRECT THEN di.direct[p[2]]
    ELSE IF p[2] = Final THEN di.indirect
    ELSE IF di.indirect = 0 THEN 0 ELSE m.block[di.indirect][p[2] - NDIRECT + 1].ino
Taken(m, P) == {At(m, p) : p \in P} \ {0}

\* A word of an indirect block counts only while the block does.
Closed(P) == P \in SUBSET Places /\ \A p \in P : p[2] >= NDIRECT => <<p[1], Final>> \in P

\* The places P hold different blocks.
Apart(m, P) ==
    \A p \in P : /\ At(m, p) \in 0..NBLOCKS
                 /\ \A q \in P \ {p} : At(m, q) = At(m, p) => At(m, p) = 0

\* The free list is the chain of the blocks q[0], ..., q[n - 1].
ChainOf(m, n, q) ==
    /\ q \in [0..n -> 0..NBLOCKS] /\ q[0] = m.fl /\ q[n] = 0
    /\ \A i \in 0..(n - 1) : /\ q[i] # 0 /\ m.block[q[i]][1].ino = q[i + 1]
                             /\ \A j \in 0..(n - 1) : q[j] = q[i] => j = i
Links(n, q) == {q[i] : i \in 0..(n - 1)}
Chain(m, U) == \E n \in Nat : \E q : ChainOf(m, n, q) /\ U = Links(n, q)

\* Every block is on the free list, in a place of P, or in X: in the hands of
\* the function that is running, or lost.
Owned(m, P, X) ==
    /\ m \in Store /\ Closed(P) /\ Apart(m, P)
    /\ X \in SUBSET (Blocks \ Taken(m, P))
    /\ Chain(m, Blocks \ (Taken(m, P) \cup X))

LEMMA PlaceParts ==
    ASSUME NEW p \in Places
    PROVE  /\ p[1] \in Inodes /\ p[2] \in Slots /\ p = <<p[1], p[2]>> /\ p[2] \in Nat
           /\ p[2] <= Final
           /\ Final \in Nat /\ Final > NDIRECT /\ NDIRECT \in Nat /\ ~(Final < NDIRECT)
           /\ <<p[1], Final>> \in Places
           /\ p[2] < NDIRECT => p[2] \in Direct
           /\ ~(p[2] < NDIRECT) /\ p[2] # Final => p[2] - NDIRECT + 1 \in 1..CPB
  <1>1. /\ Final \in Nat /\ Final > NDIRECT /\ NDIRECT \in Nat /\ ~(Final < NDIRECT)
        /\ Final = NDIRECT + CPB /\ Slots = 0..Final /\ CPB \in Nat
    BY Sizes DEF Final, Slots
  <1>2. p[1] \in Inodes /\ p[2] \in Slots /\ p = <<p[1], p[2]>>
    BY DEF Places
  <1>3. Final \in Slots
    BY <1>1
  <1>4. <<p[1], Final>> \in Places
    BY <1>2, <1>3 DEF Places
  <1>5. p[2] \in Nat /\ p[2] <= Final
    BY <1>1, <1>2
  <1>6. p[2] < NDIRECT => p[2] \in Direct
    BY <1>1, <1>5 DEF Direct
  <1>7. ~(p[2] < NDIRECT) /\ p[2] # Final => p[2] - NDIRECT + 1 \in 1..CPB
    BY <1>1, <1>5
  <1> QED
    BY <1>1, <1>2, <1>4, <1>5, <1>6, <1>7

LEMMA InodeParts ==
    ASSUME NEW e \in DiskInode
    PROVE  /\ e.type \in {"FREE", "FILE", "DIR", "DEV"} /\ e.nlink \in 0..2 /\ e.size \in Nat
           /\ e.indirect \in 0..NBLOCKS /\ \A n \in Direct : e.direct[n] \in 0..NBLOCKS
           /\ e.direct \in [Direct -> 0..NBLOCKS]
  BY DEF DiskInode

LEMMA StoreParts ==
    ASSUME NEW m \in Store
    PROVE  /\ m.fl \in 0..NBLOCKS
           /\ \A i \in Inodes : m.ino[i] \in DiskInode
           /\ \A b \in Blocks : /\ m.block[b] \in [1..CPB -> Cell]
                                /\ \A c \in 1..CPB : m.block[b][c] \in Cell
  BY DEF Store

\* A place changes only with the inode, or with the indirect block that it is in.
LEMMA SamePlaces ==
    ASSUME NEW m, NEW t, NEW P, Closed(P),
           \A p \in P : /\ t.ino[p[1]].direct = m.ino[p[1]].direct
                        /\ t.ino[p[1]].indirect = m.ino[p[1]].indirect,
           \A p \in P : p[2] = Final /\ At(m, p) # 0 => t.block[At(m, p)] = m.block[At(m, p)]
    PROVE  /\ \A p \in P : At(t, p) = At(m, p)
           /\ Taken(t, P) = Taken(m, P)
           /\ Apart(m, P) => Apart(t, P)
  <1>1. ASSUME NEW p \in P
        PROVE  At(t, p) = At(m, p)
    <2>1. p \in Places
      BY DEF Closed
    <2>2. /\ p[1] \in Inodes /\ p[2] \in Nat /\ NDIRECT \in Nat
          /\ Final \in Nat /\ ~(Final < NDIRECT)
          /\ t.ino[p[1]].direct = m.ino[p[1]].direct
          /\ t.ino[p[1]].indirect = m.ino[p[1]].indirect
      BY <2>1, PlaceParts
    <2>3. CASE p[2] >= NDIRECT /\ m.ino[p[1]].indirect # 0
      <3> DEFINE l == <<p[1], Final>>
      <3>1. l \in P /\ l[1] = p[1] /\ l[2] = Final
        BY <2>3 DEF Closed
      <3> HIDE DEF l
      <3>2. At(m, l) = m.ino[l[1]].indirect
        BY <2>2, <3>1, Zenon DEF At
      <3>3. t.block[m.ino[p[1]].indirect] = m.block[m.ino[p[1]].indirect]
        BY <2>3, <3>1, <3>2
      <3> QED
        BY <2>2, <3>3, Zenon DEF At
    <2>4. CASE ~(p[2] >= NDIRECT) \/ m.ino[p[1]].indirect = 0
      <3>1. CASE p[2] < NDIRECT
        BY <2>2, <3>1, Zenon DEF At
      <3>2. CASE ~(p[2] < NDIRECT)
        <4>1. m.ino[p[1]].indirect = 0 /\ t.ino[p[1]].indirect = 0
          BY <2>2, <2>4, <3>2
        <4>2. At(m, p) = 0 /\ At(t, p) = 0
          BY <3>2, <4>1, Zenon DEF At
        <4> QED
          BY <4>2
      <3> QED
        BY <3>1, <3>2
    <2> QED
      BY <2>3, <2>4
  <1>2. Taken(t, P) = Taken(m, P)
    BY <1>1 DEF Taken
  <1>3. Apart(m, P) => Apart(t, P)
    BY <1>1 DEF Apart
  <1> QED
    BY <1>1, <1>2, <1>3

LEMMA ChainSame ==
    ASSUME NEW m, NEW t, NEW U, Chain(m, U), t.fl = m.fl,
           \A c \in U : t.block[c] = m.block[c]
    PROVE  Chain(t, U)
  <1>1. PICK n \in Nat : \E q : ChainOf(m, n, q) /\ U = Links(n, q)
    BY DEF Chain
  <1>2. PICK q : ChainOf(m, n, q) /\ U = Links(n, q)
    BY <1>1
  <1>3. \A i \in 0..(n - 1) : t.block[q[i]] = m.block[q[i]]
    BY <1>2 DEF Links
  <1>4. ChainOf(t, n, q)
    BY <1>2, <1>3 DEF ChainOf
  <1> QED
    BY <1>2, <1>4 DEF Chain

\* balloc() takes the head of the list.
LEMMA ChainPop ==
    ASSUME NEW m, NEW t, NEW U, Chain(m, U), m.fl # 0, t.fl = m.block[m.fl][1].ino,
           \A c \in U : t.block[c] = m.block[c]
    PROVE  m.fl \in U /\ Chain(t, U \ {m.fl})
  <1>1. PICK n \in Nat : \E q : ChainOf(m, n, q) /\ U = Links(n, q)
    BY DEF Chain
  <1>2. PICK q : ChainOf(m, n, q) /\ U = Links(n, q)
    BY <1>1
  <1>3. n # 0
    BY <1>2 DEF ChainOf
  <1>4. PICK k \in Nat : k = n - 1
    BY <1>3
  <1> DEFINE r == [i \in 0..k |-> q[i + 1]]
  <1>5. /\ 0 \in 0..(n - 1) /\ 0 \in 0..k
        /\ \A i \in 0..(k - 1) : i + 1 \in 0..(n - 1) /\ i \in 0..k /\ i + 1 \in 0..k
        /\ \A i \in 0..k : i + 1 \in 0..n
        /\ \A i \in 0..(n - 1) : i # 0 => i - 1 \in 0..(k - 1) /\ (i - 1) + 1 = i
    BY <1>3, <1>4
  <1>6. m.fl \in U /\ q[0] = m.fl
    BY <1>2, <1>5 DEF ChainOf, Links
  <1>7. ASSUME NEW i \in 0..(k - 1)
        PROVE  /\ r[i] = q[i + 1] /\ r[i] # 0 /\ r[i + 1] = q[(i + 1) + 1]
               /\ t.block[r[i]][1].ino = r[i + 1]
               /\ \A j \in 0..(k - 1) : r[j] = r[i] => j = i
    <2>1. /\ q[i + 1] # 0 /\ q[i + 1] \in U /\ m.block[q[i + 1]][1].ino = q[(i + 1) + 1]
          /\ \A j \in 0..(n - 1) : q[j] = q[i + 1] => j = i + 1
      BY <1>2, <1>5 DEF ChainOf, Links
    <2>2. r[i] = q[i + 1] /\ r[i + 1] = q[(i + 1) + 1]
      BY <1>5
    <2>3. ASSUME NEW j \in 0..(k - 1), r[j] = r[i]
          PROVE  j = i
      <3>1. r[j] = q[j + 1] /\ j + 1 \in 0..(n - 1)
        BY <1>5
      <3>2. j + 1 = i + 1
        BY <2>1, <2>2, <2>3, <3>1
      <3> QED
        BY <3>2
    <2> QED
      BY <2>1, <2>2, <2>3
  <1>8. r \in [0..k -> 0..NBLOCKS] /\ r[0] = t.fl /\ r[k] = 0
    <2>1. q \in [0..n -> 0..NBLOCKS] /\ q[n] = 0 /\ m.block[q[0]][1].ino = q[0 + 1]
      BY <1>2, <1>5 DEF ChainOf
    <2>2. r[0] = q[0 + 1] /\ r[k] = q[n]
      BY <1>4, <1>5
    <2> QED
      BY <1>5, <1>6, <2>1, <2>2
  <1>9. U \ {m.fl} = Links(k, r)
    <2>1. ASSUME NEW c \in U \ {m.fl}
          PROVE  c \in Links(k, r)
      <3>1. PICK i \in 0..(n - 1) : c = q[i]
        BY <1>2 DEF Links
      <3>2. i # 0
        BY <1>6, <3>1
      <3>3. i - 1 \in 0..(k - 1) /\ (i - 1) + 1 = i
        BY <1>5, <3>2
      <3>4. c = r[i - 1]
        BY <1>5, <3>1, <3>3
      <3> QED
        BY <3>3, <3>4 DEF Links
    <2>2. ASSUME NEW i \in 0..(k - 1)
          PROVE  r[i] \in U \ {m.fl}
      <3>1. r[i] = q[i + 1] /\ i + 1 \in 0..(n - 1)
        BY <1>5, <1>7
      <3>2. r[i] \in U
        BY <1>2, <3>1 DEF Links
      <3>3. q[0] # q[i + 1]
        BY <1>2, <1>5, <3>1 DEF ChainOf
      <3> QED
        BY <1>6, <3>1, <3>2, <3>3
    <2> HIDE DEF r
    <2> QED
      BY <2>1, <2>2 DEF Links
  <1> HIDE DEF r
  <1>10. ChainOf(t, k, r)
    BY <1>7, <1>8 DEF ChainOf
  <1> QED
    BY <1>6, <1>9, <1>10 DEF Chain

\* bfree() puts a block before the head.
LEMMA ChainPush ==
    ASSUME NEW m, NEW t, NEW U, Chain(m, U), NEW b \in Blocks \ U,
           t.fl = b, t.block[b][1].ino = m.fl, \A c \in U : t.block[c] = m.block[c]
    PROVE  Chain(t, U \cup {b})
  <1>1. PICK n \in Nat : \E q : ChainOf(m, n, q) /\ U = Links(n, q)
    BY DEF Chain
  <1>2. PICK q : ChainOf(m, n, q) /\ U = Links(n, q)
    BY <1>1
  <1>3. PICK k \in Nat : k = n + 1
    OBVIOUS
  <1> DEFINE r == [i \in 0..k |-> IF i = 0 THEN b ELSE q[i - 1]]
  <1>4. /\ 0 \in 0..k /\ 0 \in 0..(k - 1) /\ k \in 0..k /\ k # 0 /\ k - 1 = n
        /\ \A i \in 0..(k - 1) : i # 0 => i - 1 \in 0..(n - 1) /\ (i - 1) + 1 = i
        /\ \A i \in 0..(k - 1) : i \in 0..k /\ i + 1 \in 0..k /\ i + 1 # 0 /\ (i + 1) - 1 = i
        /\ \A i \in 0..k : i # 0 => i - 1 \in 0..n
        /\ \A i \in 0..(n - 1) : i + 1 \in 0..(k - 1)
    BY <1>3
  <1>5. /\ q \in [0..n -> 0..NBLOCKS] /\ q[0] = m.fl /\ q[n] = 0
        /\ \A i \in 0..(n - 1) : /\ q[i] # 0 /\ m.block[q[i]][1].ino = q[i + 1]
                                 /\ \A j \in 0..(n - 1) : q[j] = q[i] => j = i
        /\ \A i \in 0..(n - 1) : q[i] \in U
    BY <1>2 DEF ChainOf, Links
  <1>6. r \in [0..k -> 0..NBLOCKS] /\ r[0] = b /\ r[k] = 0
    BY <1>4, <1>5, Sizes
  <1>7. /\ \A i \in 0..k : i # 0 => r[i] = q[i - 1]
        /\ \A i \in 0..(k - 1) : r[i + 1] = q[i]
        /\ \A i \in 0..(k - 1) : i # 0 => r[i] \in U
    BY <1>4, <1>5
  <1> HIDE DEF r
  <1>8. b # 0 /\ b \notin U
    BY Sizes
  <1>9. ASSUME NEW i \in 0..(k - 1)
        PROVE  /\ r[i] # 0 /\ t.block[r[i]][1].ino = r[i + 1]
               /\ \A j \in 0..(k - 1) : r[j] = r[i] => j = i
    <2>1. CASE i = 0
      <3>1. r[i] = b /\ r[i + 1] = q[0]
        BY <1>4, <1>6, <1>7, <2>1
      <3>2. \A j \in 0..(k - 1) : j # 0 => r[j] # b
        BY <1>7, <1>8
      <3>3. r[i] # 0 /\ t.block[r[i]][1].ino = r[i + 1]
        <4>1. t.block[b][1].ino = m.fl /\ m.fl = q[0]
          BY <1>5
        <4>2. t.block[r[i]][1].ino = q[0]
          BY <3>1, <4>1
        <4> QED
          BY <1>8, <3>1, <4>2
      <3>4. \A j \in 0..(k - 1) : r[j] = r[i] => j = i
        BY <2>1, <3>1, <3>2
      <3> QED
        BY <3>3, <3>4
    <2>2. CASE i # 0
      <3>1. i - 1 \in 0..(n - 1) /\ r[i] = q[i - 1] /\ r[i + 1] = q[(i - 1) + 1] /\ r[i] \in U
        BY <1>4, <1>7, <2>2
      <3>2. r[i] # 0 /\ t.block[r[i]][1].ino = r[i + 1]
        <4>1. t.block[r[i]] = m.block[r[i]]
          BY <3>1
        <4>2. q[i - 1] # 0 /\ m.block[q[i - 1]][1].ino = q[(i - 1) + 1]
          BY <1>5, <3>1
        <4> QED
          BY <3>1, <4>1, <4>2
      <3>3. ASSUME NEW j \in 0..(k - 1), r[j] = r[i]
            PROVE  j = i
        <4>1. j # 0
          BY <1>6, <1>8, <3>1, <3>3
        <4>2. j - 1 \in 0..(n - 1) /\ r[j] = q[j - 1]
          BY <1>4, <1>7, <4>1
        <4>3. \A x, y \in 0..(n - 1) : q[x] = q[y] => x = y
          BY <1>5
        <4>4. q[j - 1] = q[i - 1]
          BY <3>1, <3>3, <4>2
        <4>5. j - 1 = i - 1
          BY <3>1, <4>2, <4>3, <4>4
        <4> QED
          BY <4>5
      <3> QED
        BY <3>2, <3>3
    <2> QED
      BY <2>1, <2>2
  <1>10. U \cup {b} = Links(k, r)
    <2>1. ASSUME NEW c \in U
          PROVE  c \in Links(k, r)
      <3>1. PICK i \in 0..(n - 1) : c = q[i]
        BY <1>2 DEF Links
      <3>2. i + 1 \in 0..(k - 1) /\ i \in 0..(k - 1) /\ r[i + 1] = q[i]
        BY <1>3, <1>4, <1>7
      <3> QED
        BY <3>1, <3>2 DEF Links
    <2>2. b \in Links(k, r)
      BY <1>4, <1>6 DEF Links
    <2>3. ASSUME NEW i \in 0..(k - 1)
          PROVE  r[i] \in U \cup {b}
      BY <1>6, <1>7
    <2> QED
      BY <2>1, <2>2, <2>3 DEF Links
  <1>11. ChainOf(t, k, r)
    BY <1>6, <1>9 DEF ChainOf
  <1> QED
    BY <1>10, <1>11 DEF Chain

-----------------------------------------------------------------------------
(* Blocks change hands                                                     *)

\* Nothing changes but the contents of files, and blocks nobody has.
LEMMA OwnedStays ==
    ASSUME NEW m, NEW P, NEW X, Owned(m, P, X), NEW t \in Store, t.fl = m.fl,
           \A p \in P : /\ t.ino[p[1]].direct = m.ino[p[1]].direct
                        /\ t.ino[p[1]].indirect = m.ino[p[1]].indirect,
           \A p \in P : p[2] = Final /\ At(m, p) # 0 => t.block[At(m, p)] = m.block[At(m, p)],
           \A c \in Blocks \ (Taken(m, P) \cup X) : t.block[c] = m.block[c]
    PROVE  /\ Owned(t, P, X)
           /\ \A p \in P : At(t, p) = At(m, p)
           /\ Taken(t, P) = Taken(m, P)
  <1>1. Closed(P) /\ Apart(m, P)
    BY DEF Owned
  <1>2. /\ \A p \in P : At(t, p) = At(m, p)
        /\ Taken(t, P) = Taken(m, P) /\ Apart(t, P)
    BY <1>1, SamePlaces
  <1> DEFINE U == Blocks \ (Taken(m, P) \cup X)
  <1>3. Chain(m, U) /\ \A c \in U : t.block[c] = m.block[c]
    BY DEF Owned
  <1> HIDE DEF U
  <1>4. Chain(t, U)
    BY <1>3, ChainSame
  <1> QED
    BY <1>1, <1>2, <1>4 DEF Owned, U

\* balloc() gives the function that calls it a block that nobody has.
LEMMA OwnedAlloc ==
    ASSUME NEW m, NEW P, NEW X, Owned(m, P, X), NEW t \in Store, m.fl # 0,
           t.fl = m.block[m.fl][1].ino, t.ino = m.ino, t.block = m.block
    PROVE  /\ Owned(t, P, X \cup {m.fl})
           /\ m.fl \in Blocks \ (Taken(m, P) \cup X)
           /\ \A p \in P : At(t, p) = At(m, p)
           /\ Taken(t, P) = Taken(m, P)
  <1>1. Closed(P) /\ Apart(m, P) /\ X \in SUBSET (Blocks \ Taken(m, P))
    BY DEF Owned
  <1>2. /\ \A p \in P : At(t, p) = At(m, p)
        /\ Taken(t, P) = Taken(m, P) /\ Apart(t, P)
    BY <1>1, SamePlaces
  <1> DEFINE U == Blocks \ (Taken(m, P) \cup X)
  <1>3. Chain(m, U) /\ \A c \in U : t.block[c] = m.block[c]
    BY DEF Owned
  <1> HIDE DEF U
  <1>4. m.fl \in U /\ Chain(t, U \ {m.fl})
    BY <1>3, ChainPop
  <1>5. U \ {m.fl} = Blocks \ (Taken(t, P) \cup (X \cup {m.fl}))
    BY <1>2 DEF U
  <1> QED
    BY <1>1, <1>2, <1>4, <1>5 DEF Owned, U

\* bfree() puts a block on the list.
LEMMA OwnedFree ==
    ASSUME NEW m, NEW P, NEW X, Owned(m, P, X), NEW b \in X, NEW t \in Store,
           t.fl = b, t.ino = m.ino, t.block[b][1].ino = m.fl,
           \A c \in Blocks \ {b} : t.block[c] = m.block[c]
    PROVE  /\ Owned(t, P, X \ {b})
           /\ \A p \in P : At(t, p) = At(m, p)
           /\ Taken(t, P) = Taken(m, P)
  <1>1. Closed(P) /\ Apart(m, P) /\ X \in SUBSET (Blocks \ Taken(m, P))
    BY DEF Owned
  <1>2. \A p \in P : At(m, p) # 0 => At(m, p) \in Blocks \ {b}
    BY <1>1, Sizes DEF Apart, Taken
  <1>3. /\ \A p \in P : At(t, p) = At(m, p)
        /\ Taken(t, P) = Taken(m, P) /\ Apart(t, P)
    BY <1>1, <1>2, SamePlaces
  <1> DEFINE U == Blocks \ (Taken(m, P) \cup X)
  <1>4. Chain(m, U) /\ b \in Blocks \ U /\ \A c \in U : t.block[c] = m.block[c]
    BY <1>1 DEF Owned
  <1> HIDE DEF U
  <1>5. Chain(t, U \cup {b})
    BY <1>4, ChainPush
  <1>6. U \cup {b} = Blocks \ (Taken(t, P) \cup (X \ {b}))
    BY <1>1, <1>3 DEF U
  <1> QED
    BY <1>1, <1>3, <1>5, <1>6 DEF Owned

\* A place that was empty takes what the function has.
LEMMA OwnedTake ==
    ASSUME NEW m, NEW P, NEW X, Owned(m, P, X), NEW b \in X, NEW p \in P, At(m, p) = 0,
           NEW t \in Store, t.fl = m.fl,
           \A c \in Blocks \ (Taken(m, P) \cup X) : t.block[c] = m.block[c],
           At(t, p) = b, \A r \in P \ {p} : At(t, r) = At(m, r)
    PROVE  Owned(t, P, X \ {b}) /\ Taken(t, P) = Taken(m, P) \cup {b}
  <1>1. /\ Closed(P) /\ Apart(m, P) /\ X \in SUBSET (Blocks \ Taken(m, P))
        /\ b \in Blocks /\ b \notin Taken(m, P) /\ b # 0 /\ b \in 0..NBLOCKS
    BY Sizes DEF Owned
  <1> DEFINE U == Blocks \ (Taken(m, P) \cup X)
  <1>2. Chain(m, U) /\ \A c \in U : t.block[c] = m.block[c]
    BY DEF Owned
  <1>3. Taken(t, P) = Taken(m, P) \cup {b}
    BY <1>1 DEF Taken
  <1>4. U = Blocks \ (Taken(t, P) \cup (X \ {b}))
    BY <1>3
  <1> HIDE DEF U
  <1>5. Chain(t, U)
    BY <1>2, ChainSame
  <1>6. \A r \in P : At(m, r) # b
    BY <1>1 DEF Taken
  <1>7. Apart(t, P)
    <2> SUFFICES ASSUME NEW r \in P
                 PROVE  /\ At(t, r) \in 0..NBLOCKS
                        /\ \A q \in P \ {r} : At(t, q) = At(t, r) => At(t, r) = 0
      BY DEF Apart
    <2>1. CASE r = p
      BY <1>1, <1>6, <2>1
    <2>2. CASE r # p
      <3>1. /\ At(m, r) \in 0..NBLOCKS
            /\ \A q \in P \ {r} : At(m, q) = At(m, r) => At(m, r) = 0
        BY <1>1 DEF Apart
      <3>2. At(t, r) = At(m, r) /\ \A q \in P \ {p} : At(t, q) = At(m, q)
        BY <2>2
      <3> QED
        BY <1>6, <3>1, <3>2
    <2> QED
      BY <2>1, <2>2
  <1> QED
    BY <1>1, <1>3, <1>4, <1>5, <1>7 DEF Owned

\* fs_iput() stops looking at the places of an inode.
LEMMA OwnedDrop ==
    ASSUME NEW m, NEW P, NEW X, Owned(m, P, X), NEW R \in SUBSET P, Closed(R),
           NEW Q, Q = P \ R
    PROVE  /\ Owned(m, R, X \cup Taken(m, Q))
           /\ Taken(m, Q) \cap X = {} /\ Taken(m, Q) \subseteq Blocks
  <1>1. /\ Closed(P) /\ Apart(m, P) /\ X \in SUBSET (Blocks \ Taken(m, P))
    BY DEF Owned
  <1>2. Taken(m, P) = Taken(m, R) \cup Taken(m, Q)
    BY DEF Taken
  <1>3. Taken(m, P) \subseteq Blocks
    BY <1>1, Sizes DEF Apart, Taken
  <1>4. Taken(m, R) \cap Taken(m, Q) = {}
    BY <1>1 DEF Apart, Taken
  <1>5. Apart(m, R)
    BY <1>1 DEF Apart
  <1>6. X \cup Taken(m, Q) \in SUBSET (Blocks \ Taken(m, R))
    BY <1>1, <1>2, <1>3, <1>4
  <1>7. Blocks \ (Taken(m, R) \cup (X \cup Taken(m, Q))) = Blocks \ (Taken(m, P) \cup X)
    BY <1>2
  <1>8. Owned(m, R, X \cup Taken(m, Q))
    BY <1>5, <1>6, <1>7 DEF Owned
  <1> QED
    BY <1>1, <1>2, <1>3, <1>8

\* A new inode has no blocks.
LEMMA OwnedGrow ==
    ASSUME NEW m, NEW P, NEW X, Owned(m, P, X), NEW t \in Store, t.fl = m.fl, t.block = m.block,
           NEW R, Closed(R), P \subseteq R,
           \A p \in P : /\ t.ino[p[1]].direct = m.ino[p[1]].direct
                        /\ t.ino[p[1]].indirect = m.ino[p[1]].indirect,
           \A p \in R \ P : At(t, p) = 0
    PROVE  Owned(t, R, X)
  <1>1. /\ Closed(P) /\ Apart(m, P) /\ X \in SUBSET (Blocks \ Taken(m, P))
    BY DEF Owned
  <1>2. Owned(t, P, X) /\ Taken(t, P) = Taken(m, P)
    BY OwnedStays
  <1>3. Taken(t, R) = Taken(t, P)
    BY DEF Taken
  <1>4. Apart(t, R)
    <2>1. Apart(t, P)
      BY <1>2 DEF Owned
    <2>2. \A p \in R : p \in P \/ At(t, p) = 0
      OBVIOUS
    <2> QED
      BY <2>1, <2>2, Sizes DEF Apart
  <1> QED
    BY <1>2, <1>3, <1>4 DEF Owned

-----------------------------------------------------------------------------
(* Disks, and the states that the functions pass on                        *)

Disk == [free_list : 0..NBLOCKS, inode : [Inodes -> DiskInode],
         block : [Blocks -> [1..CPB -> Cell]]]
CacheSlot == [di : DiskInode, ref : Nat, dirty : BOOLEAN]
Writes == [at : {"sb"}, n : {0}, v : 0..NBLOCKS]
          \cup [at : {"inode"}, n : Inodes, v : DiskInode]
          \cup [at : {"block"}, n : Blocks, v : [1..CPB -> Cell]]
State == [fl : 0..NBLOCKS, ic : [Inodes -> CacheSlot], d : Disk, log : Seq(Writes),
          buf : {"kept"}]

\* What somebody sees who boots from the disk, and what the kernel sees.
OnDisk(d) == [fl |-> d.free_list, ino |-> d.inode, block |-> d.block]
Kernel(s) ==
    [fl |-> s.fl, block |-> s.d.block,
     ino |-> [i \in Inodes |-> IF s.ic[i].ref > 0 THEN s.ic[i].di ELSE s.d.inode[i]]]

Live(d) == {i \in Inodes : d.inode[i].type # "FREE" /\ d.inode[i].nlink > 0}
Dirs(d) == {i \in Live(d) : d.inode[i].type = "DIR"}
InUse(s) == {i \in Inodes : s.ic[i].ref > 0} \cup Live(s.d)
Have(J) == J \X Slots

\* The entries of a directory, by position.
Spots(d, i) == 0..(d.inode[i].size - 1)
SpotAt(d, i, k) == At(OnDisk(d), <<i, k \div CPB>>)
CellOf(d, i, k) == d.block[SpotAt(d, i, k)][(k % CPB) + 1]
IsName(c) == c.ino # 0 /\ c.name \notin {".", ".."}
NamesIt(d, i, j) == i \in Dirs(d) /\ \E k \in Spots(d, i) : /\ IsName(CellOf(d, i, k))
                                                           /\ CellOf(d, i, k).ino = j
IsNamed(d, j) == \E i \in Inodes : NamesIt(d, i, j)

Proper(d, c) ==
    \/ c.ino = 0
    \/ c.name \in {".", ".."} /\ c.ino \in Dirs(d)
    \/ c.name \in Names /\ c.ino \in Live(d) \ {1}

\* Directories have no holes, their entries refer to inodes in use, and no inode
\* has two names.
TreeOK(d) ==
    /\ 1 \in Dirs(d)
    /\ \A i \in Dirs(d) : \A k \in Spots(d, i) :
          k \div CPB < Final /\ SpotAt(d, i, k) # 0 /\ Proper(d, CellOf(d, i, k))
    /\ \A i, j \in Dirs(d) : \A k \in Spots(d, i), l \in Spots(d, j) :
          IsName(CellOf(d, i, k)) /\ IsName(CellOf(d, j, l))
             /\ CellOf(d, i, k).ino = CellOf(d, j, l).ino => i = j /\ k = l

\* Somebody may boot from this disk.
Safe(d) ==
    /\ d \in Disk
    /\ \E X \in SUBSET Blocks : Owned(OnDisk(d), Have(Live(d)), X)
    /\ TreeOK(d)

\* The writes of log lead from d0 to d, and every disk on the way is safe.
Trail(d0, log, d) ==
    \E ds \in [0..Len(log) -> Disk] :
        /\ ds[0] = d0 /\ ds[Len(log)] = d
        /\ \A k \in 1..Len(log) : ds[k] = Perform(ds[k - 1], log[k]) /\ Safe(ds[k])
Leads(s, t) == \A d0 \in Disk : Trail(d0, s.log, s.d) => Trail(d0, t.log, t.d)

\* On the disk, an inode has at most the blocks that the cache says it has.
Agree(s) ==
    \A i \in Live(s.d) :
        /\ s.d.inode[i].indirect \in {0, Kernel(s).ino[i].indirect}
        /\ \A n \in Direct : s.d.inode[i].direct[n] \in {0, Kernel(s).ino[i].direct[n]}

\* The cache agrees with the disk on types and sizes.
Cached(s) ==
    \A i \in Inodes : s.ic[i].ref > 0 =>
        /\ s.ic[i].di.type = s.d.inode[i].type /\ s.ic[i].di.type # "FREE"
        /\ s.ic[i].di.size = s.d.inode[i].size
        /\ ~s.ic[i].dirty => s.ic[i].di = s.d.inode[i]
        /\ s.ic[i].di.nlink > 0 => s.d.inode[i].nlink > 0
        /\ s.ic[i].di.type = "DIR" \/ IsNamed(s.d, i) => s.ic[i].di.nlink > 0

\* What holds between two writes, while a function has the blocks X.
Sound(s, X) ==
    /\ s \in State /\ s.d.free_list = s.fl
    /\ Owned(Kernel(s), Have(InUse(s)), X)
    /\ Agree(s) /\ Cached(s) /\ TreeOK(s.d)

LEMMA DiskParts ==
    ASSUME NEW d \in Disk
    PROVE  /\ d.free_list \in 0..NBLOCKS
           /\ \A i \in Inodes : d.inode[i] \in DiskInode
           /\ \A b \in Blocks : d.block[b] \in [1..CPB -> Cell]
           /\ d.inode \in [Inodes -> DiskInode]
           /\ d.block \in [Blocks -> [1..CPB -> Cell]]
           /\ OnDisk(d) \in Store
           /\ d = [free_list |-> d.free_list, inode |-> d.inode, block |-> d.block]
  BY DEF Disk, OnDisk, Store

LEMMA StateParts ==
    ASSUME NEW s \in State
    PROVE  /\ s.fl \in 0..NBLOCKS /\ s.d \in Disk /\ s.log \in Seq(Writes) /\ s.buf = "kept"
           /\ s.ic \in [Inodes -> CacheSlot]
           /\ \A i \in Inodes : /\ s.ic[i] \in CacheSlot /\ s.ic[i].di \in DiskInode
                                /\ s.ic[i].ref \in Nat /\ s.ic[i].dirty \in BOOLEAN
           /\ Kernel(s) \in Store
           /\ s = [fl |-> s.fl, ic |-> s.ic, d |-> s.d, log |-> s.log, buf |-> "kept"]
  <1>1. /\ s.fl \in 0..NBLOCKS /\ s.d \in Disk /\ s.log \in Seq(Writes) /\ s.buf = "kept"
        /\ s.ic \in [Inodes -> CacheSlot]
        /\ s = [fl |-> s.fl, ic |-> s.ic, d |-> s.d, log |-> s.log, buf |-> "kept"]
    BY DEF State
  <1>2. \A i \in Inodes : /\ s.ic[i] \in CacheSlot /\ s.ic[i].di \in DiskInode
                          /\ s.ic[i].ref \in Nat /\ s.ic[i].dirty \in BOOLEAN
    BY <1>1 DEF CacheSlot
  <1>3. Kernel(s) \in Store
    <2>1. \A i \in Inodes : s.d.inode[i] \in DiskInode
      BY <1>1, DiskParts
    <2>2. s.d.block \in [Blocks -> [1..CPB -> Cell]]
      BY <1>1, DiskParts
    <2>3. \A i \in Inodes : (IF s.ic[i].ref > 0 THEN s.ic[i].di ELSE s.d.inode[i]) \in DiskInode
      BY <1>2, <2>1
    <2> QED
      BY <1>1, <2>2, <2>3 DEF Kernel, Store
  <1> QED
    BY <1>1, <1>2, <1>3

LEMMA ClosedHave ==
    ASSUME NEW J \in SUBSET Inodes
    PROVE  /\ Closed(Have(J))
           /\ \A i \in J, n \in Slots : <<i, n>> \in Have(J) /\ <<i, n>>[1] = i /\ <<i, n>>[2] = n
           /\ \A p \in Have(J) : p \in Places /\ p[1] \in J /\ p[2] \in Slots /\ p = <<p[1], p[2]>>
           /\ Final \in Slots /\ \A n \in Direct : n \in Slots /\ n < NDIRECT
  <1>1. Final \in Slots /\ \A n \in Direct : n \in Slots /\ n < NDIRECT
    BY Sizes DEF Final, Slots, Direct
  <1>2. /\ \A i \in J, n \in Slots : <<i, n>> \in Have(J) /\ <<i, n>>[1] = i /\ <<i, n>>[2] = n
        /\ \A p \in Have(J) : p \in Places /\ p[1] \in J /\ p[2] \in Slots /\ p = <<p[1], p[2]>>
    BY DEF Have, Places
  <1>3. Closed(Have(J))
    BY <1>1, <1>2 DEF Closed
  <1> QED
    BY <1>1, <1>2, <1>3

LEMMA LiveParts ==
    ASSUME NEW d \in Disk
    PROVE  /\ Live(d) \in SUBSET Inodes /\ Dirs(d) \in SUBSET Live(d)
           /\ \A i \in Dirs(d) : d.inode[i].type = "DIR" /\ d.inode[i].nlink > 0
           /\ \A i \in Inodes : \A k \in Spots(d, i) : k \in Nat /\ k < d.inode[i].size
  <1>1. \A i \in Inodes : d.inode[i].size \in Nat
    BY DiskParts, InodeParts
  <1> QED
    BY <1>1 DEF Live, Dirs, Spots

LEMMA KernelIno ==
    ASSUME NEW s, NEW i \in Inodes
    PROVE  /\ Kernel(s).ino[i] = IF s.ic[i].ref > 0 THEN s.ic[i].di ELSE s.d.inode[i]
           /\ Kernel(s).fl = s.fl /\ Kernel(s).block = s.d.block
           /\ OnDisk(s.d).fl = s.d.free_list /\ OnDisk(s.d).ino = s.d.inode
           /\ OnDisk(s.d).block = s.d.block
  BY DEF Kernel, OnDisk

-----------------------------------------------------------------------------
(* Writes                                                                  *)

LEMMA PerformTypes ==
    ASSUME NEW d \in Disk, NEW w \in Writes
    PROVE  Perform(d, w) \in Disk
  <1>1. CASE w \in [at : {"sb"}, n : {0}, v : 0..NBLOCKS]
    <2>1. w.at = "sb" /\ w.v \in 0..NBLOCKS
      BY <1>1
    <2> QED
      BY <2>1 DEF Perform, Disk
  <1>2. CASE w \in [at : {"inode"}, n : Inodes, v : DiskInode]
    <2>1. w.at = "inode" /\ w.n \in Inodes /\ w.v \in DiskInode
      BY <1>2
    <2>2. Perform(d, w) = [d EXCEPT !.inode[w.n] = w.v]
      BY <2>1 DEF Perform
    <2> QED
      BY <2>1, <2>2 DEF Disk
  <1>3. CASE w \in [at : {"block"}, n : Blocks, v : [1..CPB -> Cell]]
    <2>1. w.at = "block" /\ w.n \in Blocks /\ w.v \in [1..CPB -> Cell]
      BY <1>3
    <2>2. Perform(d, w) = [d EXCEPT !.block[w.n] = w.v]
      BY <2>1 DEF Perform
    <2> QED
      BY <2>1, <2>2 DEF Disk
  <1> QED
    BY <1>1, <1>2, <1>3 DEF Writes

LEMMA LeadsSame ==
    ASSUME NEW s, NEW t, t.log = s.log, t.d = s.d
    PROVE  Leads(s, t)
  BY DEF Leads

LEMMA LeadsOn ==
    ASSUME NEW s, NEW t, NEW u, Leads(s, t), Leads(t, u)
    PROVE  Leads(s, u)
  BY DEF Leads

LEMMA LeadsWrite ==
    ASSUME NEW s, s.log \in Seq(Writes), NEW w \in Writes, NEW t,
           t.log = Append(s.log, w), t.d = Perform(s.d, w), Safe(t.d)
    PROVE  Leads(s, t)
  <1> SUFFICES ASSUME NEW d0 \in Disk, Trail(d0, s.log, s.d)
               PROVE  Trail(d0, t.log, t.d)
    BY DEF Leads
  <1>1. PICK L \in Seq(Writes) : L = s.log
    OBVIOUS
  <1>2. PICK n \in Nat : n = Len(L)
    BY <1>1
  <1>3. PICK ds \in [0..n -> Disk] :
          /\ ds[0] = d0 /\ ds[n] = s.d
          /\ \A k \in 1..n : ds[k] = Perform(ds[k - 1], L[k]) /\ Safe(ds[k])
    BY <1>1, <1>2 DEF Trail
  <1>4. PICK M : M = Append(L, w)
    OBVIOUS
  <1>5. /\ Len(M) = n + 1 /\ M[n + 1] = w /\ \A k \in 1..n : M[k] = L[k]
    BY <1>1, <1>2, <1>4
  <1> DEFINE es == [k \in 0..(n + 1) |-> IF k = n + 1 THEN t.d ELSE ds[k]]
  <1>6. t.d \in Disk
    BY DEF Safe
  <1>7. /\ es \in [0..(n + 1) -> Disk] /\ es[0] = d0 /\ es[n + 1] = t.d
        /\ \A k \in 0..n : es[k] = ds[k]
    <2>1. \A k \in 0..(n + 1) : k # n + 1 => k \in 0..n
      OBVIOUS
    <2>2. 0 \in 0..(n + 1) /\ 0 # n + 1 /\ n + 1 \in 0..(n + 1)
      OBVIOUS
    <2>3. \A k \in 0..n : k \in 0..(n + 1) /\ k # n + 1
      OBVIOUS
    <2> QED
      BY <1>3, <1>6, <2>1, <2>2, <2>3
  <1> HIDE DEF es
  <1>8. ASSUME NEW k \in 1..(n + 1)
        PROVE  es[k] = Perform(es[k - 1], M[k]) /\ Safe(es[k])
    <2>1. CASE k = n + 1
      <3>1. k - 1 = n /\ n \in 0..n
        BY <2>1
      <3>2. es[k - 1] = s.d /\ es[k] = t.d
        BY <1>3, <1>7, <2>1, <3>1
      <3> QED
        BY <1>5, <2>1, <3>2
    <2>2. CASE k # n + 1
      <3>1. k \in 1..n /\ k \in 0..n /\ k - 1 \in 0..n
        BY <2>2
      <3> QED
        BY <1>3, <1>5, <1>7, <3>1
    <2> QED
      BY <2>1, <2>2
  <1>9. t.log = M
    BY <1>1, <1>4
  <1> QED
    BY <1>5, <1>7, <1>8, <1>9 DEF Trail

\* The disk does the first of the writes that are left to it.
LEMMA TrailShift ==
    ASSUME NEW d0, NEW L \in Seq(Writes), NEW d, Trail(d0, L, d), L # <<>>
    PROVE  /\ Safe(Perform(d0, Head(L))) /\ Trail(Perform(d0, Head(L)), Tail(L), d)
           /\ Tail(L) \in Seq(Writes)
  <1>1. PICK n \in Nat : n = Len(L) /\ n >= 1
    OBVIOUS
  <1>2. PICK ds \in [0..n -> Disk] :
          /\ ds[0] = d0 /\ ds[n] = d
          /\ \A k \in 1..n : ds[k] = Perform(ds[k - 1], L[k]) /\ Safe(ds[k])
    BY <1>1 DEF Trail
  <1>3. PICK M \in Seq(Writes) : M = Tail(L)
    OBVIOUS
  <1>4. /\ Len(M) = n - 1 /\ \A k \in 1..(n - 1) : M[k] = L[k + 1]
        /\ Head(L) = L[1]
    BY <1>1, <1>3
  <1> DEFINE es == [k \in 0..(n - 1) |-> ds[k + 1]]
  <1>5. /\ 1 \in 1..n /\ 0 \in 0..(n - 1) /\ 0 + 1 = 1 /\ n - 1 \in 0..(n - 1) /\ (n - 1) + 1 = n
        /\ 1 - 1 = 0
    BY <1>1
  <1>6. ds[1] = Perform(d0, Head(L)) /\ Safe(ds[1])
    BY <1>2, <1>4, <1>5
  <1>7. /\ es \in [0..(n - 1) -> Disk] /\ es[0] = ds[1] /\ es[n - 1] = d
        /\ \A k \in 0..(n - 1) : es[k] = ds[k + 1]
    <2>1. \A k \in 0..(n - 1) : k + 1 \in 0..n
      BY <1>1
    <2> QED
      BY <1>2, <1>5, <2>1
  <1> HIDE DEF es
  <1>8. ASSUME NEW k \in 1..(n - 1)
        PROVE  es[k] = Perform(es[k - 1], M[k]) /\ Safe(es[k])
    <2>1. /\ k + 1 \in 1..n /\ (k + 1) - 1 = k /\ k \in 0..(n - 1) /\ k - 1 \in 0..(n - 1)
          /\ (k - 1) + 1 = k
      BY <1>1
    <2>2. es[k] = ds[k + 1] /\ es[k - 1] = ds[k] /\ M[k] = L[k + 1]
      BY <1>4, <1>7, <2>1
    <2> QED
      BY <1>2, <2>1, <2>2
  <1>9. Trail(ds[1], M, d)
    BY <1>4, <1>7, <1>8 DEF Trail
  <1> QED
    BY <1>3, <1>6, <1>9

-----------------------------------------------------------------------------
(* The tree of directories                                                 *)

\* e has the entries of d, where d has them, and at most new, empty directories.
SameEntries(d, e) ==
    /\ Dirs(d) \subseteq Dirs(e)
    /\ \A i \in Dirs(e) \ Dirs(d) : e.inode[i].size = 0
    /\ \A i \in Dirs(d) :
          /\ e.inode[i].size = d.inode[i].size
          /\ \A k \in Spots(d, i) : SpotAt(e, i, k) # 0 /\ CellOf(e, i, k) = CellOf(d, i, k)

LEMMA SameNames ==
    ASSUME NEW d, NEW e, SameEntries(d, e), NEW i \in Inodes, NEW j
    PROVE  NamesIt(e, i, j) <=> NamesIt(d, i, j)
  <1>1. ASSUME NamesIt(d, i, j)
        PROVE  NamesIt(e, i, j)
    <2>1. i \in Dirs(d) /\ i \in Dirs(e) /\ Spots(e, i) = Spots(d, i)
      BY <1>1 DEF NamesIt, SameEntries, Spots
    <2>2. PICK k \in Spots(d, i) : IsName(CellOf(d, i, k)) /\ CellOf(d, i, k).ino = j
      BY <1>1 DEF NamesIt
    <2>3. CellOf(e, i, k) = CellOf(d, i, k)
      BY <2>1 DEF SameEntries
    <2> QED
      BY <2>1, <2>2, <2>3 DEF NamesIt
  <1>2. ASSUME NamesIt(e, i, j)
        PROVE  NamesIt(d, i, j)
    <2>1. i \in Dirs(e)
      BY <1>2 DEF NamesIt
    <2>2. PICK k \in Spots(e, i) : IsName(CellOf(e, i, k)) /\ CellOf(e, i, k).ino = j
      BY <1>2 DEF NamesIt
    <2>3. i \in Dirs(d)
      <3>1. SUFFICES ASSUME i \notin Dirs(d)
                     PROVE  FALSE
        OBVIOUS
      <3>2. e.inode[i].size = 0
        BY <2>1, <3>1 DEF SameEntries
      <3> QED
        BY <2>2, <3>2 DEF Spots
    <2>4. Spots(e, i) = Spots(d, i)
      BY <2>3 DEF SameEntries, Spots
    <2>5. CellOf(e, i, k) = CellOf(d, i, k)
      BY <2>3, <2>4 DEF SameEntries
    <2> QED
      BY <2>2, <2>3, <2>4, <2>5 DEF NamesIt
  <1> QED
    BY <1>1, <1>2

LEMMA SameEntriesOn ==
    ASSUME NEW c, NEW d, NEW e, SameEntries(c, d), SameEntries(d, e)
    PROVE  SameEntries(c, e)
  <1>1. \A i \in Dirs(c) : i \in Dirs(d) /\ i \in Dirs(e) /\ Spots(d, i) = Spots(c, i)
    BY DEF SameEntries, Spots
  <1>2. \A i \in Dirs(e) \ Dirs(c) : e.inode[i].size = 0
    BY DEF SameEntries
  <1>3. ASSUME NEW i \in Dirs(c)
        PROVE  /\ e.inode[i].size = c.inode[i].size
               /\ \A k \in Spots(c, i) : SpotAt(e, i, k) # 0 /\ CellOf(e, i, k) = CellOf(c, i, k)
    <2>1. i \in Dirs(d) /\ Spots(d, i) = Spots(c, i)
      BY <1>1
    <2> QED
      BY <2>1 DEF SameEntries
  <1> QED
    BY <1>1, <1>2, <1>3 DEF SameEntries

\* Names stay good as long as what they name stays in use.
LEMMA TreeStays ==
    ASSUME NEW d \in Disk, NEW e \in Disk, TreeOK(d), SameEntries(d, e),
           \A j \in Live(d) : IsNamed(d, j) => j \in Live(e)
    PROVE  TreeOK(e)
  <1>1. 1 \in Dirs(e)
    BY DEF TreeOK, SameEntries
  <1>2. ASSUME NEW i \in Dirs(e), NEW k \in Spots(e, i)
        PROVE  /\ i \in Dirs(d) /\ k \in Spots(d, i)
               /\ SpotAt(e, i, k) # 0 /\ CellOf(e, i, k) = CellOf(d, i, k)
    <2>1. i \in Dirs(d)
      <3>1. SUFFICES ASSUME i \notin Dirs(d)
                     PROVE  FALSE
        OBVIOUS
      <3>2. e.inode[i].size = 0
        BY <3>1 DEF SameEntries
      <3> QED
        BY <3>2 DEF Spots
    <2>2. Spots(e, i) = Spots(d, i)
      BY <2>1 DEF SameEntries, Spots
    <2> QED
      BY <2>1, <2>2 DEF SameEntries
  <1>3. ASSUME NEW i \in Dirs(e), NEW k \in Spots(e, i)
        PROVE  k \div CPB < Final /\ SpotAt(e, i, k) # 0 /\ Proper(e, CellOf(e, i, k))
    <2> DEFINE c == CellOf(d, i, k)
    <2>1. k \div CPB < Final /\ Proper(d, c)
      BY <1>2, <1>3 DEF TreeOK
    <2>2. SpotAt(e, i, k) # 0 /\ CellOf(e, i, k) = c /\ i \in Dirs(d) /\ k \in Spots(d, i)
      BY <1>2, <1>3
    <2>3. c.name \in Names /\ c.ino # 0 /\ c.ino \in Live(d) => c.ino \in Live(e)
      <3>1. SUFFICES ASSUME c.name \in Names, c.ino # 0, c.ino \in Live(d)
                     PROVE  c.ino \in Live(e)
        OBVIOUS
      <3>2. IsName(c)
        BY <3>1, MiniFsAssumption DEF IsName
      <3>3. NamesIt(d, i, c.ino) /\ i \in Inodes
        BY <2>2, <3>2, LiveParts DEF NamesIt
      <3> HIDE DEF c
      <3> QED
        BY <3>1, <3>3 DEF IsNamed
    <2> HIDE DEF c
    <2>4. Dirs(d) \subseteq Dirs(e)
      BY DEF SameEntries
    <2>5. Proper(e, c)
      BY <2>1, <2>3, <2>4 DEF Proper
    <2> QED
      BY <2>1, <2>2, <2>5
  <1>4. ASSUME NEW i \in Dirs(e), NEW j \in Dirs(e), NEW k \in Spots(e, i), NEW l \in Spots(e, j),
               IsName(CellOf(e, i, k)), IsName(CellOf(e, j, l)),
               CellOf(e, i, k).ino = CellOf(e, j, l).ino
        PROVE  i = j /\ k = l
    <2>1. i \in Dirs(d) /\ k \in Spots(d, i) /\ CellOf(e, i, k) = CellOf(d, i, k)
      BY <1>2
    <2>2. j \in Dirs(d) /\ l \in Spots(d, j) /\ CellOf(e, j, l) = CellOf(d, j, l)
      BY <1>2
    <2> QED
      BY <1>4, <2>1, <2>2 DEF TreeOK
  <1> QED
    BY <1>1, <1>3, <1>4 DEF TreeOK

\* Where the directories and their blocks are the same, the entries are.
LEMMA EntriesStay ==
    ASSUME NEW d \in Disk, NEW e \in Disk, TreeOK(d),
           Dirs(d) \subseteq Dirs(e), \A i \in Dirs(e) \ Dirs(d) : e.inode[i].size = 0,
           \A i \in Dirs(d) : e.inode[i].size = d.inode[i].size,
           \A i \in Dirs(d), n \in Slots : n # Final /\ At(OnDisk(d), <<i, n>>) # 0 =>
              /\ At(OnDisk(e), <<i, n>>) = At(OnDisk(d), <<i, n>>)
              /\ e.block[At(OnDisk(d), <<i, n>>)] = d.block[At(OnDisk(d), <<i, n>>)]
    PROVE  SameEntries(d, e)
  <1>1. ASSUME NEW i \in Dirs(d), NEW k \in Spots(d, i)
        PROVE  SpotAt(e, i, k) # 0 /\ CellOf(e, i, k) = CellOf(d, i, k)
    <2>1. k \div CPB < Final /\ SpotAt(d, i, k) # 0
      BY DEF TreeOK
    <2>2. k \in Nat
      BY LiveParts
    <2>3. k \div CPB \in Slots /\ k \div CPB # Final
      BY <2>1, <2>2, Position, Sizes DEF Slots, Final
    <2>4. /\ SpotAt(e, i, k) = SpotAt(d, i, k)
          /\ e.block[SpotAt(d, i, k)] = d.block[SpotAt(d, i, k)]
      BY <2>1, <2>3 DEF SpotAt
    <2> QED
      BY <2>1, <2>4 DEF CellOf
  <1> QED
    BY <1>1 DEF SameEntries

-----------------------------------------------------------------------------
(* What the kernel has and what is on the disk                             *)

LEMMA SoundParts ==
    ASSUME NEW s, NEW X, Sound(s, X)
    PROVE  /\ s \in State /\ s.d \in Disk /\ Kernel(s) \in Store /\ s.d.free_list = s.fl
           /\ s.log \in Seq(Writes)
           /\ Owned(Kernel(s), Have(InUse(s)), X) /\ Apart(Kernel(s), Have(InUse(s)))
           /\ X \in SUBSET Blocks
           /\ Agree(s) /\ Cached(s) /\ TreeOK(s.d)
           /\ InUse(s) \in SUBSET Inodes /\ Live(s.d) \subseteq InUse(s)
           /\ Closed(Have(InUse(s)))
  <1>1. s \in State /\ s.d.free_list = s.fl /\ Agree(s) /\ Cached(s) /\ TreeOK(s.d)
    BY DEF Sound
  <1>2. Owned(Kernel(s), Have(InUse(s)), X)
    BY DEF Sound
  <1>3. Apart(Kernel(s), Have(InUse(s))) /\ X \in SUBSET Blocks /\ Closed(Have(InUse(s)))
    BY <1>2 DEF Owned
  <1>4. s.d \in Disk /\ Kernel(s) \in Store /\ s.log \in Seq(Writes)
    BY <1>1, StateParts
  <1>5. InUse(s) \in SUBSET Inodes /\ Live(s.d) \subseteq InUse(s)
    BY <1>4, LiveParts DEF InUse
  <1> QED
    BY <1>1, <1>2, <1>3, <1>4, <1>5

LEMMA DiskPlaces ==
    ASSUME NEW s, NEW X, Sound(s, X), NEW i \in Live(s.d), NEW n \in Slots
    PROVE  /\ At(OnDisk(s.d), <<i, n>>) \in {0, At(Kernel(s), <<i, n>>)}
           /\ <<i, n>> \in Have(InUse(s)) /\ <<i, n>> \in Have(Live(s.d))
           /\ At(Kernel(s), <<i, n>>) \in 0..NBLOCKS
  <1> DEFINE p == <<i, n>>
             a == s.d.inode[i]
             b == Kernel(s).ino[i]
  <1>1. i \in Inodes /\ i \in InUse(s) /\ s.d \in Disk
    BY SoundParts, LiveParts
  <1>2. a.indirect \in {0, b.indirect} /\ \A k \in Direct : a.direct[k] \in {0, b.direct[k]}
    BY SoundParts DEF Agree
  <1>3. p[1] = i /\ p[2] = n /\ p \in Places /\ p \in Have(InUse(s)) /\ p \in Have(Live(s.d))
    BY <1>1 DEF Places, Have
  <1>4. OnDisk(s.d).ino[i] = a /\ OnDisk(s.d).block = s.d.block /\ Kernel(s).block = s.d.block
    BY <1>1, KernelIno
  <1> HIDE DEF p, a, b
  <1>5. At(Kernel(s), p) \in 0..NBLOCKS
    BY <1>3, SoundParts DEF Apart
  <1>6. At(OnDisk(s.d), p) \in {0, At(Kernel(s), p)}
    <2>1. CASE n < NDIRECT
      <3>1. n \in Direct
        BY <1>3, <2>1, PlaceParts
      <3>2. At(OnDisk(s.d), p) = a.direct[n] /\ At(Kernel(s), p) = b.direct[n]
        BY <1>3, <1>4, <2>1 DEF At, b
      <3> QED
        BY <1>2, <3>1, <3>2
    <2>2. CASE ~(n < NDIRECT) /\ n = Final
      <3>1. At(OnDisk(s.d), p) = a.indirect /\ At(Kernel(s), p) = b.indirect
        BY <1>3, <1>4, <2>2 DEF At, b
      <3> QED
        BY <1>2, <3>1
    <2>3. CASE ~(n < NDIRECT) /\ n # Final
      <3>1. CASE a.indirect = 0
        BY <1>3, <1>4, <2>3, <3>1 DEF At
      <3>2. CASE a.indirect # 0
        <4>1. b.indirect = a.indirect
          BY <1>2, <3>2
        <4> QED
          BY <1>3, <1>4, <2>3, <3>2, <4>1 DEF At, b
      <3> QED
        BY <3>1, <3>2
    <2> QED
      BY <2>1, <2>2, <2>3
  <1> QED
    BY <1>3, <1>5, <1>6 DEF p

\* A disk is safe at every moment.
LEMMA SoundSafe ==
    ASSUME NEW s, NEW X, Sound(s, X)
    PROVE  Safe(s.d)
  <1> DEFINE m == Kernel(s)
             e == OnDisk(s.d)
             P == Have(InUse(s))
             R == Have(Live(s.d))
             U == Blocks \ (Taken(m, P) \cup X)
             Y == Blocks \ (Taken(e, R) \cup U)
  <1>1. /\ s.d \in Disk /\ s.d.free_list = s.fl /\ TreeOK(s.d) /\ Apart(m, P)
        /\ Live(s.d) \in SUBSET Inodes
    BY SoundParts, LiveParts
  <1>2. e \in Store /\ e.fl = m.fl /\ e.block = m.block
    <2>1. e \in Store
      BY <1>1, DiskParts
    <2>2. e.fl = m.fl /\ e.block = m.block
      BY <1>1 DEF Kernel, OnDisk
    <2> QED
      BY <2>1, <2>2
  <1>3. Closed(R)
    BY <1>1, ClosedHave
  <1>4. ASSUME NEW p \in R
        PROVE  At(e, p) \in {0, At(m, p)} /\ p \in P /\ At(m, p) \in 0..NBLOCKS
    <2>1. PICK i \in Live(s.d), n \in Slots : p = <<i, n>>
      BY DEF Have
    <2>2. /\ At(OnDisk(s.d), <<i, n>>) \in {0, At(Kernel(s), <<i, n>>)}
          /\ <<i, n>> \in Have(InUse(s)) /\ At(Kernel(s), <<i, n>>) \in 0..NBLOCKS
      BY <2>1, DiskPlaces
    <2> QED
      BY <2>1, <2>2
  <1>5. Chain(m, U)
    BY SoundParts DEF Owned
  <1> HIDE DEF m, e, P, R
  <1>6. Apart(e, R)
    <2> SUFFICES ASSUME NEW p \in R
                 PROVE  /\ At(e, p) \in 0..NBLOCKS
                        /\ \A q \in R \ {p} : At(e, q) = At(e, p) => At(e, p) = 0
      BY DEF Apart
    <2>1. At(e, p) \in 0..NBLOCKS
      BY <1>4, Sizes
    <2>2. ASSUME NEW q \in R \ {p}, At(e, q) = At(e, p), At(e, p) # 0
          PROVE  FALSE
      <3>1. At(e, p) = At(m, p) /\ At(e, q) = At(m, q) /\ p \in P /\ q \in P \ {p}
        BY <1>4, <2>2
      <3> QED
        BY <1>1, <2>2, <3>1 DEF Apart
    <2> QED
      BY <2>1, <2>2
  <1>7. Taken(e, R) \subseteq Taken(m, P)
    BY <1>4 DEF Taken
  <1>8. Chain(e, U)
    <2> HIDE DEF U
    <2> QED
      BY <1>2, <1>5, ChainSame
  <1>9. Blocks \ (Taken(e, R) \cup Y) = U
    BY <1>7
  <1>10. Y \in SUBSET Blocks /\ Y \in SUBSET (Blocks \ Taken(e, R))
    OBVIOUS
  <1> HIDE DEF U, Y
  <1>11. Owned(e, R, Y)
    BY <1>2, <1>3, <1>6, <1>8, <1>9, <1>10 DEF Owned
  <1> QED
    BY <1>1, <1>10, <1>11 DEF Safe, e, R

\* Only what the kernel has in its hands is not on the disk's directories.
LEMMA DirPlaces ==
    ASSUME NEW s, NEW X, Sound(s, X), NEW i \in Dirs(s.d), NEW k \in Spots(s.d, i)
    PROVE  /\ SpotAt(s.d, i, k) = At(Kernel(s), <<i, k \div CPB>>)
           /\ SpotAt(s.d, i, k) \in Blocks
           /\ k \in Nat /\ k \div CPB \in Slots /\ k \div CPB < Final /\ k \div CPB # Final
           /\ Proper(s.d, CellOf(s.d, i, k)) /\ CellOf(s.d, i, k) \in Cell
  <1>1. s.d \in Disk /\ TreeOK(s.d)
    BY SoundParts
  <1>2. k \in Nat /\ i \in Live(s.d)
    BY <1>1, LiveParts
  <1>3. k \div CPB < Final /\ SpotAt(s.d, i, k) # 0 /\ Proper(s.d, CellOf(s.d, i, k))
    BY <1>1 DEF TreeOK
  <1>4. k \div CPB \in Slots /\ k \div CPB # Final /\ (k % CPB) + 1 \in 1..CPB
    BY <1>2, <1>3, Position, Sizes DEF Slots, Final
  <1>5. PICK n \in Slots : n = k \div CPB
    BY <1>4
  <1>6. /\ At(OnDisk(s.d), <<i, n>>) \in {0, At(Kernel(s), <<i, n>>)}
        /\ At(Kernel(s), <<i, n>>) \in 0..NBLOCKS
    BY <1>2, DiskPlaces
  <1>7. SpotAt(s.d, i, k) = At(Kernel(s), <<i, k \div CPB>>) /\ SpotAt(s.d, i, k) \in 0..NBLOCKS
    BY <1>3, <1>5, <1>6 DEF SpotAt
  <1>8. SpotAt(s.d, i, k) \in Blocks
    BY <1>3, <1>7, Sizes
  <1>9. CellOf(s.d, i, k) \in Cell
    <2>1. s.d.block[SpotAt(s.d, i, k)] \in [1..CPB -> Cell]
      BY <1>1, <1>8, DiskParts
    <2> QED
      BY <1>4, <2>1 DEF CellOf
  <1> QED
    BY <1>2, <1>3, <1>4, <1>7, <1>8, <1>9

-----------------------------------------------------------------------------
(* One write                                                               *)

\* What the functions leave alone that neither take nor release inodes.
Steady(s, t) ==
    /\ Leads(s, t)
    /\ \A i \in Inodes :
          /\ t.ic[i].ref = s.ic[i].ref
          /\ s.ic[i].ref = 0 => t.ic[i] = s.ic[i]
          /\ s.ic[i].ref > 0 => /\ t.ic[i].di.type = s.ic[i].di.type
                                /\ t.ic[i].di.nlink = s.ic[i].di.nlink
          /\ t.d.inode[i].type = s.d.inode[i].type
          /\ \/ t.d.inode[i].nlink = s.d.inode[i].nlink
             \/ s.ic[i].ref > 0 /\ t.d.inode[i].nlink = s.ic[i].di.nlink
Keeps(s, t) == Steady(s, t) /\ SameEntries(s.d, t.d)

LEMMA SteadyOn ==
    ASSUME NEW s, NEW t, NEW u, Steady(s, t), Steady(t, u)
    PROVE  Steady(s, u)
  <1>1. Leads(s, u)
    BY LeadsOn DEF Steady
  <1> QED
    BY <1>1 DEF Steady

LEMMA KeepsOn ==
    ASSUME NEW s, NEW t, NEW u, Keeps(s, t), Keeps(t, u)
    PROVE  Keeps(s, u)
  BY SteadyOn, SameEntriesOn DEF Keeps

LEMMA SameDisk ==
    ASSUME NEW s, NEW X, Sound(s, X)
    PROVE  SameEntries(s.d, s.d)
  <1>1. \A i \in Dirs(s.d) : \A k \in Spots(s.d, i) : SpotAt(s.d, i, k) # 0
    BY SoundParts DEF TreeOK
  <1> QED
    BY <1>1 DEF SameEntries

LEMMA KeepsSelf ==
    ASSUME NEW s, NEW X, Sound(s, X)
    PROVE  Keeps(s, s)
  BY SameDisk, LeadsSame DEF Keeps, Steady

\* A block is written, at once in the kernel's view and last in the log.
Write(s, w) == [s EXCEPT !.d = Perform(@, w), !.log = Append(@, w)]

LEMMA Written ==
    /\ \A s : WriteSb(s) = Write(s, [at |-> "sb", n |-> 0, v |-> s.fl])
    /\ \A s, i, di : WriteInode(s, i, di) = Write(s, [at |-> "inode", n |-> i, v |-> di])
    /\ \A s, b, cells : WriteBlock(s, b, cells) = Write(s, [at |-> "block", n |-> b, v |-> cells])
  <1>1. ASSUME NEW s
        PROVE  WriteSb(s) = Write(s, [at |-> "sb", n |-> 0, v |-> s.fl])
    BY DEF WriteSb, Write, Perform
  <1>2. ASSUME NEW s, NEW i, NEW di
        PROVE  WriteInode(s, i, di) = Write(s, [at |-> "inode", n |-> i, v |-> di])
    BY DEF WriteInode, Write, Perform
  <1>3. ASSUME NEW s, NEW b, NEW cells
        PROVE  WriteBlock(s, b, cells) = Write(s, [at |-> "block", n |-> b, v |-> cells])
    BY DEF WriteBlock, Write, Perform
  <1> QED
    BY <1>1, <1>2, <1>3

LEMMA WriteEffect ==
    ASSUME NEW s \in State, NEW w \in Writes
    PROVE  /\ Write(s, w) \in State /\ Write(s, w).fl = s.fl /\ Write(s, w).ic = s.ic
           /\ Write(s, w).d = Perform(s.d, w) /\ Write(s, w).log = Append(s.log, w)
  <1>1. s.d \in Disk /\ s.log \in Seq(Writes)
    BY StateParts
  <1>2. Perform(s.d, w) \in Disk /\ Append(s.log, w) \in Seq(Writes)
    BY <1>1, PerformTypes
  <1> QED
    BY <1>2 DEF Write, State

LEMMA SbWrite ==
    ASSUME NEW d \in Disk, NEW f \in 0..NBLOCKS
    PROVE  LET w == [at |-> "sb", n |-> 0, v |-> f]
           IN  /\ w \in Writes /\ Perform(d, w).free_list = f
               /\ Perform(d, w).inode = d.inode /\ Perform(d, w).block = d.block
  <1> DEFINE w == [at |-> "sb", n |-> 0, v |-> f]
  <1>1. w \in Writes
    BY DEF Writes
  <1>2. Perform(d, w) = [d EXCEPT !.free_list = f]
    BY DEF Perform
  <1> QED
    BY <1>1, <1>2 DEF Disk

LEMMA InodeWrite ==
    ASSUME NEW d \in Disk, NEW i \in Inodes, NEW e \in DiskInode
    PROVE  LET w == [at |-> "inode", n |-> i, v |-> e]
           IN  /\ w \in Writes /\ Perform(d, w).free_list = d.free_list
               /\ Perform(d, w).inode = [d.inode EXCEPT ![i] = e]
               /\ Perform(d, w).block = d.block
  <1> DEFINE w == [at |-> "inode", n |-> i, v |-> e]
  <1>1. w \in Writes
    BY DEF Writes
  <1>2. Perform(d, w) = [d EXCEPT !.inode[i] = e]
    BY DEF Perform
  <1> QED
    BY <1>1, <1>2 DEF Disk

LEMMA BlockWrite ==
    ASSUME NEW d \in Disk, NEW b \in Blocks, NEW cells \in [1..CPB -> Cell]
    PROVE  LET w == [at |-> "block", n |-> b, v |-> cells]
           IN  /\ w \in Writes /\ Perform(d, w).free_list = d.free_list
               /\ Perform(d, w).inode = d.inode
               /\ Perform(d, w).block = [d.block EXCEPT ![b] = cells]
  <1> DEFINE w == [at |-> "block", n |-> b, v |-> cells]
  <1>1. w \in Writes
    BY DEF Writes
  <1>2. Perform(d, w) = [d EXCEPT !.block[b] = cells]
    BY DEF Perform
  <1> QED
    BY <1>1, <1>2 DEF Disk

\* A write that changes no inode and leaves the entries of directories.
LEMMA InodesStay ==
    ASSUME NEW s, NEW X, Sound(s, X), NEW t \in State, NEW w \in Writes, NEW Y,
           t.ic = s.ic, t.d.inode = s.d.inode, t.d.free_list = t.fl,
           t.d = Perform(s.d, w), t.log = Append(s.log, w),
           Owned(Kernel(t), Have(InUse(s)), Y), SameEntries(s.d, t.d)
    PROVE  Sound(t, Y) /\ Keeps(s, t) /\ InUse(t) = InUse(s) /\ Kernel(t).ino = Kernel(s).ino
  <1>1. s.d \in Disk /\ t.d \in Disk /\ s.log \in Seq(Writes) /\ TreeOK(s.d)
    BY SoundParts, StateParts
  <1>2. /\ Kernel(t).ino = Kernel(s).ino /\ Live(t.d) = Live(s.d) /\ InUse(t) = InUse(s)
        /\ Dirs(t.d) = Dirs(s.d)
    BY DEF Kernel, Live, InUse, Dirs
  <1>3. Agree(t)
    BY <1>2, SoundParts DEF Agree
  <1>4. TreeOK(t.d)
    BY <1>1, <1>2, TreeStays
  <1>5. Cached(t)
    <2>1. \A i, j \in Inodes : NamesIt(t.d, j, i) <=> NamesIt(s.d, j, i)
      BY SameNames
    <2>2. \A i \in Inodes : IsNamed(t.d, i) <=> IsNamed(s.d, i)
      BY <2>1 DEF IsNamed
    <2>3. Cached(s)
      BY SoundParts
    <2> QED
      BY <2>2, <2>3 DEF Cached
  <1>6. Sound(t, Y)
    BY <1>2, <1>3, <1>4, <1>5 DEF Sound
  <1>7. Leads(s, t)
    BY <1>1, <1>6, SoundSafe, LeadsWrite
  <1> QED
    BY <1>2, <1>6, <1>7 DEF Keeps, Steady

\* It does that if it leaves the blocks of directories.
LEMMA DirBlocksStay ==
    ASSUME NEW s, NEW X, Sound(s, X), NEW e \in Disk, e.inode = s.d.inode,
           \A i \in Dirs(s.d), n \in Slots : At(Kernel(s), <<i, n>>) \in Blocks =>
              e.block[At(Kernel(s), <<i, n>>)] = s.d.block[At(Kernel(s), <<i, n>>)]
    PROVE  SameEntries(s.d, e)
  <1> DEFINE R == Have(Dirs(s.d))
  <1>1. s.d \in Disk /\ TreeOK(s.d) /\ Dirs(s.d) \in SUBSET Inodes /\ Dirs(s.d) \in SUBSET Live(s.d)
    BY SoundParts, LiveParts
  <1>2. Dirs(e) = Dirs(s.d)
    BY DEF Dirs, Live
  <1>3. Closed(R)
    BY <1>1, ClosedHave
  <1>4. ASSUME NEW i \in Dirs(s.d), NEW n \in Slots, At(OnDisk(s.d), <<i, n>>) # 0
        PROVE  e.block[At(OnDisk(s.d), <<i, n>>)] = s.d.block[At(OnDisk(s.d), <<i, n>>)]
    <2>1. /\ At(OnDisk(s.d), <<i, n>>) = At(Kernel(s), <<i, n>>)
          /\ At(Kernel(s), <<i, n>>) \in 0..NBLOCKS
      BY <1>1, <1>4, DiskPlaces
    <2> QED
      BY <1>4, <2>1, Sizes
  <1>5. ASSUME NEW p \in R
        PROVE  /\ OnDisk(e).ino[p[1]] = OnDisk(s.d).ino[p[1]]
               /\ At(OnDisk(s.d), p) # 0 =>
                     OnDisk(e).block[At(OnDisk(s.d), p)] = OnDisk(s.d).block[At(OnDisk(s.d), p)]
    <2>1. PICK i \in Dirs(s.d), n \in Slots : p = <<i, n>>
      BY DEF Have
    <2>2. /\ OnDisk(e).ino = OnDisk(s.d).ino /\ OnDisk(e).block = e.block
          /\ OnDisk(s.d).block = s.d.block
      BY DEF OnDisk
    <2> QED
      BY <1>4, <2>1, <2>2
  <1>6. \A p \in R : At(OnDisk(e), p) = At(OnDisk(s.d), p)
    BY <1>3, <1>5, SamePlaces
  <1>7. \A i \in Dirs(s.d), n \in Slots : At(OnDisk(e), <<i, n>>) = At(OnDisk(s.d), <<i, n>>)
    BY <1>6 DEF Have
  <1> HIDE DEF R
  <1> QED
    BY <1>1, <1>2, <1>4, <1>7, EntriesStay

LEMMA ChainHead ==
    ASSUME NEW m, NEW P, NEW X, Owned(m, P, X), m.fl # 0
    PROVE  m.block[m.fl][1].ino \in 0..NBLOCKS
  <1>1. PICK U : Chain(m, U)
    BY DEF Owned
  <1>2. PICK n \in Nat : \E q : ChainOf(m, n, q)
    BY <1>1 DEF Chain
  <1>3. PICK q : ChainOf(m, n, q)
    BY <1>2
  <1>4. n # 0 /\ q[0] = m.fl
    BY <1>3 DEF ChainOf
  <1>5. 0 \in 0..(n - 1) /\ 0 + 1 \in 0..n
    BY <1>4
  <1> QED
    BY <1>3, <1>4, <1>5 DEF ChainOf

LEMMA AllocSound ==
    ASSUME NEW s, NEW X, Sound(s, X), s.fl # 0
    PROVE  LET t == balloc(s)
           IN  /\ Sound(t, X \cup {s.fl}) /\ Keeps(s, t) /\ InUse(t) = InUse(s)
               /\ Kernel(t).ino = Kernel(s).ino
               /\ t.ic = s.ic /\ t.d.block = s.d.block /\ t.d.inode = s.d.inode
               /\ s.fl \in Blocks \ X
  <1> DEFINE f == s.d.block[s.fl][1].ino
             r == [s EXCEPT !.fl = f]
             w == [at |-> "sb", n |-> 0, v |-> f]
             t == balloc(s)
  <1>1. /\ s \in State /\ s.d \in Disk /\ Kernel(s) \in Store
        /\ Owned(Kernel(s), Have(InUse(s)), X)
        /\ Kernel(s).fl = s.fl /\ Kernel(s).block = s.d.block
    BY SoundParts DEF Kernel
  <1>2. f \in 0..NBLOCKS
    BY <1>1, ChainHead
  <1> HIDE DEF f
  <1>3. r \in State /\ r.fl = f /\ r.ic = s.ic /\ r.d = s.d /\ r.log = s.log
    BY <1>1, <1>2 DEF State
  <1> HIDE DEF r
  <1>4. t = Write(r, w)
    BY <1>3, Written DEF balloc, f, r
  <1>5. /\ w \in Writes /\ Perform(s.d, w).free_list = f
        /\ Perform(s.d, w).inode = s.d.inode /\ Perform(s.d, w).block = s.d.block
    BY <1>1, <1>2, SbWrite
  <1> HIDE DEF w, t
  <1>6. /\ t \in State /\ t.fl = f /\ t.ic = s.ic /\ t.d = Perform(s.d, w)
        /\ t.log = Append(s.log, w)
    BY <1>3, <1>4, <1>5, WriteEffect
  <1>7. /\ Kernel(t) \in Store /\ Kernel(t).fl = f /\ Kernel(t).ino = Kernel(s).ino
        /\ Kernel(t).block = Kernel(s).block
    <2>1. Kernel(t) \in Store
      BY <1>6, StateParts
    <2> QED
      BY <1>5, <1>6, <2>1 DEF Kernel
  <1>8. /\ Owned(Kernel(t), Have(InUse(s)), X \cup {s.fl})
        /\ s.fl \in Blocks \ (Taken(Kernel(s), Have(InUse(s))) \cup X)
    <2>1. Kernel(t).fl = Kernel(s).block[Kernel(s).fl][1].ino
      BY <1>1, <1>7 DEF f
    <2>2. PICK m : m = Kernel(s)
      OBVIOUS
    <2>3. PICK n : n = Kernel(t)
      OBVIOUS
    <2>4. /\ Owned(n, Have(InUse(s)), X \cup {m.fl})
          /\ m.fl \in Blocks \ (Taken(m, Have(InUse(s))) \cup X)
      BY <1>1, <1>7, <2>1, <2>2, <2>3, OwnedAlloc
    <2> QED
      BY <1>1, <2>2, <2>3, <2>4
  <1>9. t.d \in Disk /\ t.d.inode = s.d.inode /\ t.d.block = s.d.block /\ t.d.free_list = t.fl
    BY <1>5, <1>6, StateParts
  <1>10. SameEntries(s.d, t.d)
    BY <1>9, DirBlocksStay
  <1>11. Sound(t, X \cup {s.fl}) /\ Keeps(s, t) /\ InUse(t) = InUse(s)
    BY <1>5, <1>6, <1>8, <1>9, <1>10, InodesStay
  <1> QED
    BY <1>6, <1>7, <1>8, <1>9, <1>11 DEF t

\* A block that nobody has, or that holds the contents of a file, is written.
LEMMA WriteBlockSound ==
    ASSUME NEW s, NEW X, Sound(s, X), NEW b \in Blocks, NEW cells \in [1..CPB -> Cell],
           b \in X \/ \E i \in InUse(s) \ Dirs(s.d), n \in Slots :
                         n # Final /\ b = At(Kernel(s), <<i, n>>)
    PROVE  LET t == WriteBlock(s, b, cells)
           IN  /\ Sound(t, X) /\ Keeps(s, t) /\ InUse(t) = InUse(s)
               /\ Kernel(t).ino = Kernel(s).ino
               /\ \A p \in Have(InUse(s)) : At(Kernel(t), p) = At(Kernel(s), p)
               /\ t.ic = s.ic /\ t.fl = s.fl /\ t.d.block = [s.d.block EXCEPT ![b] = cells]
               /\ t.d.inode = s.d.inode
  <1> DEFINE w == [at |-> "block", n |-> b, v |-> cells]
             t == WriteBlock(s, b, cells)
             m == Kernel(s)
             P == Have(InUse(s))
  <1>1. /\ s \in State /\ s.d \in Disk /\ m \in Store /\ s.d.free_list = s.fl
        /\ Owned(m, P, X) /\ InUse(s) \in SUBSET Inodes /\ Live(s.d) \subseteq InUse(s)
        /\ m.fl = s.fl /\ m.block = s.d.block
    BY SoundParts DEF Kernel
  <1>2. Apart(m, P) /\ X \in SUBSET (Blocks \ Taken(m, P))
    BY <1>1 DEF Owned
  <1>3. /\ w \in Writes /\ Perform(s.d, w).free_list = s.d.free_list
        /\ Perform(s.d, w).inode = s.d.inode
        /\ Perform(s.d, w).block = [s.d.block EXCEPT ![b] = cells]
    BY <1>1, BlockWrite
  <1>4. t = Write(s, w)
    BY Written
  <1> HIDE DEF w, t
  <1>5. /\ t \in State /\ t.fl = s.fl /\ t.ic = s.ic /\ t.d = Perform(s.d, w)
        /\ t.log = Append(s.log, w)
    BY <1>1, <1>3, <1>4, WriteEffect
  <1>6. /\ t.d \in Disk /\ t.d.inode = s.d.inode /\ t.d.free_list = t.fl
        /\ t.d.block = [s.d.block EXCEPT ![b] = cells]
        /\ \A c \in Blocks \ {b} : t.d.block[c] = s.d.block[c]
    BY <1>1, <1>3, <1>5, StateParts, DiskParts
  <1>7. /\ Kernel(t) \in Store /\ Kernel(t).fl = m.fl /\ Kernel(t).ino = m.ino
        /\ Kernel(t).block = t.d.block
    <2>1. Kernel(t) \in Store
      BY <1>5, StateParts
    <2> QED
      BY <1>5, <1>6, <2>1 DEF Kernel
  \* No directory has b, and it is not an indirect block.
  <1>8. \A i \in InUse(s), n \in Slots : At(m, <<i, n>>) = b => n # Final /\ i \notin Dirs(s.d)
    <2>1. CASE b \in X
      <3>1. \A i \in InUse(s), n \in Slots : <<i, n>> \in P
        BY DEF Have
      <3>2. b \notin Taken(m, P) /\ b # 0
        BY <1>2, <2>1, Sizes
      <3> QED
        BY <3>1, <3>2 DEF Taken
    <2>2. CASE b \notin X
      <3>1. PICK i \in InUse(s) \ Dirs(s.d), n \in Slots : n # Final /\ b = At(m, <<i, n>>)
        BY <2>2
      <3>2. <<i, n>> \in P /\ b # 0
        BY <3>1, Sizes DEF Have
      <3>3. ASSUME NEW j \in InUse(s), NEW k \in Slots, At(m, <<j, k>>) = b
            PROVE  j = i /\ k = n
        <4>1. <<j, k>> \in P
          BY DEF Have
        <4>2. <<j, k>> = <<i, n>>
          BY <1>2, <3>1, <3>2, <3>3, <4>1 DEF Apart
        <4> QED
          BY <4>2
      <3> QED
        BY <3>1, <3>3
    <2> QED
      BY <2>1, <2>2
  <1>9. b \in Taken(m, P) \cup X
    <2>1. ASSUME NEW i \in InUse(s), NEW n \in Slots, b = At(m, <<i, n>>)
          PROVE  b \in Taken(m, P)
      BY <2>1, Sizes DEF Taken, Have
    <2> QED
      BY <2>1
  <1>10. /\ Owned(Kernel(t), P, X)
         /\ \A p \in P : At(Kernel(t), p) = At(m, p)
    <2>1. ASSUME NEW p \in P, p[2] = Final, At(m, p) # 0
          PROVE  Kernel(t).block[At(m, p)] = m.block[At(m, p)]
      <3>1. PICK i \in InUse(s), n \in Slots : p = <<i, n>>
        BY DEF Have
      <3>2. At(m, p) # b /\ At(m, p) \in 0..NBLOCKS
        BY <1>2, <1>8, <2>1, <3>1 DEF Apart
      <3>3. At(m, p) \in Blocks \ {b}
        BY <2>1, <3>2, Sizes
      <3> QED
        BY <1>1, <1>6, <1>7, <3>3
    <2>2. \A c \in Blocks \ (Taken(m, P) \cup X) : Kernel(t).block[c] = m.block[c]
      BY <1>1, <1>6, <1>7, <1>9
    <2>3. PICK u \in Store : u = Kernel(t)
      BY <1>7
    <2> HIDE DEF m, P
    <2>4. Owned(u, P, X) /\ \A p \in P : At(u, p) = At(m, p)
      BY <1>1, <1>7, <2>1, <2>2, <2>3, OwnedStays
    <2> QED
      BY <2>3, <2>4
  <1>11. SameEntries(s.d, t.d)
    <2>1. ASSUME NEW i \in Dirs(s.d), NEW n \in Slots, At(m, <<i, n>>) \in Blocks
          PROVE  t.d.block[At(m, <<i, n>>)] = s.d.block[At(m, <<i, n>>)]
      <3>1. i \in InUse(s)
        BY <1>1, LiveParts
      <3>2. At(m, <<i, n>>) # b
        BY <1>8, <3>1
      <3> QED
        BY <1>6, <2>1, <3>2
    <2> QED
      BY <1>6, <2>1, DirBlocksStay
  <1>12. Sound(t, X) /\ Keeps(s, t) /\ InUse(t) = InUse(s)
    BY <1>3, <1>5, <1>6, <1>10, <1>11, InodesStay
  <1> QED
    BY <1>5, <1>6, <1>7, <1>10, <1>12 DEF t

LEMMA FreeSound ==
    ASSUME NEW s, NEW X, Sound(s, X), NEW b \in X
    PROVE  LET t == bfree(s, b)
           IN  /\ Sound(t, X \ {b}) /\ Keeps(s, t) /\ InUse(t) = InUse(s)
               /\ t.ic = s.ic /\ t.d.inode = s.d.inode
               /\ \A c \in Blocks \ {b} : t.d.block[c] = s.d.block[c]
  <1> DEFINE cells == [ZeroBlock EXCEPT ![1] = Link(s.fl)]
             u == WriteBlock(s, b, cells)
             r == [u EXCEPT !.fl = b]
             w == [at |-> "sb", n |-> 0, v |-> b]
             t == bfree(s, b)
  <1>1. /\ X \in SUBSET Blocks /\ b \in Blocks /\ s.fl \in 0..NBLOCKS /\ s.d \in Disk
        /\ b \in 0..NBLOCKS
    BY SoundParts, StateParts, Sizes
  <1>2. cells \in [1..CPB -> Cell] /\ cells[1].ino = s.fl
    BY <1>1, Sizes
  <1>3. t = WriteSb(r)
    BY DEF bfree
  <1> HIDE DEF cells
  <1>4. /\ Sound(u, X) /\ Keeps(s, u) /\ InUse(u) = InUse(s)
        /\ u.ic = s.ic /\ u.fl = s.fl /\ u.d.block = [s.d.block EXCEPT ![b] = cells]
        /\ u.d.inode = s.d.inode
    BY <1>1, <1>2, WriteBlockSound
  <1> HIDE DEF u
  <1>5. /\ u \in State /\ u.d \in Disk /\ Owned(Kernel(u), Have(InUse(u)), X)
        /\ Kernel(u).fl = u.fl /\ Kernel(u).block = u.d.block
    BY <1>4, SoundParts DEF Kernel
  <1>6. r \in State /\ r.fl = b /\ r.ic = u.ic /\ r.d = u.d /\ r.log = u.log
    BY <1>1, <1>5 DEF State
  <1> HIDE DEF r
  <1>7. t = Write(r, w)
    BY <1>3, <1>6, Written
  <1>8. /\ w \in Writes /\ Perform(u.d, w).free_list = b
        /\ Perform(u.d, w).inode = u.d.inode /\ Perform(u.d, w).block = u.d.block
    BY <1>1, <1>5, SbWrite
  <1> HIDE DEF w, t
  <1>9. /\ t \in State /\ t.fl = b /\ t.ic = u.ic /\ t.d = Perform(u.d, w)
        /\ t.log = Append(u.log, w)
    BY <1>6, <1>7, <1>8, WriteEffect
  <1>10. /\ t.d.inode = u.d.inode /\ t.d.block = u.d.block /\ t.d.free_list = t.fl /\ t.d \in Disk
    BY <1>8, <1>9, StateParts
  <1>11. /\ Kernel(t) \in Store /\ Kernel(t).fl = b /\ Kernel(t).ino = Kernel(u).ino
         /\ Kernel(t).block = Kernel(u).block
    <2>1. Kernel(t) \in Store
      BY <1>9, StateParts
    <2> QED
      BY <1>9, <1>10, <2>1 DEF Kernel
  <1>12. Kernel(u).block[b][1].ino = Kernel(u).fl
    <2>1. u.d.block[b] = cells
      BY <1>1, <1>4, DiskParts
    <2> QED
      BY <1>2, <1>4, <1>5, <2>1
  <1>13. Owned(Kernel(t), Have(InUse(u)), X \ {b})
    <2>1. PICK m : m = Kernel(u)
      OBVIOUS
    <2>2. PICK n \in Store : n = Kernel(t)
      BY <1>11
    <2>3. /\ n.fl = b /\ n.ino = m.ino /\ n.block[b][1].ino = m.fl
          /\ \A c \in Blocks \ {b} : n.block[c] = m.block[c]
      BY <1>11, <1>12, <2>1, <2>2
    <2>4. Owned(n, Have(InUse(u)), X \ {b})
      BY <1>5, <2>1, <2>3, OwnedFree
    <2> QED
      BY <2>2, <2>4
  <1>14. SameEntries(u.d, t.d)
    BY <1>4, <1>10, DirBlocksStay
  <1>15. Sound(t, X \ {b}) /\ Keeps(u, t) /\ InUse(t) = InUse(u)
    BY <1>4, <1>8, <1>9, <1>10, <1>13, <1>14, InodesStay
  <1>16. \A c \in Blocks \ {b} : t.d.block[c] = s.d.block[c]
    BY <1>1, <1>4, <1>10, DiskParts
  <1> QED
    BY <1>4, <1>9, <1>10, <1>15, <1>16, KeepsOn DEF t

-----------------------------------------------------------------------------
(* bmap()                                                                  *)

\* The cached inode i becomes di, which is not yet on the disk.
Remembered(s, t, i, di) ==
    /\ t \in State
    /\ t.fl = s.fl /\ t.d = s.d /\ t.log = s.log
    /\ t.ic = [s.ic EXCEPT ![i] = [di |-> di, ref |-> s.ic[i].ref, dirty |-> TRUE]]

LEMMA ModifyRemembers ==
    ASSUME NEW s \in State, NEW i \in Inodes, NEW di \in DiskInode
    PROVE  Remembered(s, Modify(s, i, di), i, di)
  <1> DEFINE e == [di |-> di, ref |-> s.ic[i].ref, dirty |-> TRUE]
             t == Modify(s, i, di)
  <1>1. s.ic \in [Inodes -> CacheSlot] /\ s.ic[i].ref \in Nat
    BY StateParts
  <1>2. e \in CacheSlot
    BY <1>1 DEF CacheSlot
  <1>3. t = [s EXCEPT !.ic = [s.ic EXCEPT ![i] = e]]
    BY DEF Modify, State
  <1>4. [s.ic EXCEPT ![i] = e] \in [Inodes -> CacheSlot]
    BY <1>1, <1>2
  <1> HIDE DEF t
  <1>5. t.fl = s.fl /\ t.d = s.d /\ t.log = s.log /\ t.ic = [s.ic EXCEPT ![i] = e] /\ t \in State
    BY <1>3, <1>4 DEF State
  <1> QED
    BY <1>5 DEF Remembered, t

\* A pointer that was 0 changes in the cache.
LEMMA RememberSound ==
    ASSUME NEW s, NEW X, Sound(s, X), NEW i \in Inodes, s.ic[i].ref > 0, NEW di \in DiskInode,
           NEW t, Remembered(s, t, i, di),
           di.type = s.ic[i].di.type, di.nlink = s.ic[i].di.nlink, di.size = s.ic[i].di.size,
           s.ic[i].di.indirect \in {0, di.indirect},
           \A n \in Direct : s.ic[i].di.direct[n] \in {0, di.direct[n]},
           NEW Y, Owned(Kernel(t), Have(InUse(s)), Y)
    PROVE  Sound(t, Y) /\ Keeps(s, t) /\ InUse(t) = InUse(s)
  <1>1. /\ s \in State /\ s.d \in Disk /\ Live(s.d) \in SUBSET Inodes /\ s.d.free_list = s.fl
        /\ Agree(s) /\ Cached(s) /\ TreeOK(s.d)
    BY SoundParts, LiveParts
  <1>2. /\ t \in State /\ t.fl = s.fl /\ t.d = s.d /\ t.log = s.log
        /\ t.ic[i] = [di |-> di, ref |-> s.ic[i].ref, dirty |-> TRUE]
        /\ \A j \in Inodes \ {i} : t.ic[j] = s.ic[j]
    BY <1>1, StateParts DEF Remembered
  <1>3. t.ic[i].di = di /\ t.ic[i].ref = s.ic[i].ref /\ t.ic[i].dirty = TRUE
    BY <1>2
  <1>4. \A j \in Inodes : t.ic[j].ref = s.ic[j].ref
    BY <1>2, <1>3
  <1>5. InUse(t) = InUse(s)
    BY <1>2, <1>4 DEF InUse
  <1>6. /\ Kernel(t).ino[i] = di /\ Kernel(s).ino[i] = s.ic[i].di
        /\ \A j \in Inodes \ {i} : Kernel(t).ino[j] = Kernel(s).ino[j]
    BY <1>2, <1>3, KernelIno
  <1>7. Agree(t)
    <2> SUFFICES ASSUME NEW j \in Live(s.d)
                 PROVE  /\ s.d.inode[j].indirect \in {0, Kernel(t).ino[j].indirect}
                        /\ \A n \in Direct : s.d.inode[j].direct[n] \in {0, Kernel(t).ino[j].direct[n]}
      BY <1>2 DEF Agree
    <2>1. /\ s.d.inode[j].indirect \in {0, Kernel(s).ino[j].indirect}
          /\ \A n \in Direct : s.d.inode[j].direct[n] \in {0, Kernel(s).ino[j].direct[n]}
      BY <1>1 DEF Agree
    <2>2. CASE j = i
      BY <1>6, <2>1, <2>2
    <2>3. CASE j # i
      BY <1>1, <1>6, <2>1, <2>3
    <2> QED
      BY <2>2, <2>3
  <1>8. Cached(t)
    BY <1>1, <1>2, <1>3 DEF Cached
  <1>9. Sound(t, Y)
    BY <1>1, <1>2, <1>5, <1>7, <1>8 DEF Sound
  <1>10. Keeps(s, t)
    <2>1. Leads(s, t) /\ SameEntries(s.d, t.d)
      BY <1>2, LeadsSame, SameDisk
    <2>2. \A j \in Inodes :
            /\ t.ic[j].ref = s.ic[j].ref
            /\ s.ic[j].ref = 0 => t.ic[j] = s.ic[j]
            /\ s.ic[j].ref > 0 => /\ t.ic[j].di.type = s.ic[j].di.type
                                  /\ t.ic[j].di.nlink = s.ic[j].di.nlink
            /\ t.d.inode[j].type = s.d.inode[j].type
            /\ t.d.inode[j].nlink = s.d.inode[j].nlink
      BY <1>2, <1>3
    <2> QED
      BY <2>1, <2>2 DEF Keeps, Steady
  <1> QED
    BY <1>5, <1>9, <1>10

SameBut(S, f, g, n) == \A k \in S \ {n} : f[k] = g[k]

\* A direct pointer takes a new block, if there is one.
DirectGets(s, X, i, n, b, di, t) ==
    /\ Sound(s, X) /\ i \in Inodes /\ s.ic[i].ref > 0
    /\ n \in Direct /\ s.ic[i].di.direct[n] = 0 /\ b \in X \cup {0}
    /\ di \in DiskInode
    /\ di.type = s.ic[i].di.type /\ di.nlink = s.ic[i].di.nlink /\ di.size = s.ic[i].di.size
    /\ di.indirect = s.ic[i].di.indirect /\ di.direct[n] = b
    /\ SameBut(Direct, di.direct, s.ic[i].di.direct, n)
    /\ Remembered(s, t, i, di)
LEMMA DirectTaken ==
    ASSUME NEW s, NEW X, NEW i, NEW n, NEW b, NEW di, NEW t, DirectGets(s, X, i, n, b, di, t)
    PROVE  /\ Sound(t, X \ {b}) /\ Keeps(s, t) /\ InUse(t) = InUse(s)
           /\ At(Kernel(t), <<i, n>>) = b
  <1> DEFINE p == <<i, n>>
             P == Have(InUse(s))
  <1>0. /\ Sound(s, X) /\ i \in Inodes /\ s.ic[i].ref > 0
        /\ n \in Direct /\ s.ic[i].di.direct[n] = 0 /\ b \in X \cup {0}
        /\ di \in DiskInode
        /\ di.type = s.ic[i].di.type /\ di.nlink = s.ic[i].di.nlink /\ di.size = s.ic[i].di.size
        /\ di.indirect = s.ic[i].di.indirect /\ di.direct[n] = b
        /\ \A k \in Direct \ {n} : di.direct[k] = s.ic[i].di.direct[k]
        /\ Remembered(s, t, i, di)
    BY DEF DirectGets, SameBut
  <1> USE <1>0
  <1>1. /\ s \in State /\ X \in SUBSET Blocks /\ Owned(Kernel(s), P, X)
        /\ s.ic[i] \in CacheSlot /\ s.ic[i].di \in DiskInode /\ i \in InUse(s)
        /\ s.ic \in [Inodes -> CacheSlot] /\ Closed(P) /\ InUse(s) \in SUBSET Inodes
        /\ s.ic[i].dirty \in BOOLEAN /\ s.ic[i].ref \in Nat
    BY SoundParts, StateParts DEF InUse
  <1>2. b \in 0..NBLOCKS
    BY <1>1, Sizes
  <1>5. /\ Kernel(t).fl = Kernel(s).fl /\ Kernel(t).block = Kernel(s).block /\ Kernel(t) \in Store
        /\ Kernel(t).ino[i] = di /\ Kernel(s).ino[i] = s.ic[i].di
        /\ \A j \in Inodes \ {i} : Kernel(t).ino[j] = Kernel(s).ino[j]
    <2>1. /\ t \in State /\ t.fl = s.fl /\ t.d = s.d
          /\ t.ic[i] = [di |-> di, ref |-> s.ic[i].ref, dirty |-> TRUE]
          /\ \A j \in Inodes \ {i} : t.ic[j] = s.ic[j]
      BY <1>1 DEF Remembered
    <2>2. t.ic[i].di = di /\ t.ic[i].ref = s.ic[i].ref
      BY <2>1
    <2>3. Kernel(t) \in Store
      BY <2>1, StateParts
    <2> QED
      BY <2>1, <2>2, <2>3, KernelIno
  <1>6. p \in P /\ p[1] = i /\ p[2] = n /\ n < NDIRECT
    BY <1>1, ClosedHave
  <1>7. At(Kernel(s), p) = 0 /\ At(Kernel(t), p) = b
    BY <1>5, <1>6 DEF At
  <1>8. ASSUME NEW r \in P \ {p}
        PROVE  At(Kernel(t), r) = At(Kernel(s), r)
    <2>1. r \in Places /\ r = <<r[1], r[2]>> /\ r[1] \in Inodes
      BY <1>1, ClosedHave
    <2>2. CASE r[1] # i
      BY <1>5, <2>1, <2>2 DEF At
    <2>3. CASE r[1] = i
      <3>1. r[2] # n
        BY <2>1, <2>3
      <3>2. r[2] < NDIRECT => r[2] \in Direct
        BY <2>1, PlaceParts
      <3> QED
        BY <1>5, <2>3, <3>1, <3>2 DEF At
    <2> QED
      BY <2>2, <2>3
  <1> HIDE DEF p, P
  <1>9. Owned(Kernel(t), P, X \ {b})
    <2>1. PICK m : m = Kernel(s)
      OBVIOUS
    <2>2. PICK u \in Store : u = Kernel(t)
      BY <1>5
    <2>3. CASE b \in X
      BY <1>1, <1>5, <1>6, <1>7, <1>8, <2>1, <2>2, <2>3, OwnedTake
    <2>4. CASE b \notin X
      <3>1. b = 0 /\ X \ {b} = X
        BY <2>4
      <3>2. /\ \A r \in P : At(u, r) = At(m, r)
        BY <1>7, <1>8, <2>1, <2>2, <3>1
      <3>3. Taken(u, P) = Taken(m, P) /\ Apart(u, P)
        BY <1>1, <2>1, <3>2 DEF Taken, Apart, Owned
      <3>4. Chain(u, Blocks \ (Taken(m, P) \cup X))
        BY <1>1, <1>5, <2>1, <2>2, ChainSame DEF Owned
      <3> QED
        BY <1>1, <2>1, <2>2, <3>1, <3>3, <3>4 DEF Owned
    <2> QED
      BY <2>3, <2>4
  <1>10. /\ s.ic[i].di.indirect \in {0, di.indirect}
         /\ \A k \in Direct : s.ic[i].di.direct[k] \in {0, di.direct[k]}
    OBVIOUS
  <1>11. Sound(t, X \ {b}) /\ Keeps(s, t) /\ InUse(t) = InUse(s)
    BY <1>9, <1>10, RememberSound DEF P
  <1> QED
    BY <1>7, <1>11 DEF p

\* A place takes a block that nobody has, or stays empty.
LEMMA OwnedPoint ==
    ASSUME NEW m, NEW P, NEW X, Owned(m, P, X), NEW b \in X \cup {0}, NEW p \in P, At(m, p) = 0,
           NEW t \in Store, t.fl = m.fl,
           \A c \in Blocks \ (Taken(m, P) \cup X) : t.block[c] = m.block[c],
           At(t, p) = b, \A r \in P \ {p} : At(t, r) = At(m, r)
    PROVE  Owned(t, P, X \ {b})
  <1>1. CASE b \in X
    BY <1>1, OwnedTake
  <1>2. CASE b \notin X
    <2>1. b = 0 /\ X \ {b} = X
      BY <1>2
    <2>2. \A r \in P : At(t, r) = At(m, r)
      BY <2>1
    <2>3. Taken(t, P) = Taken(m, P) /\ Apart(t, P)
      BY <2>2 DEF Taken, Apart, Owned
    <2>4. Chain(t, Blocks \ (Taken(m, P) \cup X))
      BY ChainSame DEF Owned
    <2> QED
      BY <2>1, <2>3, <2>4 DEF Owned
  <1> QED
    BY <1>1, <1>2

AllZero(cells) == \A c \in 1..CPB : cells[c].ino = 0

\* The inode takes a new indirect block, all of whose pointers are 0.
LEMMA IndirectTaken ==
    ASSUME NEW s, NEW X, Sound(s, X), NEW i \in Inodes, s.ic[i].ref > 0,
           s.ic[i].di.indirect = 0, NEW b \in X, AllZero(s.d.block[b]),
           NEW di \in DiskInode,
           di.type = s.ic[i].di.type, di.nlink = s.ic[i].di.nlink, di.size = s.ic[i].di.size,
           di.direct = s.ic[i].di.direct, di.indirect = b,
           NEW t, Remembered(s, t, i, di)
    PROVE  Sound(t, X \ {b}) /\ Keeps(s, t) /\ InUse(t) = InUse(s)
  <1> DEFINE p == <<i, Final>>
             P == Have(InUse(s))
  <1>1. /\ s \in State /\ X \in SUBSET Blocks /\ Owned(Kernel(s), P, X)
        /\ s.ic[i] \in CacheSlot /\ s.ic[i].di \in DiskInode /\ i \in InUse(s)
        /\ s.ic \in [Inodes -> CacheSlot] /\ Closed(P) /\ InUse(s) \in SUBSET Inodes
    BY SoundParts, StateParts DEF InUse
  <1>2. b \in 0..NBLOCKS /\ b \in Blocks /\ b # 0
    BY <1>1, Sizes
  <1>5. /\ Kernel(t).fl = Kernel(s).fl /\ Kernel(t).block = Kernel(s).block /\ Kernel(t) \in Store
        /\ Kernel(t).ino[i] = di /\ Kernel(s).ino[i] = s.ic[i].di /\ Kernel(s).block = s.d.block
        /\ \A j \in Inodes \ {i} : Kernel(t).ino[j] = Kernel(s).ino[j]
    <2>1. /\ t \in State /\ t.fl = s.fl /\ t.d = s.d
          /\ t.ic[i] = [di |-> di, ref |-> s.ic[i].ref, dirty |-> TRUE]
          /\ \A j \in Inodes \ {i} : t.ic[j] = s.ic[j]
      BY <1>1 DEF Remembered
    <2>2. t.ic[i].di = di /\ t.ic[i].ref = s.ic[i].ref
      BY <2>1
    <2>3. Kernel(t) \in Store
      BY <2>1, StateParts
    <2> QED
      BY <2>1, <2>2, <2>3, KernelIno
  <1>6. p \in P /\ p[1] = i /\ p[2] = Final /\ ~(Final < NDIRECT)
    BY <1>1, ClosedHave, PlaceParts
  <1>7. At(Kernel(s), p) = 0 /\ At(Kernel(t), p) = b
    BY <1>5, <1>6 DEF At
  <1>8. ASSUME NEW r \in P \ {p}
        PROVE  At(Kernel(t), r) = At(Kernel(s), r)
    <2>1. r \in Places /\ r = <<r[1], r[2]>> /\ r[1] \in Inodes /\ r[2] \in Nat
      BY <1>1, ClosedHave, PlaceParts
    <2>2. CASE r[1] # i
      BY <1>5, <2>1, <2>2 DEF At
    <2>3. CASE r[1] = i
      <3>1. r[2] # Final
        BY <2>1, <2>3
      <3>2. CASE r[2] < NDIRECT
        BY <1>5, <2>3, <3>2 DEF At
      <3>3. CASE ~(r[2] < NDIRECT)
        <4>1. r[2] - NDIRECT + 1 \in 1..CPB
          BY <2>1, <3>1, <3>3, PlaceParts
        <4>2. At(Kernel(t), r) = 0
          BY <1>2, <1>5, <2>3, <3>1, <3>3, <4>1 DEF At, AllZero
        <4>3. At(Kernel(s), r) = 0
          BY <1>5, <2>3, <3>1, <3>3 DEF At
        <4> QED
          BY <4>2, <4>3
      <3> QED
        BY <3>2, <3>3
    <2> QED
      BY <2>2, <2>3
  <1> HIDE DEF p, P
  <1>9. Owned(Kernel(t), P, X \ {b})
    <2>1. PICK m : m = Kernel(s)
      OBVIOUS
    <2>2. PICK u \in Store : u = Kernel(t)
      BY <1>5
    <2>3. b \in X \cup {0}
      OBVIOUS
    <2> QED
      BY <1>1, <1>5, <1>6, <1>7, <1>8, <2>1, <2>2, <2>3, OwnedPoint
  <1>10. /\ s.ic[i].di.indirect \in {0, di.indirect}
         /\ \A k \in Direct : s.ic[i].di.direct[k] \in {0, di.direct[k]}
    OBVIOUS
  <1>11. Sound(t, X \ {b}) /\ Keeps(s, t) /\ InUse(t) = InUse(s)
    BY <1>9, <1>10, RememberSound DEF P
  <1> QED
    BY <1>11

\* A word of the indirect block takes a new block, if there is one.
WordGets(s, X, i, ib, n, b, cells) ==
    /\ Sound(s, X) /\ i \in Inodes /\ s.ic[i].ref > 0
    /\ ib = s.ic[i].di.indirect /\ ib # 0
    /\ n \in Slots /\ ~(n < NDIRECT) /\ n # Final
    /\ At(Kernel(s), <<i, n>>) = 0 /\ b \in X \cup {0}
    /\ cells \in [1..CPB -> Cell] /\ cells[n - NDIRECT + 1].ino = b
    /\ SameBut(1..CPB, cells, s.d.block[ib], n - NDIRECT + 1)
LEMMA WordTaken ==
    ASSUME NEW s, NEW X, NEW i, NEW ib, NEW n, NEW b, NEW cells,
           WordGets(s, X, i, ib, n, b, cells)
    PROVE  LET t == WriteBlock(s, ib, cells)
           IN  /\ Sound(t, X \ {b}) /\ Keeps(s, t) /\ InUse(t) = InUse(s)
               /\ At(Kernel(t), <<i, n>>) = b
               /\ t.ic = s.ic /\ t.d.inode = s.d.inode
  <1> DEFINE c == n - NDIRECT + 1
             w == [at |-> "block", n |-> ib, v |-> cells]
             t == WriteBlock(s, ib, cells)
             m == Kernel(s)
             P == Have(InUse(s))
             l == <<i, Final>>
             p == <<i, n>>
  <1>0. /\ Sound(s, X) /\ i \in Inodes /\ s.ic[i].ref > 0
        /\ ib = s.ic[i].di.indirect /\ ib # 0
        /\ n \in Slots /\ ~(n < NDIRECT) /\ n # Final
        /\ At(Kernel(s), <<i, n>>) = 0 /\ b \in X \cup {0}
        /\ cells \in [1..CPB -> Cell] /\ cells[n - NDIRECT + 1].ino = b
        /\ SameBut(1..CPB, cells, s.d.block[ib], n - NDIRECT + 1)
    BY DEF WordGets
  <1> USE <1>0
  <1>1. /\ s \in State /\ s.d \in Disk /\ m \in Store /\ s.d.free_list = s.fl
        /\ Owned(m, P, X) /\ InUse(s) \in SUBSET Inodes /\ Live(s.d) \subseteq InUse(s)
        /\ m.fl = s.fl /\ m.block = s.d.block /\ X \in SUBSET Blocks /\ Closed(P)
        /\ i \in InUse(s) /\ m.ino[i] = s.ic[i].di
    BY SoundParts, KernelIno, Zenon DEF Kernel, InUse
  <1>2. Apart(m, P) /\ X \in SUBSET (Blocks \ Taken(m, P))
    BY <1>1 DEF Owned
  <1>3. /\ p \in P /\ l \in P /\ p \in Places /\ l \in Places /\ p # l
        /\ p[1] = i /\ p[2] = n /\ l[1] = i /\ l[2] = Final /\ ~(Final < NDIRECT)
    BY <1>1, ClosedHave, PlaceParts
  <1> HIDE DEF P, l, p
  <1>4. c \in 1..CPB
    BY <1>3, PlaceParts
  <1>5. At(m, l) = ib /\ ib \in 0..NBLOCKS /\ ib \in Blocks
    <2>1. At(m, l) = ib
      BY <1>1, <1>3, Zenon DEF At
    <2>2. At(m, l) \in 0..NBLOCKS
      BY <1>2, <1>3 DEF Apart
    <2> QED
      BY <2>1, <2>2, Sizes
  <1>6. b \in 0..NBLOCKS
    BY <1>1, Sizes
  <1>7. /\ cells \in [1..CPB -> Cell] /\ cells[c].ino = b
        /\ \A k \in 1..CPB \ {c} : cells[k] = s.d.block[ib][k]
    BY DEF SameBut
  <1>8. m.block[ib][c].ino = 0
    BY <1>1, <1>3, Zenon DEF At
  <1> HIDE DEF m
  <1>9. /\ w \in Writes /\ Perform(s.d, w).free_list = s.d.free_list
        /\ Perform(s.d, w).inode = s.d.inode
        /\ Perform(s.d, w).block = [s.d.block EXCEPT ![ib] = cells]
    BY <1>1, <1>5, BlockWrite, Zenon
  <1>10. t = Write(s, w)
    BY Written
  <1> HIDE DEF w, t, c
  <1>11. /\ t \in State /\ t.fl = s.fl /\ t.ic = s.ic /\ t.d = Perform(s.d, w)
         /\ t.log = Append(s.log, w)
    BY <1>1, <1>9, <1>10, WriteEffect
  <1>12. /\ t.d \in Disk /\ t.d.inode = s.d.inode /\ t.d.free_list = t.fl
         /\ t.d.block[ib] = cells
         /\ \A x \in Blocks \ {ib} : t.d.block[x] = s.d.block[x]
    BY <1>1, <1>5, <1>9, <1>11, StateParts, DiskParts
  <1>13. /\ Kernel(t) \in Store /\ Kernel(t).fl = m.fl /\ Kernel(t).ino = m.ino
         /\ Kernel(t).block = t.d.block
    <2>1. Kernel(t) \in Store
      BY <1>11, StateParts
    <2> QED
      BY <1>11, <1>12, <2>1 DEF Kernel, m
  <1>14. At(Kernel(t), p) = b
    <2>1. At(Kernel(t), p) = Kernel(t).block[Kernel(t).ino[i].indirect][n - NDIRECT + 1].ino
      <3> HIDE DEF m
      <3> QED
        BY <1>1, <1>3, <1>13, Zenon DEF At
    <2>2. Kernel(t).ino[i].indirect = ib /\ Kernel(t).block[ib] = cells
      BY <1>1, <1>12, <1>13, Zenon
    <2> QED
      BY <2>1, <2>2
  <1>15. ASSUME NEW r \in P \ {p}
         PROVE  At(Kernel(t), r) = At(m, r)
    <2>1. r \in Places /\ r = <<r[1], r[2]>> /\ r[1] \in Inodes /\ r[2] \in Nat
      BY <1>1, ClosedHave, PlaceParts DEF P
    <2>2. CASE r[2] < NDIRECT \/ r[2] = Final
      BY <1>13, <2>1, <2>2, Zenon DEF At
    <2>3. CASE ~(r[2] < NDIRECT) /\ r[2] # Final
      <3>1. PICK k : k = r[2] - NDIRECT + 1
        OBVIOUS
      <3>2. k \in 1..CPB
        BY <2>1, <2>3, <3>1, PlaceParts
      <3>3. /\ At(Kernel(t), r) = IF m.ino[r[1]].indirect = 0 THEN 0
                                  ELSE t.d.block[m.ino[r[1]].indirect][k].ino
            /\ At(m, r) = IF m.ino[r[1]].indirect = 0 THEN 0
                          ELSE s.d.block[m.ino[r[1]].indirect][k].ino
        BY <1>1, <1>13, <2>3, <3>1, Zenon DEF At
      <3>4. CASE r[1] = i
        <4>1. r[2] # n
          BY <2>1, <3>4 DEF p
        <4>2. k # c
          <5>1. n \in Nat /\ NDIRECT \in Nat
            BY Sizes DEF Slots
          <5> QED
            BY <2>1, <3>1, <4>1, <5>1 DEF c
        <4>3. m.ino[r[1]].indirect = ib
          BY <1>1, <3>4
        <4> QED
          BY <1>7, <1>12, <3>2, <3>3, <4>2, <4>3, Zenon
      <3>5. CASE r[1] # i /\ m.ino[r[1]].indirect # 0
        <4>1. PICK q : q = <<r[1], Final>>
          OBVIOUS
        <4>2. q \in P /\ q[1] = r[1] /\ q[2] = Final /\ q # l
          <5>1. q \in P
            BY <1>1, <2>1, <2>3, <4>1, PlaceParts DEF Closed
          <5> QED
            BY <3>5, <4>1, <5>1 DEF l
        <4>3. At(m, q) = m.ino[r[1]].indirect
          BY <1>3, <4>2 DEF At
        <4>4. At(m, q) \in 0..NBLOCKS /\ At(m, q) # ib
          BY <1>2, <1>3, <1>5, <4>2 DEF Apart
        <4>5. m.ino[r[1]].indirect \in Blocks \ {ib}
          BY <3>5, <4>3, <4>4, Sizes
        <4>6. t.d.block[m.ino[r[1]].indirect] = s.d.block[m.ino[r[1]].indirect]
          BY <1>12, <4>5, Zenon
        <4> HIDE DEF m, p, l, P
        <4> QED
          BY <3>3, <3>5, <4>6, Zenon
      <3>6. CASE m.ino[r[1]].indirect = 0
        BY <3>3, <3>6
      <3> QED
        BY <3>4, <3>5, <3>6
    <2> QED
      BY <2>2, <2>3
  <1>16. Owned(Kernel(t), P, X \ {b})
    <2>1. ib \in Taken(m, P)
      BY <1>3, <1>5, Sizes DEF Taken
    <2>2. \A x \in Blocks \ (Taken(m, P) \cup X) : Kernel(t).block[x] = m.block[x]
      BY <1>1, <1>12, <1>13, <2>1
    <2>3. PICK u \in Store : u = Kernel(t)
      BY <1>13
    <2>4. At(m, p) = 0
      BY DEF m, p
    <2> HIDE DEF m, P, p
    <2> QED
      BY <1>1, <1>3, <1>13, <1>14, <1>15, <2>2, <2>3, <2>4, OwnedPoint
  \* On the disk, the word may be seen, if the disk has the indirect block.
  <1>17. SameEntries(s.d, t.d)
    <2>1. /\ Dirs(t.d) = Dirs(s.d) /\ Dirs(s.d) \subseteq Live(s.d) /\ TreeOK(s.d)
          /\ Live(s.d) \subseteq Inodes
      BY <1>1, <1>12, LiveParts, SoundParts, Zenon DEF Dirs, Live
    <2>2. ASSUME NEW j \in Dirs(s.d), NEW k \in Slots, k # Final, At(OnDisk(s.d), <<j, k>>) # 0
          PROVE  /\ At(OnDisk(t.d), <<j, k>>) = At(OnDisk(s.d), <<j, k>>)
                 /\ t.d.block[At(OnDisk(s.d), <<j, k>>)] = s.d.block[At(OnDisk(s.d), <<j, k>>)]
      <3>1. PICK r : r = <<j, k>>
        OBVIOUS
      <3>2. /\ At(OnDisk(s.d), r) = At(m, r) /\ r \in P /\ r[1] = j /\ r[2] = k
            /\ At(m, r) \in 0..NBLOCKS /\ j \in Inodes /\ r \in Places
            /\ s.d.inode[j].indirect \in {0, m.ino[j].indirect} /\ <<j, Final>> \in P
        <4>1. Agree(s) /\ j \in Live(s.d) /\ j \in InUse(s) /\ j \in Inodes
          BY <1>1, <2>1, SoundParts
        <4>2. s.d.inode[j].indirect \in {0, m.ino[j].indirect}
          BY <4>1, Zenon DEF Agree, m
        <4>3. /\ r \in P /\ <<j, Final>> \in P /\ r \in Places
          BY <1>1, <3>1, <4>1, ClosedHave DEF P
        <4>4. At(OnDisk(s.d), r) \in {0, At(m, r)} /\ At(m, r) \in 0..NBLOCKS
          BY <3>1, <4>1, DiskPlaces DEF m
        <4> QED
          BY <2>2, <3>1, <4>1, <4>2, <4>3, <4>4
      <3>3. At(m, r) # ib /\ At(m, r) # 0 /\ r # p
        <4>1. At(m, p) = 0
          BY DEF m, p
        <4> QED
          BY <1>2, <1>3, <1>5, <2>2, <3>1, <3>2, <4>1 DEF Apart
      <3>4. At(m, r) \in Blocks \ {ib}
        BY <3>2, <3>3, Sizes
      <3>5. At(OnDisk(t.d), r) = At(OnDisk(s.d), r)
        <4>1. /\ OnDisk(t.d).ino = s.d.inode /\ OnDisk(s.d).ino = s.d.inode
              /\ OnDisk(t.d).block = t.d.block /\ OnDisk(s.d).block = s.d.block
          BY <1>12 DEF OnDisk
        <4>2. CASE k < NDIRECT
          BY <3>2, <4>1, <4>2, Zenon DEF At
        <4>3. CASE ~(k < NDIRECT)
          <5>1. PICK x : x = k - NDIRECT + 1
            OBVIOUS
          <5>2. x \in 1..CPB
            BY <2>2, <3>2, <4>3, <5>1, PlaceParts
          <5>3. /\ At(OnDisk(t.d), r) = IF s.d.inode[j].indirect = 0 THEN 0
                                        ELSE t.d.block[s.d.inode[j].indirect][x].ino
                /\ At(OnDisk(s.d), r) = IF s.d.inode[j].indirect = 0 THEN 0
                                        ELSE s.d.block[s.d.inode[j].indirect][x].ino
            BY <2>2, <3>2, <4>1, <4>3, <5>1, Zenon DEF At
          <5>4. s.d.inode[j].indirect # 0 /\ s.d.inode[j].indirect = m.ino[j].indirect
            BY <2>2, <3>1, <3>2, <5>3, Zenon
          <5>5. At(Kernel(t), r) = At(m, r)
            BY <1>15, <3>2, <3>3
          <5>6. /\ At(Kernel(t), r) = t.d.block[m.ino[j].indirect][x].ino
                /\ At(m, r) = s.d.block[m.ino[j].indirect][x].ino
            BY <1>1, <1>13, <2>2, <3>2, <4>3, <5>1, <5>4, Zenon DEF At
          <5> QED
            BY <5>3, <5>4, <5>5, <5>6, Zenon
        <4> QED
          BY <4>2, <4>3
      <3> QED
        BY <1>12, <3>1, <3>2, <3>4, <3>5
    <2> QED
      BY <1>1, <1>12, <2>1, <2>2, EntriesStay
  <1>18. Sound(t, X \ {b}) /\ Keeps(s, t) /\ InUse(t) = InUse(s)
    BY <1>9, <1>11, <1>12, <1>16, <1>17, InodesStay DEF P
  <1> QED
    BY <1>11, <1>12, <1>14, <1>18, Zenon DEF t, p

\* Only the pointers of inode i change, and on the disk no inode does.
Others(s, t, i) ==
    /\ t.d.inode = s.d.inode
    /\ \A j \in Inodes \ {i} : t.ic[j] = s.ic[j]
    /\ t.ic[i].di.size = s.ic[i].di.size

LEMMA OthersOn ==
    ASSUME NEW s, NEW t, NEW u, NEW i, Others(s, t, i), Others(t, u, i)
    PROVE  Others(s, u, i)
  BY DEF Others

LEMMA ModifyOthers ==
    ASSUME NEW s \in State, NEW i \in Inodes, NEW di \in DiskInode, di.size = s.ic[i].di.size
    PROVE  Others(s, Modify(s, i, di), i) /\ Modify(s, i, di).ic[i].di = di
  <1> DEFINE t == Modify(s, i, di)
             e == [di |-> di, ref |-> s.ic[i].ref, dirty |-> TRUE]
  <1>1. s.ic \in [Inodes -> CacheSlot]
    BY StateParts
  <1>2. t.d = s.d /\ t.ic = [s.ic EXCEPT ![i] = e] /\ e.di = di
    BY ModifyRemembers DEF Remembered
  <1> HIDE DEF e, t
  <1>3. t.ic[i] = e /\ \A j \in Inodes \ {i} : t.ic[j] = s.ic[j]
    BY <1>1, <1>2
  <1>4. t.ic[i].di = di
    BY <1>2, <1>3
  <1> QED
    BY <1>2, <1>3, <1>4 DEF Others, t

LEMMA MappedAt ==
    ASSUME NEW s, NEW i \in Inodes, s.ic[i].ref > 0, NEW bn \in Nat
    PROVE  Mapped(s, i, bn) = IF bn < Final THEN At(Kernel(s), <<i, bn>>) ELSE 0
  <1>1. /\ Kernel(s).ino[i] = s.ic[i].di /\ Kernel(s).block = s.d.block
        /\ Final = NDIRECT + CPB /\ CPB \in Nat /\ NDIRECT \in Nat
        /\ <<i, bn>>[1] = i /\ <<i, bn>>[2] = bn
    BY KernelIno, Sizes DEF Final
  <1>2. CASE bn < NDIRECT
    BY <1>1, <1>2 DEF Mapped, At
  <1>3. CASE ~(bn < NDIRECT) /\ bn < Final /\ s.ic[i].di.indirect # 0
    <2>1. bn # Final
      BY <1>1, <1>3
    <2>2. bn < NDIRECT + CPB
      BY <1>1, <1>3
    <2> QED
      BY <1>1, <1>3, <2>1, <2>2 DEF Mapped, At
  <1>4. CASE ~(bn < NDIRECT) /\ bn < Final /\ s.ic[i].di.indirect = 0
    <2>1. bn # Final
      BY <1>1, <1>4
    <2> QED
      BY <1>1, <1>4, <2>1 DEF Mapped, At
  <1>5. CASE ~(bn < Final)
    <2>1. ~(bn < NDIRECT + CPB) /\ ~(bn < NDIRECT)
      BY <1>1, <1>5
    <2> QED
      BY <1>5, <2>1 DEF Mapped
  <1> QED
    BY <1>2, <1>3, <1>4, <1>5

\* r is what bmap() makes of s, for the bn-th block of inode i.
Found(s, X, i, bn, r) ==
    /\ Sound(r.s, X) /\ Keeps(s, r.s) /\ InUse(r.s) = InUse(s) /\ Others(s, r.s, i)
    /\ r.blk # 0 => bn < Final /\ r.blk = At(Kernel(r.s), <<i, bn>>)

LEMMA KeepsRef ==
    ASSUME NEW s, NEW t, Keeps(s, t), NEW i \in Inodes
    PROVE  t.ic[i].ref = s.ic[i].ref
  BY DEF Keeps, Steady

LEMMA SameOthers ==
    ASSUME NEW s, NEW t, NEW i, t.ic = s.ic, t.d.inode = s.d.inode
    PROVE  Others(s, t, i)
  BY DEF Others

\* balloc(), where there may be no block left: b is the block, t the state.
LEMMA AllocMaybe ==
    ASSUME NEW s, NEW X, Sound(s, X), NEW i
    PROVE  /\ Sound(balloc(s), X \cup ({s.fl} \ {0})) /\ Keeps(s, balloc(s))
           /\ InUse(balloc(s)) = InUse(s) /\ Others(s, balloc(s), i)
           /\ Kernel(balloc(s)).ino = Kernel(s).ino /\ balloc(s).ic = s.ic
           /\ balloc(s).d.block = s.d.block
           /\ s.fl \in (X \cup ({s.fl} \ {0})) \cup {0}
           /\ (X \cup ({s.fl} \ {0})) \ {s.fl} = X
           /\ \A p \in Have(InUse(s)) : At(Kernel(balloc(s)), p) = At(Kernel(s), p)
  <1>1. CASE s.fl = 0
    <2>1. balloc(s) = s
      BY <1>1 DEF balloc
    <2>2. X \cup ({s.fl} \ {0}) = X
      BY <1>1
    <2>3. 0 \notin X
      BY SoundParts, Sizes
    <2>4. Keeps(s, s) /\ Others(s, s, i)
      BY KeepsSelf DEF Others
    <2>5. X \ {0} = X /\ s.fl \in X \cup {0}
      BY <1>1, <2>3
    <2> QED
      BY <1>1, <2>1, <2>2, <2>4, <2>5
  <1>2. CASE s.fl # 0
    <2>1. {s.fl} \ {0} = {s.fl}
      BY <1>2
    <2> DEFINE t == balloc(s)
    <2>2. /\ Sound(t, X \cup {s.fl}) /\ Keeps(s, t) /\ InUse(t) = InUse(s)
          /\ Kernel(t).ino = Kernel(s).ino
          /\ t.ic = s.ic /\ t.d.block = s.d.block /\ t.d.inode = s.d.inode
          /\ s.fl \in Blocks \ X
      BY <1>2, AllocSound
    <2> HIDE DEF t
    <2>3. (X \cup {s.fl}) \ {s.fl} = X
      BY <2>2
    <2>4. Kernel(t).block = Kernel(s).block
      BY <2>2 DEF Kernel
    <2>5. \A p \in Have(InUse(s)) : At(Kernel(t), p) = At(Kernel(s), p)
      BY <2>2, <2>4 DEF At
    <2>6. Others(s, t, i)
      BY <2>2, SameOthers
    <2> QED
      BY <2>1, <2>2, <2>3, <2>5, <2>6 DEF t
  <1> QED
    BY <1>1, <1>2

\* The inode gets an indirect block, if there is a block.
LEMMA WithIndirectSound ==
    ASSUME NEW s, NEW X, Sound(s, X), NEW i \in Inodes, s.ic[i].ref > 0
    PROVE  LET t == WithIndirect(s, i)
           IN  /\ Sound(t, X) /\ Keeps(s, t) /\ InUse(t) = InUse(s) /\ Others(s, t, i)
               /\ s.ic[i].di.indirect = 0 /\ t.ic[i].di.indirect # 0 =>
                     \A n \in Slots : ~(n < NDIRECT) /\ n # Final => At(Kernel(t), <<i, n>>) = 0
               /\ s.ic[i].di.indirect # 0 => t = s
  <1>1. CASE s.ic[i].di.indirect # 0 \/ s.fl = 0
    <2>1. WithIndirect(s, i) = s
      BY <1>1 DEF WithIndirect
    <2> QED
      BY <1>1, <2>1, KeepsSelf DEF Others
  <1>2. CASE ~(s.ic[i].di.indirect # 0 \/ s.fl = 0)
    <2> DEFINE a == balloc(s)
               b == s.fl
               u == WriteBlock(a, b, ZeroBlock)
               di == [s.ic[i].di EXCEPT !.indirect = b]
               t == Modify(u, i, di)
    <2>1. WithIndirect(s, i) = t
      BY <1>2 DEF WithIndirect
    <2>2. /\ Sound(a, X \cup {b}) /\ Keeps(s, a) /\ InUse(a) = InUse(s)
          /\ a.ic = s.ic /\ a.d.inode = s.d.inode /\ b \in Blocks \ X
      BY <1>2, AllocSound
    <2> HIDE DEF a
    <2>3. /\ Sound(u, X \cup {b}) /\ Keeps(a, u) /\ InUse(u) = InUse(a)
          /\ u.ic = a.ic /\ u.d.block = [a.d.block EXCEPT ![b] = ZeroBlock]
          /\ u.d.inode = a.d.inode
      BY <2>2, Sizes, WriteBlockSound
    <2> HIDE DEF u
    <2>4. a.d.block \in [Blocks -> [1..CPB -> Cell]]
      BY <2>2, SoundParts, DiskParts
    <2>5. u.d.block[b] = ZeroBlock
      BY <2>2, <2>3, <2>4
    <2>6. \A c \in 1..CPB : u.d.block[b][c].ino = 0
      BY <2>5, Sizes
    <2>7. /\ u \in State /\ u.ic[i] = s.ic[i] /\ u.ic[i].di \in DiskInode
          /\ di = [u.ic[i].di EXCEPT !.indirect = b] /\ b \in X \cup {b}
      BY <2>2, <2>3, SoundParts, StateParts
    <2>9. (X \cup {b}) \ {b} = X
      BY <2>2
    <2>10. /\ di \in DiskInode /\ di.size = u.ic[i].di.size /\ di.type = u.ic[i].di.type
           /\ di.nlink = u.ic[i].di.nlink /\ di.direct = u.ic[i].di.direct /\ di.indirect = b
      BY <2>2, <2>7, Sizes DEF DiskInode
    <2> HIDE DEF di
    <2>11. Others(u, t, i) /\ Remembered(u, t, i, di) /\ t.ic[i].di = di
      <3> HIDE DEF b
      <3>1. u \in State /\ di \in DiskInode /\ di.size = u.ic[i].di.size
        BY <2>7, <2>10
      <3>2. Others(u, t, i) /\ t.ic[i].di = di
        BY <3>1, ModifyOthers
      <3>3. Remembered(u, t, i, di)
        BY <3>1, ModifyRemembers
      <3> QED
        BY <3>2, <3>3
    <2>8. Sound(t, (X \cup {b}) \ {b}) /\ Keeps(u, t) /\ InUse(t) = InUse(u)
      <3> HIDE DEF t
      <3>1. u.ic[i].di.indirect = 0 /\ u.ic[i].ref > 0
        BY <1>2, <2>7
      <3>2. PICK Y : Y = X \cup {b}
        OBVIOUS
      <3> HIDE DEF b
      <3>3. Sound(u, Y) /\ b \in Y
        BY <2>3, <3>2
      <3>4. Sound(t, Y \ {b}) /\ Keeps(u, t) /\ InUse(t) = InUse(u)
        <4>1. AllZero(u.d.block[b])
          BY <2>6 DEF AllZero
        <4> QED
          BY <2>10, <2>11, <3>1, <3>3, <4>1, IndirectTaken
      <3> QED
        BY <3>2, <3>4
    <2> HIDE DEF t
    <2>12. t.d = u.d
      BY <2>11 DEF Remembered
    <2>13. t.ic[i].ref > 0 /\ b # 0
      <3>1. u.ic[i].ref = s.ic[i].ref
        BY <2>7
      <3> QED
        BY <2>2, <2>8, <3>1, KeepsRef, Sizes
    <2>14. ASSUME NEW n \in Slots, ~(n < NDIRECT), n # Final
           PROVE  At(Kernel(t), <<i, n>>) = 0
      <3> HIDE DEF t
      <3>1. Kernel(t).ino[i] = t.ic[i].di /\ Kernel(t).block = u.d.block
        BY <2>12, <2>13, KernelIno
      <3>2. <<i, n>> \in Places /\ <<i, n>>[1] = i /\ <<i, n>>[2] = n
        BY DEF Places
      <3>3. n - NDIRECT + 1 \in 1..CPB
        BY <2>14, <3>2, PlaceParts
      <3>4. At(Kernel(t), <<i, n>>) = u.d.block[b][n - NDIRECT + 1].ino
        BY <2>10, <2>11, <2>13, <2>14, <3>1, <3>2 DEF At
      <3> QED
        BY <2>6, <3>3, <3>4
    <2>15. Keeps(s, t)
      BY <2>2, <2>3, <2>8, KeepsOn
    <2>16. Others(s, t, i)
      BY <2>2, <2>3, <2>11, SameOthers, OthersOn
    <2> HIDE DEF t
    <2> QED
      BY <1>2, <2>1, <2>2, <2>3, <2>8, <2>9, <2>10, <2>11, <2>14, <2>15, <2>16 DEF t, di
  <1> QED
    BY <1>1, <1>2

LEMMA bmapSound ==
    ASSUME NEW s, NEW X, Sound(s, X), NEW i \in Inodes, s.ic[i].ref > 0, NEW bn \in Nat
    PROVE  /\ Found(s, X, i, bn, bmap(s, i, bn))
           /\ bn < Final /\ At(Kernel(s), <<i, bn>>) # 0 =>
                 bmap(s, i, bn) = [s |-> s, blk |-> At(Kernel(s), <<i, bn>>)]
  <1>1. /\ Final = NDIRECT + CPB /\ CPB \in Nat /\ NDIRECT \in Nat /\ Final \in Nat
        /\ bn < Final => bn \in Slots
        /\ bn < NDIRECT => bn \in Direct /\ bn < Final
    BY Sizes DEF Final, Slots, Direct
  <1>2. Mapped(s, i, bn) = IF bn < Final THEN At(Kernel(s), <<i, bn>>) ELSE 0
    BY MappedAt
  <1>3. Keeps(s, s) /\ Others(s, s, i)
    BY KeepsSelf DEF Others
  <1>4. CASE Mapped(s, i, bn) # 0 \/ bn >= NDIRECT + CPB
    <2>1. bmap(s, i, bn) = [s |-> s, blk |-> Mapped(s, i, bn)]
      BY <1>4 DEF bmap
    <2>2. Found(s, X, i, bn, bmap(s, i, bn))
      BY <1>2, <1>3, <2>1 DEF Found
    <2> QED
      BY <1>2, <2>1, <2>2
  <1>5. CASE ~(Mapped(s, i, bn) # 0 \/ bn >= NDIRECT + CPB)
    <2>1. Mapped(s, i, bn) = 0 /\ bn < Final /\ At(Kernel(s), <<i, bn>>) = 0
      BY <1>1, <1>2, <1>5
    <2>2. CASE bn < NDIRECT
      <3> DEFINE a == balloc(s)
                 b == s.fl
                 Y == X \cup ({b} \ {0})
                 di == [a.ic[i].di EXCEPT !.direct[bn] = b]
                 t == Modify(a, i, di)
      <3>1. bmap(s, i, bn) = [s |-> t, blk |-> b]
        <4>1. a.ic = s.ic
          BY AllocMaybe
        <4>2. di = [s.ic[i].di EXCEPT !.direct[bn] = b]
          BY <4>1
        <4>3. bmap(s, i, bn) = [s |-> Modify(a, i, [s.ic[i].di EXCEPT !.direct[bn] = b]),
                                blk |-> b]
          BY <1>5, <2>2 DEF bmap
        <4> HIDE DEF di, a, b
        <4> QED
          BY <4>2, <4>3
      <3>2. /\ Sound(a, Y) /\ Keeps(s, a) /\ InUse(a) = InUse(s) /\ Others(s, a, i)
            /\ a.ic = s.ic /\ b \in Y \cup {0} /\ Y \ {b} = X
        BY AllocMaybe
      <3> HIDE DEF a, Y
      <3> HIDE DEF b
      <3>3. /\ a \in State /\ a.ic[i].di \in DiskInode /\ a.ic[i].ref > 0
            /\ b \in 0..NBLOCKS
        <4>1. a \in State /\ Y \in SUBSET Blocks
          BY <3>2, SoundParts
        <4>2. a.ic[i].di \in DiskInode /\ a.ic[i].ref > 0
          BY <3>2, <4>1, StateParts
        <4> QED
          BY <3>2, <4>1, <4>2, Sizes
      <3>4. a.ic[i].di.direct[bn] = 0
        <4>1. At(Kernel(s), <<i, bn>>) = s.ic[i].di.direct[bn]
          BY <2>2, KernelIno DEF At
        <4> QED
          BY <2>1, <3>2, <4>1
      <3>6. /\ di \in DiskInode /\ di.size = a.ic[i].di.size /\ di.type = a.ic[i].di.type
            /\ di.nlink = a.ic[i].di.nlink /\ di.indirect = a.ic[i].di.indirect
            /\ di.direct[bn] = b
            /\ SameBut(Direct, di.direct, a.ic[i].di.direct, bn)
        BY <1>1, <2>2, <3>3 DEF DiskInode, SameBut
      <3> HIDE DEF di
      <3>7. Others(a, t, i) /\ Remembered(a, t, i, di)
        BY <3>3, <3>6, ModifyOthers, ModifyRemembers
      <3> HIDE DEF t
      <3>5. /\ Sound(t, Y \ {b}) /\ Keeps(a, t) /\ InUse(t) = InUse(a)
            /\ At(Kernel(t), <<i, bn>>) = b
        <4>1. Sound(a, Y) /\ a.ic[i].ref > 0 /\ bn \in Direct /\ b \in Y \cup {0}
          BY <1>1, <2>2, <3>2, <3>3
        <4> QED
          <5>1. DirectGets(a, Y, i, bn, b, di, t)
            BY <3>4, <3>6, <3>7, <4>1 DEF DirectGets
          <5> QED
            BY <5>1, DirectTaken
      <3>8. Keeps(s, t) /\ Others(s, t, i)
        BY <3>2, <3>5, <3>7, KeepsOn, OthersOn
      <3>9. Found(s, X, i, bn, [s |-> t, blk |-> b])
        BY <2>1, <3>2, <3>5, <3>8 DEF Found
      <3> QED
        BY <2>1, <3>1, <3>9 DEF b
    <2>3. CASE ~(bn < NDIRECT)
      <3> DEFINE u == WithIndirect(s, i)
                 ib == u.ic[i].di.indirect
                 a == balloc(u)
                 b == u.fl
                 Y == X \cup ({b} \ {0})
                 cells == [a.d.block[ib] EXCEPT ![bn - NDIRECT + 1] = Link(b)]
                 t == WriteBlock(a, ib, cells)
      <3>1. /\ Sound(u, X) /\ Keeps(s, u) /\ InUse(u) = InUse(s) /\ Others(s, u, i)
            /\ s.ic[i].di.indirect = 0 /\ ib # 0 =>
                  \A n \in Slots : ~(n < NDIRECT) /\ n # Final => At(Kernel(u), <<i, n>>) = 0
            /\ s.ic[i].di.indirect # 0 => u = s
        BY WithIndirectSound
      <3>2. CASE ib = 0
        <4>1. bmap(s, i, bn) = [s |-> u, blk |-> 0]
          BY <1>5, <2>3, <3>2 DEF bmap
        <4>2. Found(s, X, i, bn, bmap(s, i, bn))
          BY <3>1, <4>1 DEF Found
        <4> QED
          BY <2>1, <4>2
      <3>3. CASE ib # 0
        <4>1. u.ic[i].ref > 0
          BY <3>1, KeepsRef
        <4>2. a.ic = u.ic
          BY <3>1, AllocMaybe
        <4>20. u.buf = "kept"
          BY <3>1, SoundParts, StateParts
        <4>3. bmap(s, i, bn) = [s |-> t, blk |-> b]
          BY <1>5, <2>3, <3>3, <4>2, <4>20 DEF bmap
        <4> HIDE DEF u
        <4>4. /\ Sound(a, Y) /\ Keeps(u, a) /\ InUse(a) = InUse(u) /\ Others(u, a, i)
              /\ b \in Y \cup {0} /\ Y \ {b} = X
              /\ \A p \in Have(InUse(u)) : At(Kernel(a), p) = At(Kernel(u), p)
          BY <3>1, AllocMaybe
        <4> HIDE DEF a, Y
        <4>5. bn \in Slots /\ bn # Final
          BY <1>1, <2>1
        <4>6. At(Kernel(u), <<i, bn>>) = 0
          BY <2>1, <2>3, <3>1, <3>3, <4>5
        <4>7. <<i, bn>> \in Have(InUse(u))
          BY <4>1, <4>5 DEF Have, InUse
        <4>8. At(Kernel(a), <<i, bn>>) = 0
          BY <4>4, <4>6, <4>7
        <4>9. a.ic[i].ref > 0 /\ ib = a.ic[i].di.indirect
          BY <4>1, <4>2
        <4> HIDE DEF ib, b
        <4>14. /\ cells \in [1..CPB -> Cell] /\ cells[bn - NDIRECT + 1].ino = b
               /\ SameBut(1..CPB, cells, a.d.block[ib], bn - NDIRECT + 1)
          <5>1. PICK v \in [1..CPB -> Cell] : v = a.d.block[ib]
            <6>1. a.d \in Disk /\ a \in State /\ ib \in 0..NBLOCKS
              BY <4>4, <4>9, SoundParts, StateParts, InodeParts
            <6> QED
              BY <3>3, <6>1, DiskParts, Sizes
          <5>2. b \in 0..NBLOCKS
            BY <4>4, SoundParts, Sizes
          <5>3. PICK x \in Cell : x = Link(b) /\ x.ino = b
            BY <5>2, Sizes
          <5>4. bn - NDIRECT + 1 \in 1..CPB
            BY <1>1, <2>1, <2>3
          <5>5. cells = [v EXCEPT ![bn - NDIRECT + 1] = x]
            BY <5>1, <5>3
          <5> HIDE DEF cells
          <5> QED
            BY <5>1, <5>3, <5>4, <5>5 DEF SameBut
        <4> HIDE DEF cells
        <4>10. /\ Sound(t, Y \ {b}) /\ Keeps(a, t) /\ InUse(t) = InUse(a)
               /\ At(Kernel(t), <<i, bn>>) = b
               /\ t.ic = a.ic /\ t.d.inode = a.d.inode
          <5>1. Sound(a, Y) /\ b \in Y \cup {0}
            BY <4>4
          <5> QED
            <6>1. WordGets(a, Y, i, ib, bn, b, cells)
              BY <2>3, <3>3, <4>5, <4>8, <4>9, <4>14, <5>1 DEF WordGets
            <6> QED
              BY <6>1, WordTaken
        <4> HIDE DEF t
        <4>11. Others(a, t, i)
          BY <4>10, SameOthers
        <4>12. Keeps(s, t) /\ Others(s, t, i) /\ InUse(t) = InUse(s) /\ Sound(t, X)
          BY <3>1, <4>4, <4>10, <4>11, KeepsOn, OthersOn
        <4>13. Found(s, X, i, bn, [s |-> t, blk |-> b])
          BY <2>1, <4>10, <4>12 DEF Found
        <4> QED
          BY <2>1, <4>3, <4>13
      <3> QED
        BY <3>2, <3>3
    <2> QED
      BY <2>2, <2>3
  <1> QED
    BY <1>4, <1>5

-----------------------------------------------------------------------------
(* Inodes go to the disk                                                   *)

LEMMA WriteStep ==
    ASSUME NEW s, NEW X, Sound(s, X), NEW t, NEW Y, Sound(t, Y), NEW w \in Writes,
           t.d = Perform(s.d, w), t.log = Append(s.log, w)
    PROVE  Leads(s, t)
  BY SoundParts, SoundSafe, LeadsWrite

\* di, with the pointers, the type and the link count of the cached inode i, is
\* written.
Flushed(s, t, i, di) ==
    LET w == [at |-> "inode", n |-> i, v |-> di] IN
    /\ t \in State /\ t.fl = s.fl
    /\ t.d = Perform(s.d, w) /\ t.log = Append(s.log, w)
    /\ t.ic = [s.ic EXCEPT ![i] = [di |-> di, ref |-> s.ic[i].ref, dirty |-> FALSE]]
Flushes(s, X, i, di, t) ==
    /\ Sound(s, X) /\ i \in Inodes /\ s.ic[i].ref > 0
    /\ di \in DiskInode /\ Flushed(s, t, i, di)
    /\ di.type = s.ic[i].di.type /\ di.nlink = s.ic[i].di.nlink
    /\ di.direct = s.ic[i].di.direct /\ di.indirect = s.ic[i].di.indirect

Pick(s, i, di) == [s EXCEPT !.ic[i].di = di]

LEMMA IupdateEffect ==
    ASSUME NEW s \in State, NEW i \in Inodes, NEW di \in DiskInode
    PROVE  Flushed(s, fs_iupdate(Pick(s, i, di), i), i, di)
  <1> DEFINE w == [at |-> "inode", n |-> i, v |-> di]
             e == [di |-> di, ref |-> s.ic[i].ref, dirty |-> s.ic[i].dirty]
             f == [di |-> di, ref |-> s.ic[i].ref, dirty |-> FALSE]
             r == Pick(s, i, di)
             u == WriteInode(r, i, di)
             t == [u EXCEPT !.ic[i] = f]
  <1>1. /\ s.ic \in [Inodes -> CacheSlot] /\ s.d \in Disk
        /\ s.ic[i] = [di |-> s.ic[i].di, ref |-> s.ic[i].ref, dirty |-> s.ic[i].dirty]
        /\ s.ic[i].ref \in Nat /\ s.ic[i].dirty \in BOOLEAN
    BY StateParts DEF CacheSlot
  <1>2. e \in CacheSlot /\ f \in CacheSlot
    BY <1>1 DEF CacheSlot
  <1>3. r = [s EXCEPT !.ic = [s.ic EXCEPT ![i] = e]]
    <2>1. [s.ic[i] EXCEPT !.di = di] = e
      BY <1>1 DEF CacheSlot
    <2>2. [s.ic EXCEPT ![i].di = di] = [s.ic EXCEPT ![i] = e]
      BY <1>1, <2>1
    <2> HIDE DEF e
    <2> QED
      BY <2>2 DEF Pick, State
  <1>4. [s.ic EXCEPT ![i] = e] \in [Inodes -> CacheSlot]
    BY <1>1, <1>2
  <1> HIDE DEF r
  <1>5. /\ r.fl = s.fl /\ r.d = s.d /\ r.log = s.log /\ r.ic = [s.ic EXCEPT ![i] = e]
        /\ r \in State
    BY <1>3, <1>4 DEF State
  <1>6. w \in Writes
    BY <1>1, InodeWrite
  <1>7. u = Write(r, w)
    BY Written
  <1>8. fs_iupdate(r, i) = t
    <2>1. r.ic[i] = e
      BY <1>1, <1>5
    <2>2. r.ic[i].di = di /\ r.ic[i].ref = s.ic[i].ref
      BY <2>1
    <2> HIDE DEF u
    <2>3. fs_iupdate(r, i) = [u EXCEPT !.ic[i] = [di |-> r.ic[i].di, ref |-> r.ic[i].ref,
                                                 dirty |-> FALSE]]
      BY <2>2 DEF fs_iupdate, u
    <2> QED
      BY <2>2, <2>3
  <1> HIDE DEF w, u
  <1>9. /\ u \in State /\ u.fl = s.fl /\ u.ic = r.ic /\ u.d = Perform(s.d, w)
        /\ u.log = Append(s.log, w)
    BY <1>5, <1>6, <1>7, WriteEffect
  <1>10. t = [u EXCEPT !.ic = [s.ic EXCEPT ![i] = f]]
    <2>5. [u.ic EXCEPT ![i] = f] = [s.ic EXCEPT ![i] = f]
      BY <1>1, <1>5, <1>9
    <2> HIDE DEF e, f
    <2> QED
      BY <1>9, <2>5 DEF State
  <1>11. [s.ic EXCEPT ![i] = f] \in [Inodes -> CacheSlot]
    BY <1>1, <1>2
  <1> HIDE DEF t
  <1>12. /\ t \in State /\ t.fl = s.fl /\ t.d = Perform(s.d, w)
         /\ t.log = Append(s.log, w) /\ t.ic = [s.ic EXCEPT ![i] = f]
    BY <1>9, <1>10, <1>11 DEF State
  <1> QED
    BY <1>8, <1>12 DEF Flushed, r, w

AfterFlush(s, X, i, di, t) ==
    LET w == [at |-> "inode", n |-> i, v |-> di] IN
           /\ w \in Writes /\ t.d = Perform(s.d, w) /\ t.log = Append(s.log, w)
           /\ t \in State /\ t.d \in Disk /\ t.fl = s.fl /\ t.d.free_list = t.fl
           /\ t.d.block = s.d.block
           /\ t.d.inode[i] = di /\ \A j \in Inodes \ {i} : t.d.inode[j] = s.d.inode[j]
           /\ t.ic[i] = [di |-> di, ref |-> s.ic[i].ref, dirty |-> FALSE]
           /\ \A j \in Inodes \ {i} : t.ic[j] = s.ic[j]
           /\ InUse(t) = InUse(s) /\ Owned(Kernel(t), Have(InUse(t)), X) /\ Agree(t)
           /\ \A p \in Have(InUse(s)) : At(Kernel(t), p) = At(Kernel(s), p)
           /\ Live(t.d) \subseteq Live(s.d) /\ Live(s.d) \ {i} \subseteq Live(t.d)
           /\ di.nlink > 0 => Live(t.d) = Live(s.d) /\ Dirs(t.d) = Dirs(s.d)
           /\ \A j \in Live(s.d), n \in Slots : At(OnDisk(s.d), <<j, n>>) # 0 =>
                 At(OnDisk(t.d), <<j, n>>) = At(OnDisk(s.d), <<j, n>>)

LEMMA FlushParts ==
    ASSUME NEW s, NEW X, NEW i, NEW di, NEW t, Flushes(s, X, i, di, t)
    PROVE  AfterFlush(s, X, i, di, t)
  <1> DEFINE w == [at |-> "inode", n |-> i, v |-> di]
             P == Have(InUse(s))
  <1>1. /\ Sound(s, X) /\ i \in Inodes /\ s.ic[i].ref > 0
        /\ di \in DiskInode
        /\ di.type = s.ic[i].di.type /\ di.nlink = s.ic[i].di.nlink
        /\ di.direct = s.ic[i].di.direct /\ di.indirect = s.ic[i].di.indirect
    BY DEF Flushes
  <1>2. /\ s.d \in Disk /\ s.ic \in [Inodes -> CacheSlot] /\ s.d.free_list = s.fl
        /\ Owned(Kernel(s), P, X) /\ Agree(s) /\ Cached(s)
        /\ Live(s.d) \in SUBSET Inodes /\ InUse(s) \in SUBSET Inodes
        /\ Live(s.d) \subseteq InUse(s)
        /\ Kernel(s) \in Store /\ s.d.inode \in [Inodes -> DiskInode]
    BY <1>1, SoundParts, StateParts, DiskParts, LiveParts
  <1>3. /\ t \in State /\ t.fl = s.fl
        /\ t.d = Perform(s.d, w) /\ t.log = Append(s.log, w)
        /\ t.ic = [s.ic EXCEPT ![i] = [di |-> di, ref |-> s.ic[i].ref, dirty |-> FALSE]]
    BY DEF Flushes, Flushed
  <1>4. /\ w \in Writes /\ Perform(s.d, w).free_list = s.d.free_list
        /\ Perform(s.d, w).inode = [s.d.inode EXCEPT ![i] = di]
        /\ Perform(s.d, w).block = s.d.block
    BY <1>1, <1>2, InodeWrite
  <1> HIDE DEF w
  <1>5. /\ t.d \in Disk /\ t.d.free_list = t.fl /\ t.d.block = s.d.block
        /\ t.d.inode[i] = di /\ \A j \in Inodes \ {i} : t.d.inode[j] = s.d.inode[j]
        /\ Kernel(t) \in Store
    BY <1>1, <1>2, <1>3, <1>4, StateParts
  <1>6. /\ t.ic[i] = [di |-> di, ref |-> s.ic[i].ref, dirty |-> FALSE]
        /\ \A j \in Inodes \ {i} : t.ic[j] = s.ic[j]
    BY <1>1, <1>2, <1>3
  <1>7. t.ic[i].di = di /\ t.ic[i].ref > 0
    BY <1>1, <1>6
  <1>8. /\ s.ic[i].di.type = s.d.inode[i].type /\ s.ic[i].di.type # "FREE"
        /\ s.ic[i].di.nlink > 0 => s.d.inode[i].nlink > 0
    BY <1>1, <1>2 DEF Cached
  <1>9. Live(t.d) \subseteq Live(s.d) /\ Live(s.d) \ {i} \subseteq Live(t.d)
    BY <1>1, <1>5, <1>8 DEF Live
  <1>10. di.nlink > 0 => Live(t.d) = Live(s.d) /\ Dirs(t.d) = Dirs(s.d)
    <2> SUFFICES ASSUME di.nlink > 0
                 PROVE  Live(t.d) = Live(s.d) /\ Dirs(t.d) = Dirs(s.d)
      OBVIOUS
    <2>1. i \in Live(t.d)
      BY <1>1, <1>5, <1>8 DEF Live
    <2>2. Live(t.d) = Live(s.d)
      BY <1>9, <2>1
    <2>3. \A j \in Inodes : t.d.inode[j].type = s.d.inode[j].type
      BY <1>1, <1>5, <1>8
    <2> QED
      BY <1>2, <2>2, <2>3 DEF Dirs
  <1>11. InUse(t) = InUse(s)
    <2>1. \A j \in Inodes : t.ic[j].ref > 0 <=> s.ic[j].ref > 0
      BY <1>1, <1>6, <1>7
    <2>2. i \in InUse(t) /\ i \in InUse(s)
      BY <1>1, <1>7 DEF InUse
    <2> QED
      BY <1>9, <2>1, <2>2 DEF InUse
  <1>12. /\ Kernel(t).fl = Kernel(s).fl /\ Kernel(t).block = Kernel(s).block
         /\ Kernel(t).ino[i] = di /\ Kernel(s).ino[i] = s.ic[i].di
         /\ \A j \in Inodes \ {i} : Kernel(t).ino[j] = Kernel(s).ino[j]
    <2>1. /\ Kernel(t).fl = t.fl /\ Kernel(s).fl = s.fl
          /\ Kernel(t).block = t.d.block /\ Kernel(s).block = s.d.block
      BY DEF Kernel
    <2>2. Kernel(t).ino[i] = di /\ Kernel(s).ino[i] = s.ic[i].di
      BY <1>1, <1>7, KernelIno
    <2>3. ASSUME NEW j \in Inodes \ {i}
          PROVE  Kernel(t).ino[j] = Kernel(s).ino[j]
      BY <1>5, <1>6, KernelIno
    <2> QED
      BY <1>3, <1>5, <2>1, <2>2, <2>3
  <1>13. Owned(Kernel(t), P, X) /\ \A p \in P : At(Kernel(t), p) = At(Kernel(s), p)
    <2>1. PICK m : m = Kernel(s)
      OBVIOUS
    <2>2. PICK u \in Store : u = Kernel(t)
      BY <1>5
    <2>3. \A p \in P : p[1] \in Inodes
      BY <1>2 DEF Have
    <2>4. \A p \in P : /\ u.ino[p[1]].direct = m.ino[p[1]].direct
                       /\ u.ino[p[1]].indirect = m.ino[p[1]].indirect
      BY <1>1, <1>12, <2>1, <2>2, <2>3
    <2> HIDE DEF P
    <2>5. Owned(u, P, X) /\ \A p \in P : At(u, p) = At(m, p)
      BY <1>2, <1>12, <2>1, <2>2, <2>4, OwnedStays
    <2> QED
      BY <2>1, <2>2, <2>5
  <1>14. Agree(t)
    <2> SUFFICES ASSUME NEW j \in Live(t.d)
                 PROVE  /\ t.d.inode[j].indirect \in {0, Kernel(t).ino[j].indirect}
                        /\ \A n \in Direct : t.d.inode[j].direct[n] \in {0, Kernel(t).ino[j].direct[n]}
      BY DEF Agree
    <2>1. CASE j = i
      BY <1>5, <1>12, <2>1
    <2>2. CASE j # i
      <3>1. j \in Live(s.d) /\ j \in Inodes \ {i}
        BY <1>2, <1>9, <2>2
      <3>2. /\ s.d.inode[j].indirect \in {0, Kernel(s).ino[j].indirect}
            /\ \A n \in Direct : s.d.inode[j].direct[n] \in {0, Kernel(s).ino[j].direct[n]}
        BY <1>2, <3>1 DEF Agree
      <3> QED
        BY <1>5, <1>12, <3>1, <3>2
    <2> QED
      BY <2>1, <2>2
  <1>15. ASSUME NEW j \in Live(s.d), NEW n \in Slots, At(OnDisk(s.d), <<j, n>>) # 0
         PROVE  At(OnDisk(t.d), <<j, n>>) = At(OnDisk(s.d), <<j, n>>)
    <2>1. /\ OnDisk(t.d).ino = t.d.inode /\ OnDisk(s.d).ino = s.d.inode
          /\ OnDisk(t.d).block = s.d.block /\ OnDisk(s.d).block = s.d.block
      BY <1>5 DEF OnDisk
    <2>2. <<j, n>>[1] = j /\ <<j, n>>[2] = n
      OBVIOUS
    <2>3. CASE j = i
      <3>1. At(OnDisk(t.d), <<j, n>>) = At(Kernel(s), <<j, n>>)
        <4>1. /\ OnDisk(t.d).ino[j].direct = Kernel(s).ino[j].direct
              /\ OnDisk(t.d).ino[j].indirect = Kernel(s).ino[j].indirect
              /\ OnDisk(t.d).block = Kernel(s).block
          BY <1>1, <1>5, <1>12, <2>1, <2>3, KernelIno
        <4> QED
          BY <2>2, <4>1 DEF At
      <3> QED
        BY <1>1, <1>15, <3>1, DiskPlaces
    <2>4. CASE j # i
      <3>1. OnDisk(t.d).ino[j] = OnDisk(s.d).ino[j]
        BY <1>2, <1>5, <2>1, <2>4
      <3> QED
        BY <2>1, <2>2, <3>1 DEF At
    <2> QED
      BY <2>3, <2>4
  <1> QED
    BY <1>3, <1>4, <1>5, <1>6, <1>9, <1>10, <1>11, <1>13, <1>14, <1>15
    DEF w, AfterFlush

\* A name or a size of a directory is not touched.
LEMMA FlushSound ==
    ASSUME NEW s, NEW X, NEW i, NEW di, NEW t, Flushes(s, X, i, di, t),
           di.type # "DIR" \/ di.size = s.ic[i].di.size
    PROVE  Sound(t, X) /\ Keeps(s, t) /\ InUse(t) = InUse(s)
  <1> DEFINE w == [at |-> "inode", n |-> i, v |-> di]
  <1>1. /\ Sound(s, X) /\ i \in Inodes /\ s.ic[i].ref > 0
        /\ di \in DiskInode
        /\ di.type = s.ic[i].di.type /\ di.nlink = s.ic[i].di.nlink
    BY DEF Flushes
  <1>2. /\ w \in Writes /\ t.d = Perform(s.d, w) /\ t.log = Append(s.log, w)
        /\ t \in State /\ t.d \in Disk /\ t.fl = s.fl /\ t.d.free_list = t.fl
        /\ t.d.block = s.d.block
        /\ t.d.inode[i] = di /\ \A j \in Inodes \ {i} : t.d.inode[j] = s.d.inode[j]
        /\ t.ic[i] = [di |-> di, ref |-> s.ic[i].ref, dirty |-> FALSE]
        /\ \A j \in Inodes \ {i} : t.ic[j] = s.ic[j]
        /\ InUse(t) = InUse(s) /\ Owned(Kernel(t), Have(InUse(t)), X) /\ Agree(t)
        /\ Live(t.d) \subseteq Live(s.d) /\ Live(s.d) \ {i} \subseteq Live(t.d)
        /\ \A j \in Live(s.d), n \in Slots : At(OnDisk(s.d), <<j, n>>) # 0 =>
              At(OnDisk(t.d), <<j, n>>) = At(OnDisk(s.d), <<j, n>>)
    <2>1. AfterFlush(s, X, i, di, t)
      BY FlushParts
    <2> QED
      BY <2>1 DEF AfterFlush
  <1> HIDE DEF w
  <1>3. /\ s.d \in Disk /\ TreeOK(s.d) /\ Live(s.d) \in SUBSET Inodes
        /\ Dirs(s.d) \in SUBSET Live(s.d) /\ Cached(s)
    BY <1>1, SoundParts, LiveParts
  <1>4. /\ s.ic[i].di.type = s.d.inode[i].type /\ s.ic[i].di.type # "FREE"
        /\ s.ic[i].di.size = s.d.inode[i].size
        /\ s.ic[i].di.nlink > 0 => s.d.inode[i].nlink > 0
        /\ s.ic[i].di.type = "DIR" \/ IsNamed(s.d, i) => s.ic[i].di.nlink > 0
    BY <1>1, <1>3 DEF Cached
  <1>5. Dirs(t.d) = Dirs(s.d)
    <2>1. \A j \in Inodes : t.d.inode[j].type = s.d.inode[j].type
      BY <1>1, <1>2, <1>4
    <2>2. i \in Live(s.d) => i \in Live(t.d) \/ s.d.inode[i].type # "DIR"
      BY <1>1, <1>2, <1>4 DEF Live
    <2> QED
      BY <1>2, <1>3, <2>1, <2>2 DEF Dirs
  <1>6. SameEntries(s.d, t.d)
    <2>1. \A j \in Dirs(s.d) : t.d.inode[j].size = s.d.inode[j].size
      BY <1>1, <1>2, <1>3, <1>4 DEF Dirs
    <2>2. \A j \in Dirs(s.d), n \in Slots : n # Final /\ At(OnDisk(s.d), <<j, n>>) # 0 =>
             /\ At(OnDisk(t.d), <<j, n>>) = At(OnDisk(s.d), <<j, n>>)
             /\ t.d.block[At(OnDisk(s.d), <<j, n>>)] = s.d.block[At(OnDisk(s.d), <<j, n>>)]
      BY <1>2, <1>3
    <2> QED
      BY <1>2, <1>3, <1>5, <2>1, <2>2, EntriesStay
  <1>7. TreeOK(t.d)
    <2>1. \A j \in Live(s.d) : IsNamed(s.d, j) => j \in Live(t.d)
      BY <1>1, <1>2, <1>4 DEF Live
    <2> QED
      BY <1>2, <1>3, <1>6, <2>1, TreeStays
  <1>8. \A j \in Inodes : IsNamed(t.d, j) <=> IsNamed(s.d, j)
    <2>1. \A j, k \in Inodes : NamesIt(t.d, k, j) <=> NamesIt(s.d, k, j)
      BY <1>6, SameNames
    <2> QED
      BY <2>1 DEF IsNamed
  <1>9. Cached(t)
    <2> SUFFICES ASSUME NEW j \in Inodes, t.ic[j].ref > 0
                 PROVE  /\ t.ic[j].di.type = t.d.inode[j].type /\ t.ic[j].di.type # "FREE"
                        /\ t.ic[j].di.size = t.d.inode[j].size
                        /\ ~t.ic[j].dirty => t.ic[j].di = t.d.inode[j]
                        /\ t.ic[j].di.nlink > 0 => t.d.inode[j].nlink > 0
                        /\ t.ic[j].di.type = "DIR" \/ IsNamed(t.d, j) => t.ic[j].di.nlink > 0
      BY DEF Cached
    <2>1. CASE j = i
      <3>1. t.ic[j].di = di /\ t.d.inode[j] = di
        BY <1>2, <2>1
      <3> QED
        BY <1>1, <1>4, <1>8, <2>1, <3>1
    <2>2. CASE j # i
      BY <1>2, <1>3, <1>8, <2>2 DEF Cached
    <2> QED
      BY <2>1, <2>2
  <1>10. Sound(t, X)
    BY <1>2, <1>7, <1>9 DEF Sound
  <1>11. Leads(s, t)
    BY <1>1, <1>2, <1>10, WriteStep
  <1>12. \A j \in Inodes :
            /\ t.ic[j].ref = s.ic[j].ref
            /\ s.ic[j].ref = 0 => t.ic[j] = s.ic[j]
            /\ s.ic[j].ref > 0 => /\ t.ic[j].di.type = s.ic[j].di.type
                                  /\ t.ic[j].di.nlink = s.ic[j].di.nlink
            /\ t.d.inode[j].type = s.d.inode[j].type
            /\ \/ t.d.inode[j].nlink = s.d.inode[j].nlink
               \/ s.ic[j].ref > 0 /\ t.d.inode[j].nlink = s.ic[j].di.nlink
    <2>1. t.ic[i].di = di /\ t.ic[i].ref = s.ic[i].ref
      BY <1>2
    <2> QED
      BY <1>1, <1>2, <1>4, <2>1
  <1> QED
    BY <1>2, <1>6, <1>10, <1>11, <1>12 DEF Keeps, Steady

-----------------------------------------------------------------------------
(* One entry of a directory                                                *)

\* A block of data, not one of pointers, is written.
AfterData(s, X, b, cells, t) ==
    LET w == [at |-> "block", n |-> b, v |-> cells] IN
    /\ w \in Writes /\ t.d = Perform(s.d, w) /\ t.log = Append(s.log, w)
    /\ t \in State /\ t.d \in Disk /\ t.fl = s.fl /\ t.d.free_list = t.fl
    /\ t.ic = s.ic /\ t.d.inode = s.d.inode
    /\ t.d.block[b] = cells /\ \A c \in Blocks \ {b} : t.d.block[c] = s.d.block[c]
    /\ InUse(t) = InUse(s) /\ Owned(Kernel(t), Have(InUse(t)), X) /\ Agree(t)
    /\ Live(t.d) = Live(s.d) /\ Dirs(t.d) = Dirs(s.d)
    /\ \A p \in Have(InUse(s)) : At(Kernel(t), p) = At(Kernel(s), p)
    /\ \A j \in Live(s.d), n \in Slots :
          At(OnDisk(t.d), <<j, n>>) = At(OnDisk(s.d), <<j, n>>)

LEMMA DataWrite ==
    ASSUME NEW s, NEW X, Sound(s, X), NEW i \in InUse(s), NEW n \in Slots, n # Final,
           NEW b, b = At(Kernel(s), <<i, n>>), b # 0, NEW cells \in [1..CPB -> Cell]
    PROVE  b \in Blocks /\ AfterData(s, X, b, cells, WriteBlock(s, b, cells))
  <1> DEFINE w == [at |-> "block", n |-> b, v |-> cells]
             t == WriteBlock(s, b, cells)
             m == Kernel(s)
             P == Have(InUse(s))
             R == Have(Live(s.d))
             p0 == <<i, n>>
  <1>1. /\ s \in State /\ s.d \in Disk /\ m \in Store /\ s.d.free_list = s.fl
        /\ Owned(m, P, X) /\ InUse(s) \in SUBSET Inodes /\ Live(s.d) \subseteq InUse(s)
        /\ m.fl = s.fl /\ m.block = s.d.block /\ Agree(s) /\ Closed(P)
    BY SoundParts DEF Kernel
  <1>2. Apart(m, P) /\ X \in SUBSET (Blocks \ Taken(m, P))
    BY <1>1 DEF Owned
  <1>3. p0 \in P /\ p0[2] = n
    BY <1>1, ClosedHave
  <1>4. b \in Blocks /\ b \in Taken(m, P)
    <2>1. b \in 0..NBLOCKS
      BY <1>2, <1>3 DEF Apart
    <2> QED
      BY <1>3, <2>1, Sizes DEF Taken
  <1>5. /\ w \in Writes /\ Perform(s.d, w).free_list = s.d.free_list
        /\ Perform(s.d, w).inode = s.d.inode
        /\ Perform(s.d, w).block = [s.d.block EXCEPT ![b] = cells]
    BY <1>1, <1>4, BlockWrite
  <1>6. t = Write(s, w)
    BY Written
  <1> HIDE DEF w, t
  <1>7. /\ t \in State /\ t.fl = s.fl /\ t.ic = s.ic /\ t.d = Perform(s.d, w)
        /\ t.log = Append(s.log, w)
    BY <1>1, <1>5, <1>6, WriteEffect
  <1>8. /\ t.d \in Disk /\ t.d.inode = s.d.inode /\ t.d.free_list = t.fl
        /\ t.d.block[b] = cells
        /\ \A c \in Blocks \ {b} : t.d.block[c] = s.d.block[c]
    <2>1. t.d \in Disk /\ s.d.block \in [Blocks -> [1..CPB -> Cell]]
      BY <1>1, <1>7, StateParts, DiskParts
    <2>2. /\ t.d.inode = s.d.inode /\ t.d.free_list = s.d.free_list
          /\ t.d.block = [s.d.block EXCEPT ![b] = cells]
      BY <1>5, <1>7
    <2>3. t.d.free_list = t.fl
      BY <1>1, <1>7, <2>2
    <2>4. t.d.block[b] = cells /\ \A c \in Blocks \ {b} : t.d.block[c] = s.d.block[c]
      BY <1>4, <2>1, <2>2
    <2> QED
      BY <2>1, <2>2, <2>3, <2>4
  <1>9. /\ Kernel(t) \in Store /\ Kernel(t).fl = m.fl /\ Kernel(t).ino = m.ino
        /\ Kernel(t).block = t.d.block
    <2>1. Kernel(t) \in Store
      BY <1>7, StateParts
    <2> QED
      BY <1>7, <1>8, <2>1 DEF Kernel
  <1>10. /\ Live(t.d) = Live(s.d) /\ InUse(t) = InUse(s) /\ Dirs(t.d) = Dirs(s.d)
    BY <1>7, <1>8 DEF Live, InUse, Dirs
  <1>11. Agree(t)
    BY <1>1, <1>8, <1>9, <1>10 DEF Agree
  \* b is no indirect block.
  <1>12. \A j \in InUse(s) : At(m, <<j, Final>>) # b
    <2> SUFFICES ASSUME NEW j \in InUse(s), At(m, <<j, Final>>) = b
                 PROVE  FALSE
      OBVIOUS
    <2>1. <<j, Final>> \in P
      BY <1>1, ClosedHave
    <2>2. <<j, Final>> = p0
      BY <1>2, <1>3, <2>1 DEF Apart
    <2> QED
      BY <1>3, <2>2
  <1>13. /\ Owned(Kernel(t), P, X)
         /\ \A p \in P : At(Kernel(t), p) = At(m, p)
    <2>1. ASSUME NEW p \in P, p[2] = Final, At(m, p) # 0
          PROVE  Kernel(t).block[At(m, p)] = m.block[At(m, p)]
      <3>1. p[1] \in InUse(s) /\ p = <<p[1], Final>>
        BY <1>1, <2>1, ClosedHave
      <3>2. At(m, p) # b /\ At(m, p) \in 0..NBLOCKS
        BY <1>2, <1>12, <3>1 DEF Apart
      <3>3. At(m, p) \in Blocks \ {b}
        BY <2>1, <3>2, Sizes
      <3> QED
        BY <1>1, <1>8, <1>9, <3>3
    <2>2. \A c \in Blocks \ (Taken(m, P) \cup X) : Kernel(t).block[c] = m.block[c]
      BY <1>1, <1>4, <1>8, <1>9
    <2>3. PICK u \in Store : u = Kernel(t)
      BY <1>9
    <2> HIDE DEF m, P
    <2>4. Owned(u, P, X) /\ \A p \in P : At(u, p) = At(m, p)
      BY <1>1, <1>9, <2>1, <2>2, <2>3, OwnedStays
    <2> QED
      BY <2>3, <2>4
  <1>14. \A p \in R : At(OnDisk(t.d), p) = At(OnDisk(s.d), p)
    <2>1. Closed(R) /\ \A p \in R : p[1] \in Live(s.d) /\ p = <<p[1], p[2]>>
      BY <1>1, ClosedHave, LiveParts
    <2>2. OnDisk(t.d).ino = OnDisk(s.d).ino
      BY <1>8 DEF OnDisk
    <2>3. ASSUME NEW p \in R, p[2] = Final, At(OnDisk(s.d), p) # 0
          PROVE  OnDisk(t.d).block[At(OnDisk(s.d), p)] = OnDisk(s.d).block[At(OnDisk(s.d), p)]
      <3>1. PICK j \in Live(s.d) : p = <<j, Final>>
        BY <2>1, <2>3
      <3>2. /\ At(OnDisk(s.d), <<j, Final>>) \in {0, At(m, <<j, Final>>)}
            /\ At(m, <<j, Final>>) \in 0..NBLOCKS
        <4>1. Final \in Slots
          BY <1>1, ClosedHave
        <4> QED
          BY <4>1, DiskPlaces
      <3>3. At(OnDisk(s.d), p) \in Blocks \ {b}
        BY <1>1, <1>12, <2>3, <3>1, <3>2, Sizes
      <3> QED
        BY <1>8, <3>3 DEF OnDisk
    <2>4. PICK d : d = OnDisk(s.d)
      OBVIOUS
    <2>5. PICK e : e = OnDisk(t.d)
      OBVIOUS
    <2> HIDE DEF R
    <2>6. \A p \in R : /\ e.ino[p[1]].direct = d.ino[p[1]].direct
                       /\ e.ino[p[1]].indirect = d.ino[p[1]].indirect
      BY <2>2, <2>4, <2>5
    <2>7. \A p \in R : p[2] = Final /\ At(d, p) # 0 => e.block[At(d, p)] = d.block[At(d, p)]
      BY <2>3, <2>4, <2>5
    <2>8. \A p \in R : At(e, p) = At(d, p)
      BY <2>1, <2>6, <2>7, SamePlaces
    <2> QED
      BY <2>4, <2>5, <2>8
  <1>15. \A j \in Live(s.d), k \in Slots :
            At(OnDisk(t.d), <<j, k>>) = At(OnDisk(s.d), <<j, k>>)
    BY <1>14 DEF Have
  <1> QED
    BY <1>4, <1>5, <1>7, <1>8, <1>10, <1>11, <1>13, <1>15 DEF AfterData, w, t

\* The cell at position k of directory i is written, where it has a block.
CellPut(s, X, i, k, c, b, cells) ==
    /\ Sound(s, X) /\ i \in Dirs(s.d) /\ k \in Nat /\ k \div CPB < Final
    /\ b = At(Kernel(s), <<i, k \div CPB>>) /\ b # 0
    /\ cells \in [1..CPB -> Cell] /\ cells[(k % CPB) + 1] = c
    /\ SameBut(1..CPB, cells, s.d.block[b], (k % CPB) + 1)
AfterCell(s, X, i, k, c, b, cells, t) ==
    /\ AfterData(s, X, b, cells, t) /\ b \in Blocks
    /\ \A j \in Dirs(s.d) : \A l \in Spots(s.d, j) :
          /\ SpotAt(t.d, j, l) = SpotAt(s.d, j, l) /\ SpotAt(t.d, j, l) # 0
          /\ CellOf(t.d, j, l) = IF j = i /\ l = k THEN c ELSE CellOf(s.d, j, l)

LEMMA CellEffect ==
    ASSUME NEW s, NEW X, NEW i, NEW k, NEW c, NEW b, NEW cells, CellPut(s, X, i, k, c, b, cells)
    PROVE  AfterCell(s, X, i, k, c, b, cells, WriteBlock(s, b, cells))
  <1> DEFINE t == WriteBlock(s, b, cells)
             m == Kernel(s)
             n == k \div CPB
  <1>1. /\ Sound(s, X) /\ i \in Dirs(s.d) /\ k \in Nat /\ n < Final
        /\ b = At(m, <<i, n>>) /\ b # 0
        /\ cells \in [1..CPB -> Cell] /\ cells[(k % CPB) + 1] = c
        /\ \A x \in 1..CPB \ {(k % CPB) + 1} : cells[x] = s.d.block[b][x]
    BY DEF CellPut, SameBut
  <1>2. /\ i \in Live(s.d) /\ i \in InUse(s) /\ n \in Slots /\ n # Final
        /\ Dirs(s.d) \in SUBSET Live(s.d) /\ Live(s.d) \subseteq InUse(s)
        /\ s.d \in Disk /\ InUse(s) \in SUBSET Inodes
    <2>1. /\ i \in Live(s.d) /\ i \in InUse(s) /\ Dirs(s.d) \in SUBSET Live(s.d)
          /\ Live(s.d) \subseteq InUse(s) /\ s.d \in Disk /\ InUse(s) \in SUBSET Inodes
      BY <1>1, SoundParts, LiveParts
    <2>2. n \in Nat
      BY <1>1, Position
    <2>3. n \in Slots /\ n # Final
      BY <1>1, <2>2, Sizes DEF Slots, Final
    <2> QED
      BY <2>1, <2>3
  <1> HIDE DEF n
  <1>3. b \in Blocks /\ AfterData(s, X, b, cells, t)
    BY <1>1, <1>2, DataWrite
  <1> HIDE DEF t
  <1>4. ASSUME NEW j \in Dirs(s.d), NEW l \in Spots(s.d, j)
        PROVE  /\ SpotAt(t.d, j, l) = SpotAt(s.d, j, l) /\ SpotAt(t.d, j, l) # 0
               /\ CellOf(t.d, j, l) = IF j = i /\ l = k THEN c ELSE CellOf(s.d, j, l)
    <2>1. /\ SpotAt(s.d, j, l) = At(m, <<j, l \div CPB>>) /\ SpotAt(s.d, j, l) \in Blocks
          /\ l \in Nat /\ l \div CPB \in Slots /\ l \div CPB # Final
      BY <1>1, DirPlaces
    <2>2. (l % CPB) + 1 \in 1..CPB
      BY <2>1, Position
    <2>3. SpotAt(t.d, j, l) = SpotAt(s.d, j, l)
      BY <1>2, <1>3, <2>1 DEF AfterData, SpotAt
    <2>4. SpotAt(t.d, j, l) # 0
      BY <2>1, <2>3, Sizes
    <2>5. /\ CellOf(t.d, j, l) = t.d.block[SpotAt(s.d, j, l)][(l % CPB) + 1]
          /\ CellOf(s.d, j, l) = s.d.block[SpotAt(s.d, j, l)][(l % CPB) + 1]
      BY <2>3 DEF CellOf
    <2>6. CASE SpotAt(s.d, j, l) # b
      <3>1. CellOf(t.d, j, l) = CellOf(s.d, j, l)
        BY <1>3, <2>1, <2>5, <2>6 DEF AfterData
      <3>2. ~(j = i /\ l = k)
        BY <1>1, <2>1, <2>6 DEF n
      <3> QED
        BY <2>3, <2>4, <3>1, <3>2
    <2>7. CASE SpotAt(s.d, j, l) = b
      <3>1. <<j, l \div CPB>> = <<i, n>>
        <4>1. Apart(m, Have(InUse(s)))
          BY <1>1, SoundParts
        <4>2. <<j, l \div CPB>> \in Have(InUse(s)) /\ <<i, n>> \in Have(InUse(s))
          BY <1>2, <2>1 DEF Have
        <4> QED
          BY <1>1, <2>1, <2>7, <4>1, <4>2 DEF Apart
      <3>2. j = i /\ l \div CPB = k \div CPB
        BY <3>1 DEF n
      <3>3. (l % CPB) = (k % CPB) <=> l = k
        <4>1. l = CPB * (l \div CPB) + (l % CPB) /\ k = CPB * (k \div CPB) + (k % CPB)
          BY <1>1, <2>1, Sizes, Division
        <4>2. PICK q : q = CPB * (k \div CPB)
          OBVIOUS
        <4>3. l = q + (l % CPB) /\ k = q + (k % CPB)
          BY <3>2, <4>1, <4>2
        <4>4. q \in Int /\ (l % CPB) \in Int /\ (k % CPB) \in Int
          BY <1>1, <2>1, <4>2, Sizes, Division
        <4> QED
          BY <4>3, <4>4
      <3>4. (l % CPB) + 1 = (k % CPB) + 1 <=> l = k
        <4>1. (l % CPB) \in Int /\ (k % CPB) \in Int
          BY <1>1, <2>1, Sizes, Division
        <4> QED
          BY <3>3, <4>1
      <3>5. CellOf(t.d, j, l) = cells[(l % CPB) + 1]
        BY <1>3, <2>5, <2>7 DEF AfterData
      <3> QED
        BY <1>1, <2>2, <2>3, <2>4, <2>5, <2>7, <3>2, <3>4, <3>5
    <2> QED
      BY <2>6, <2>7
  <1> QED
    BY <1>3, <1>4 DEF AfterCell, t

\* e has the entries of d, but c at position k of directory i.
EntryPut(d, e, i, k, c) ==
    /\ Dirs(e) = Dirs(d) /\ Live(e) = Live(d) /\ i \in Dirs(d)
    /\ k \in Spots(e, i) /\ k \div CPB < Final /\ SpotAt(e, i, k) # 0 /\ CellOf(e, i, k) = c
    /\ \A j \in Dirs(d) : Spots(d, j) \subseteq Spots(e, j)
    /\ \A j \in Dirs(d) : \A l \in Spots(e, j) :
          \/ j = i /\ l = k
          \/ /\ l \in Spots(d, j) /\ SpotAt(e, j, l) # 0
             /\ CellOf(e, j, l) = CellOf(d, j, l)

\* c may be put into directory i.
Fits(s, i, c) ==
    /\ i \in Dirs(s.d) /\ c \in Cell /\ Proper(s.d, c)
    /\ IsName(c) => /\ ~IsNamed(s.d, c.ino)
                    /\ s.ic[c.ino].ref > 0 => s.ic[c.ino].di.nlink > 0

LEMMA PutTree ==
    ASSUME NEW d \in Disk, NEW e, NEW i, NEW k, NEW c, TreeOK(d), EntryPut(d, e, i, k, c),
           Proper(d, c), IsName(c) => ~IsNamed(d, c.ino)
    PROVE  TreeOK(e)
  <1>1. /\ Dirs(e) = Dirs(d) /\ Live(e) = Live(d) /\ i \in Dirs(d) /\ 1 \in Dirs(d)
        /\ k \div CPB < Final /\ SpotAt(e, i, k) # 0 /\ CellOf(e, i, k) = c
        /\ Dirs(d) \subseteq Inodes
    BY LiveParts DEF EntryPut, TreeOK
  <1>2. ASSUME NEW j \in Dirs(d), NEW l \in Spots(e, j)
        PROVE  \/ j = i /\ l = k
               \/ /\ l \in Spots(d, j) /\ SpotAt(e, j, l) # 0
                  /\ CellOf(e, j, l) = CellOf(d, j, l)
    BY <1>2 DEF EntryPut
  <1>3. ASSUME NEW j \in Dirs(d), NEW l \in Spots(d, j), IsName(CellOf(d, j, l)), IsName(c)
        PROVE  CellOf(d, j, l).ino # c.ino
    BY <1>1, <1>3 DEF IsNamed, NamesIt
  <1>4. ASSUME NEW j \in Dirs(d), NEW l \in Spots(e, j)
        PROVE  l \div CPB < Final /\ SpotAt(e, j, l) # 0 /\ Proper(e, CellOf(e, j, l))
    <2>1. \A x : Proper(d, x) => Proper(e, x)
      BY <1>1 DEF Proper
    <2> QED
      BY <1>1, <1>2, <2>1 DEF TreeOK
  <1>5. ASSUME NEW j \in Dirs(d), NEW h \in Dirs(d), NEW l \in Spots(e, j), NEW m \in Spots(e, h),
               IsName(CellOf(e, j, l)), IsName(CellOf(e, h, m)),
               CellOf(e, j, l).ino = CellOf(e, h, m).ino
        PROVE  j = h /\ l = m
    <2>1. CASE j = i /\ l = k
      BY <1>1, <1>2, <1>3, <1>5, <2>1
    <2>2. CASE h = i /\ m = k
      BY <1>1, <1>2, <1>3, <1>5, <2>2
    <2>3. CASE ~(j = i /\ l = k) /\ ~(h = i /\ m = k)
      <3>1. /\ l \in Spots(d, j) /\ CellOf(e, j, l) = CellOf(d, j, l)
            /\ m \in Spots(d, h) /\ CellOf(e, h, m) = CellOf(d, h, m)
        BY <1>2, <2>3
      <3> QED
        BY <1>5, <3>1 DEF TreeOK
    <2> QED
      BY <2>1, <2>2, <2>3
  <1> QED
    BY <1>1, <1>4, <1>5 DEF TreeOK

LEMMA PutNamed ==
    ASSUME NEW d, NEW e, NEW i, NEW k, NEW c, EntryPut(d, e, i, k, c), NEW j, IsNamed(e, j)
    PROVE  IsNamed(d, j) \/ (IsName(c) /\ c.ino = j)
  <1>1. PICK h \in Inodes : NamesIt(e, h, j)
    BY DEF IsNamed
  <1>2. PICK l \in Spots(e, h) : IsName(CellOf(e, h, l)) /\ CellOf(e, h, l).ino = j
    BY <1>1 DEF NamesIt
  <1>3. h \in Dirs(d) /\ CellOf(e, i, k) = c
    BY <1>1 DEF NamesIt, EntryPut
  <1>4. CASE h = i /\ l = k
    BY <1>2, <1>3, <1>4
  <1>5. CASE ~(h = i /\ l = k)
    <2>1. l \in Spots(d, h) /\ CellOf(e, h, l) = CellOf(d, h, l)
      BY <1>3, <1>5 DEF EntryPut
    <2> QED
      BY <1>1, <1>2, <1>3, <2>1 DEF NamesIt, IsNamed
  <1> QED
    BY <1>4, <1>5

\* The only name of an inode goes.
LEMMA PutUnnames ==
    ASSUME NEW d \in Disk, NEW e, NEW i, NEW k, NEW c, TreeOK(d), EntryPut(d, e, i, k, c), ~IsName(c),
           k \in Spots(d, i), IsName(CellOf(d, i, k))
    PROVE  ~IsNamed(e, CellOf(d, i, k).ino)
  <1> SUFFICES ASSUME IsNamed(e, CellOf(d, i, k).ino)
               PROVE  FALSE
    OBVIOUS
  <1>1. PICK h \in Inodes : NamesIt(e, h, CellOf(d, i, k).ino)
    BY DEF IsNamed
  <1>2. PICK l \in Spots(e, h) : IsName(CellOf(e, h, l)) /\ CellOf(e, h, l).ino = CellOf(d, i, k).ino
    BY <1>1 DEF NamesIt
  <1>3. h \in Dirs(d) /\ i \in Dirs(d) /\ CellOf(e, i, k) = c
    BY <1>1 DEF NamesIt, EntryPut
  <1>4. ~(h = i /\ l = k)
    BY <1>2, <1>3
  <1>5. l \in Spots(d, h) /\ CellOf(e, h, l) = CellOf(d, h, l)
    BY <1>3, <1>4 DEF EntryPut
  <1> QED
    BY <1>2, <1>3, <1>4, <1>5 DEF TreeOK

\* What comes before and after the one change.
LEMMA PutAmid ==
    ASSUME NEW d, NEW e, NEW f, NEW g, NEW i, NEW k, NEW c,
           SameEntries(d, e), EntryPut(e, f, i, k, c), SameEntries(f, g),
           Dirs(e) = Dirs(d), Live(e) = Live(d), Dirs(g) = Dirs(f), Live(g) = Live(f)
    PROVE  EntryPut(d, g, i, k, c)
  <1>1. \A j \in Dirs(d) : /\ Spots(e, j) = Spots(d, j) /\ Spots(g, j) = Spots(f, j)
                           /\ Spots(e, j) \subseteq Spots(f, j)
    BY DEF SameEntries, Spots, EntryPut
  <1>2. \A j \in Dirs(d) : \A l \in Spots(d, j) : CellOf(e, j, l) = CellOf(d, j, l)
    BY DEF SameEntries
  <1>3. \A j \in Dirs(d) : \A l \in Spots(f, j) :
           SpotAt(g, j, l) # 0 /\ CellOf(g, j, l) = CellOf(f, j, l)
    BY DEF SameEntries, EntryPut
  <1>4. /\ Dirs(g) = Dirs(d) /\ Live(g) = Live(d) /\ i \in Dirs(d)
        /\ k \in Spots(g, i) /\ k \div CPB < Final /\ SpotAt(g, i, k) # 0 /\ CellOf(g, i, k) = c
    BY <1>1, <1>3 DEF EntryPut
  <1>5. ASSUME NEW j \in Dirs(d), NEW l \in Spots(g, j), ~(j = i /\ l = k)
        PROVE  l \in Spots(d, j) /\ SpotAt(g, j, l) # 0 /\ CellOf(g, j, l) = CellOf(d, j, l)
    <2>1. j \in Dirs(e) /\ l \in Spots(f, j)
      BY <1>1
    <2>2. l \in Spots(e, j) /\ CellOf(f, j, l) = CellOf(e, j, l)
      BY <1>5, <2>1 DEF EntryPut
    <2> QED
      BY <1>1, <1>2, <1>3, <2>1, <2>2
  <1> QED
    BY <1>1, <1>4, <1>5 DEF EntryPut

LEMMA FitsStays ==
    ASSUME NEW s, NEW X, Sound(s, X), NEW t, NEW i, NEW c, Fits(s, i, c), Keeps(s, t),
           Live(t.d) = Live(s.d), Dirs(t.d) = Dirs(s.d)
    PROVE  Fits(t, i, c)
  <1>1. i \in Dirs(t.d) /\ c \in Cell /\ Proper(t.d, c)
    BY DEF Fits, Proper
  <1>2. ASSUME IsName(c)
        PROVE  ~IsNamed(t.d, c.ino) /\ (t.ic[c.ino].ref > 0 => t.ic[c.ino].di.nlink > 0)
    <2>1. ~IsNamed(s.d, c.ino) /\ (s.ic[c.ino].ref > 0 => s.ic[c.ino].di.nlink > 0)
      BY <1>2 DEF Fits
    <2>2. ~IsNamed(t.d, c.ino)
      BY <2>1, SameNames DEF IsNamed, Keeps
    <2>3. c.ino \in Inodes
      <3>1. s.d \in Disk /\ Live(s.d) \in SUBSET Inodes
        BY SoundParts, LiveParts
      <3>2. c.ino \in Live(s.d)
        BY <1>2 DEF Fits, Proper, IsName
      <3> QED
        BY <3>1, <3>2
    <2> QED
      BY <2>1, <2>2, <2>3 DEF Keeps, Steady
  <1> QED
    BY <1>1, <1>2 DEF Fits

\* An entry is replaced.
LEMMA CellReplaced ==
    ASSUME NEW s, NEW X, NEW i, NEW k, NEW c, NEW b, NEW cells,
           CellPut(s, X, i, k, c, b, cells), k \in Spots(s.d, i), Fits(s, i, c)
    PROVE  LET t == WriteBlock(s, b, cells)
           IN  /\ Sound(t, X) /\ Steady(s, t) /\ EntryPut(s.d, t.d, i, k, c)
               /\ InUse(t) = InUse(s) /\ t.ic = s.ic /\ t.d.inode = s.d.inode
  <1> DEFINE t == WriteBlock(s, b, cells)
             w == [at |-> "block", n |-> b, v |-> cells]
  <1>1. AfterCell(s, X, i, k, c, b, cells, t)
    BY CellEffect
  <1>2. /\ Sound(s, X) /\ i \in Dirs(s.d) /\ k \in Nat /\ k \div CPB < Final
        /\ s.d \in Disk /\ TreeOK(s.d) /\ Cached(s) /\ Live(s.d) \in SUBSET Inodes
    BY SoundParts, LiveParts DEF CellPut
  <1> HIDE DEF t
  <1>3. /\ w \in Writes /\ t.d = Perform(s.d, w) /\ t.log = Append(s.log, w)
        /\ t \in State /\ t.d \in Disk /\ t.d.free_list = t.fl
        /\ t.ic = s.ic /\ t.d.inode = s.d.inode
        /\ InUse(t) = InUse(s) /\ Owned(Kernel(t), Have(InUse(t)), X) /\ Agree(t)
        /\ Live(t.d) = Live(s.d) /\ Dirs(t.d) = Dirs(s.d)
        /\ \A j \in Dirs(s.d) : \A l \in Spots(s.d, j) :
              /\ SpotAt(t.d, j, l) = SpotAt(s.d, j, l) /\ SpotAt(t.d, j, l) # 0
              /\ CellOf(t.d, j, l) = IF j = i /\ l = k THEN c ELSE CellOf(s.d, j, l)
    BY <1>1 DEF AfterCell, AfterData
  <1> HIDE DEF w
  <1>4. \A j : Spots(t.d, j) = Spots(s.d, j)
    BY <1>3 DEF Spots
  <1>5. EntryPut(s.d, t.d, i, k, c)
    BY <1>2, <1>3, <1>4 DEF EntryPut
  <1>6. /\ Proper(s.d, c)
        /\ IsName(c) => ~IsNamed(s.d, c.ino)
        /\ IsName(c) => (s.ic[c.ino].ref > 0 => s.ic[c.ino].di.nlink > 0)
    BY DEF Fits
  <1>7. TreeOK(t.d)
    BY <1>2, <1>5, <1>6, PutTree
  <1>8. Cached(t)
    <2> SUFFICES ASSUME NEW j \in Inodes, t.ic[j].ref > 0, IsNamed(t.d, j)
                 PROVE  t.ic[j].di.nlink > 0
      BY <1>2, <1>3 DEF Cached
    <2>1. IsNamed(s.d, j) \/ (IsName(c) /\ c.ino = j)
      BY <1>5, PutNamed
    <2> QED
      BY <1>2, <1>3, <1>6, <2>1 DEF Cached
  <1>9. Sound(t, X)
    BY <1>3, <1>7, <1>8 DEF Sound
  <1>10. Leads(s, t)
    BY <1>2, <1>3, <1>9, WriteStep
  <1>11. Steady(s, t)
    BY <1>3, <1>10 DEF Steady
  <1> QED
    BY <1>3, <1>5, <1>9, <1>11 DEF t

\* A cell behind the last entry is written.
LEMMA CellBeyond ==
    ASSUME NEW s, NEW X, NEW i, NEW k, NEW c, NEW b, NEW cells,
           CellPut(s, X, i, k, c, b, cells), k \notin Spots(s.d, i)
    PROVE  LET t == WriteBlock(s, b, cells)
           IN  /\ Sound(t, X) /\ Keeps(s, t) /\ InUse(t) = InUse(s)
               /\ t.ic = s.ic /\ t.d.inode = s.d.inode
               /\ b = At(Kernel(t), <<i, k \div CPB>>) /\ t.d.block[b] = cells
  <1> DEFINE t == WriteBlock(s, b, cells)
             w == [at |-> "block", n |-> b, v |-> cells]
  <1>1. AfterCell(s, X, i, k, c, b, cells, t)
    BY CellEffect
  <1>2. /\ Sound(s, X) /\ i \in Dirs(s.d) /\ k \in Nat /\ k \div CPB < Final
        /\ s.d \in Disk /\ Live(s.d) \subseteq InUse(s) /\ b = At(Kernel(s), <<i, k \div CPB>>)
        /\ Dirs(s.d) \in SUBSET Live(s.d)
    BY SoundParts, LiveParts DEF CellPut
  <1> HIDE DEF t
  <1>3. /\ w \in Writes /\ t.d = Perform(s.d, w) /\ t.log = Append(s.log, w)
        /\ t \in State /\ t.d \in Disk /\ t.d.free_list = t.fl
        /\ t.ic = s.ic /\ t.d.inode = s.d.inode /\ t.d.block[b] = cells
        /\ InUse(t) = InUse(s) /\ Owned(Kernel(t), Have(InUse(t)), X)
        /\ Dirs(t.d) = Dirs(s.d)
        /\ \A p \in Have(InUse(s)) : At(Kernel(t), p) = At(Kernel(s), p)
        /\ \A j \in Dirs(s.d) : \A l \in Spots(s.d, j) :
              /\ SpotAt(t.d, j, l) # 0
              /\ CellOf(t.d, j, l) = IF j = i /\ l = k THEN c ELSE CellOf(s.d, j, l)
    BY <1>1 DEF AfterCell, AfterData
  <1> HIDE DEF w
  <1>4. SameEntries(s.d, t.d)
    BY <1>3 DEF SameEntries
  <1>5. Sound(t, X) /\ Keeps(s, t)
    BY <1>2, <1>3, <1>4, InodesStay
  <1>6. <<i, k \div CPB>> \in Have(InUse(s))
    <2>1. k \div CPB \in Slots
      BY <1>2, Position, Sizes DEF Slots, Final
    <2> QED
      BY <1>2, <2>1 DEF Have
  <1> QED
    BY <1>2, <1>3, <1>5, <1>6 DEF t

\* The new size brings the cell behind the last entry into the directory.
Grows(s, X, i, k, c, b, di, t) ==
    /\ Flushes(s, X, i, di, t) /\ k = s.d.inode[i].size /\ di.size = k + 1
    /\ k \div CPB < Final /\ b = At(Kernel(s), <<i, k \div CPB>>) /\ b # 0
    /\ s.d.block[b][(k % CPB) + 1] = c /\ Fits(s, i, c)
LEMMA DirGrown ==
    ASSUME NEW s, NEW X, NEW i, NEW k, NEW c, NEW b, NEW di, NEW t,
           Grows(s, X, i, k, c, b, di, t)
    PROVE  /\ Sound(t, X) /\ Steady(s, t) /\ EntryPut(s.d, t.d, i, k, c) /\ InUse(t) = InUse(s)
  <1> DEFINE w == [at |-> "inode", n |-> i, v |-> di]
             n == k \div CPB
  <1>1. /\ Sound(s, X) /\ i \in Inodes /\ s.ic[i].ref > 0
        /\ di \in DiskInode
        /\ di.type = s.ic[i].di.type /\ di.nlink = s.ic[i].di.nlink
        /\ k = s.d.inode[i].size /\ di.size = k + 1
        /\ n < Final /\ b = At(Kernel(s), <<i, n>>) /\ b # 0
        /\ s.d.block[b][(k % CPB) + 1] = c
    BY DEF Grows, Flushes
  <1>2. /\ i \in Dirs(s.d) /\ c \in Cell /\ Proper(s.d, c)
        /\ IsName(c) => ~IsNamed(s.d, c.ino)
        /\ IsName(c) => (s.ic[c.ino].ref > 0 => s.ic[c.ino].di.nlink > 0)
    BY DEF Grows, Fits
  <1>3. /\ s.d \in Disk /\ TreeOK(s.d) /\ Cached(s) /\ Live(s.d) \in SUBSET Inodes
        /\ Live(s.d) \subseteq InUse(s)
        /\ s.d.inode[i].type = "DIR" /\ Dirs(s.d) \in SUBSET Live(s.d) /\ k \in Nat
        /\ \A j \in Dirs(s.d) : Spots(s.d, j) \subseteq Nat
    <2>1. /\ s.d \in Disk /\ TreeOK(s.d) /\ Cached(s) /\ Live(s.d) \subseteq InUse(s)
      BY <1>1, SoundParts
    <2>2. /\ Live(s.d) \in SUBSET Inodes /\ s.d.inode[i].type = "DIR"
          /\ Dirs(s.d) \in SUBSET Live(s.d)
          /\ \A j \in Inodes : Spots(s.d, j) \subseteq Nat
      BY <1>2, <2>1, LiveParts
    <2>3. k \in Nat
      BY <1>1, <2>1, DiskParts, InodeParts
    <2> QED
      BY <2>1, <2>2, <2>3
  <1>4. /\ s.ic[i].di.type = "DIR" /\ s.ic[i].di.size = k /\ di.nlink > 0
        /\ s.ic[i].di.nlink > 0 /\ s.d.inode[i].nlink > 0
    BY <1>1, <1>3 DEF Cached
  <1>5. /\ w \in Writes /\ t.d = Perform(s.d, w) /\ t.log = Append(s.log, w)
        /\ t \in State /\ t.d \in Disk /\ t.d.free_list = t.fl
        /\ t.d.block = s.d.block
        /\ t.d.inode[i] = di /\ \A j \in Inodes \ {i} : t.d.inode[j] = s.d.inode[j]
        /\ t.ic[i] = [di |-> di, ref |-> s.ic[i].ref, dirty |-> FALSE]
        /\ \A j \in Inodes \ {i} : t.ic[j] = s.ic[j]
        /\ InUse(t) = InUse(s) /\ Owned(Kernel(t), Have(InUse(t)), X) /\ Agree(t)
        /\ Live(t.d) = Live(s.d) /\ Dirs(t.d) = Dirs(s.d)
        /\ \A p \in Have(InUse(s)) : At(Kernel(t), p) = At(Kernel(s), p)
        /\ \A j \in Live(s.d), x \in Slots : At(OnDisk(s.d), <<j, x>>) # 0 =>
              At(OnDisk(t.d), <<j, x>>) = At(OnDisk(s.d), <<j, x>>)
    <2>1. AfterFlush(s, X, i, di, t)
      BY FlushParts DEF Grows
    <2> QED
      BY <1>4, <2>1 DEF AfterFlush
  <1> HIDE DEF w, n
  <1>6. t.ic[i].di = di /\ t.ic[i].ref = s.ic[i].ref
    BY <1>5
  <1>7. /\ \A j \in Dirs(s.d) \ {i} : Spots(t.d, j) = Spots(s.d, j)
        /\ Spots(t.d, i) = Spots(s.d, i) \cup {k} /\ k \in Spots(t.d, i)
    <2>1. \A j \in Dirs(s.d) \ {i} : Spots(t.d, j) = Spots(s.d, j)
      BY <1>3, <1>5 DEF Spots
    <2>2. 0..((k + 1) - 1) = (0..(k - 1)) \cup {k}
      BY <1>3
    <2> QED
      BY <1>1, <1>5, <2>1, <2>2 DEF Spots
  <1>8. ASSUME NEW j \in Dirs(s.d), NEW l \in Spots(s.d, j)
        PROVE  SpotAt(t.d, j, l) # 0 /\ CellOf(t.d, j, l) = CellOf(s.d, j, l)
    <2>1. SpotAt(s.d, j, l) \in Blocks /\ l \div CPB \in Slots
      BY <1>1, DirPlaces
    <2>2. SpotAt(s.d, j, l) # 0
      BY <2>1, Sizes
    <2>3. SpotAt(t.d, j, l) = SpotAt(s.d, j, l)
      BY <1>3, <1>5, <2>1, <2>2 DEF SpotAt
    <2> QED
      BY <1>5, <2>2, <2>3 DEF CellOf
  <1>9. SpotAt(t.d, i, k) = b /\ CellOf(t.d, i, k) = c
    <2>1. n \in Slots /\ <<i, n>> \in Have(InUse(s))
      <3>1. n \in Slots
        <4>1. n \in Nat
          BY <1>3, Position DEF n
        <4> QED
          BY <1>1, <4>1, Sizes DEF Slots, Final
      <3> QED
        BY <1>2, <1>3, <3>1 DEF Have
    <2>2. At(Kernel(t), <<i, n>>) = b
      BY <1>1, <1>5, <2>1
    <2>3. /\ OnDisk(t.d).ino[i] = di /\ Kernel(t).ino[i] = di
          /\ OnDisk(t.d).block = Kernel(t).block
      <3>1. /\ Kernel(t).ino[i] = t.ic[i].di /\ Kernel(t).block = t.d.block
            /\ OnDisk(t.d).ino = t.d.inode /\ OnDisk(t.d).block = t.d.block
        BY <1>1, <1>6, KernelIno
      <3> QED
        BY <1>5, <1>6, <3>1
    <2>4. <<i, n>>[1] = i /\ <<i, n>>[2] = n
      OBVIOUS
    <2>5. At(OnDisk(t.d), <<i, n>>) = At(Kernel(t), <<i, n>>)
      BY <2>3, <2>4 DEF At
    <2> QED
      BY <1>1, <1>5, <2>2, <2>5, Zenon DEF SpotAt, CellOf, n
  <1>10. EntryPut(s.d, t.d, i, k, c)
    <2>1. \A j \in Dirs(s.d) : Spots(s.d, j) \subseteq Spots(t.d, j)
      BY <1>7
    <2>2. ASSUME NEW j \in Dirs(s.d), NEW l \in Spots(t.d, j), ~(j = i /\ l = k)
          PROVE  l \in Spots(s.d, j)
      BY <1>7, <2>2
    <2> QED
      BY <1>1, <1>2, <1>5, <1>7, <1>8, <1>9, <2>1, <2>2 DEF EntryPut, n
  <1>11. TreeOK(t.d)
    BY <1>2, <1>3, <1>10, PutTree
  <1>12. Cached(t)
    <2> SUFFICES ASSUME NEW j \in Inodes, t.ic[j].ref > 0
                 PROVE  /\ t.ic[j].di.type = t.d.inode[j].type /\ t.ic[j].di.type # "FREE"
                        /\ t.ic[j].di.size = t.d.inode[j].size
                        /\ ~t.ic[j].dirty => t.ic[j].di = t.d.inode[j]
                        /\ t.ic[j].di.nlink > 0 => t.d.inode[j].nlink > 0
                        /\ t.ic[j].di.type = "DIR" \/ IsNamed(t.d, j) => t.ic[j].di.nlink > 0
      BY DEF Cached
    <2>1. CASE j = i
      BY <1>1, <1>4, <1>5, <1>6, <2>1
    <2>2. CASE j # i
      <3>1. t.ic[j] = s.ic[j] /\ t.d.inode[j] = s.d.inode[j]
        BY <1>5, <2>2
      <3>2. ASSUME IsNamed(t.d, j)
            PROVE  t.ic[j].di.nlink > 0
        <4>1. IsNamed(s.d, j) \/ (IsName(c) /\ c.ino = j)
          BY <1>10, <3>2, PutNamed
        <4> QED
          BY <1>2, <1>3, <3>1, <4>1 DEF Cached
      <3> QED
        BY <1>3, <3>1, <3>2 DEF Cached
    <2> QED
      BY <2>1, <2>2
  <1>13. Sound(t, X)
    BY <1>5, <1>11, <1>12 DEF Sound
  <1>14. Leads(s, t)
    BY <1>1, <1>5, <1>13, WriteStep
  <1>15. Steady(s, t)
    <2>1. \A j \in Inodes :
            /\ t.ic[j].ref = s.ic[j].ref
            /\ s.ic[j].ref = 0 => t.ic[j] = s.ic[j]
            /\ s.ic[j].ref > 0 => /\ t.ic[j].di.type = s.ic[j].di.type
                                  /\ t.ic[j].di.nlink = s.ic[j].di.nlink
            /\ t.d.inode[j].type = s.d.inode[j].type
            /\ \/ t.d.inode[j].nlink = s.d.inode[j].nlink
               \/ s.ic[j].ref > 0 /\ t.d.inode[j].nlink = s.ic[j].di.nlink
      BY <1>1, <1>3, <1>4, <1>5, <1>6
    <2> QED
      BY <1>14, <2>1 DEF Steady
  <1> QED
    BY <1>5, <1>10, <1>13, <1>15

-----------------------------------------------------------------------------
(* Loops                                                                   *)

LEMMA Induct ==
    ASSUME NEW N \in Nat, NEW V, NEW g, g[0] \in V[0],
           \A k \in 1..N : g[k - 1] \in V[k - 1] => g[k] \in V[k]
    PROVE  \A k \in 0..N : g[k] \in V[k]
  <1> SUFFICES ASSUME NEW x \in 0..N, g[x] \notin V[x]
               PROVE  FALSE
    OBVIOUS
  <1> DEFINE S == {k \in 0..N : g[k] \notin V[k]}
  <1>1. S \in SUBSET Nat /\ S # {}
    OBVIOUS
  <1>2. PICK k \in S : \A y \in S : k <= y
    <2> HIDE DEF S
    <2> QED
      BY <1>1, HasLeast
  <1>3. k \in 0..N /\ g[k] \notin V[k] /\ k # 0
    OBVIOUS
  <1>4. k \in 1..N /\ k - 1 \in 0..N /\ ~(k <= k - 1)
    BY <1>3
  <1>5. g[k - 1] \in V[k - 1]
    BY <1>2, <1>4
  <1> QED
    BY <1>3, <1>4, <1>5

Iterates(f, N, v0, F) == f = [k \in 0..N |-> IF k = 0 THEN v0 ELSE F[k][f[k - 1]]]
Remains(N, V, F) == \A k \in 1..N : \A v \in V[k - 1] : F[k][v] \in V[k]
Within(f, N, V) == \A k \in 0..N : f[k] \in V[k]

LEMMA Recursion ==
    ASSUME NEW N \in Nat, NEW V, NEW v0 \in V[0], NEW F, Remains(N, V, F)
    PROVE  \E f : Iterates(f, N, v0, F) /\ Within(f, N, V)
  <1> USE DEF Iterates, Remains, Within
  <1> DEFINE Ok(n) == \E f : /\ f = [k \in 0..n |-> IF k = 0 THEN v0 ELSE F[k][f[k - 1]]]
                             /\ \A k \in 0..n : f[k] \in V[k]
             S == {n \in 0..N : ~Ok(n)}
  <1>1. Ok(0)
    <2> DEFINE f == [k \in 0..0 |-> v0]
    <2>1. \A k \in 0..0 : k = 0
      OBVIOUS
    <2>2. f = [k \in 0..0 |-> IF k = 0 THEN v0 ELSE F[k][f[k - 1]]]
      BY <2>1
    <2>3. \A k \in 0..0 : f[k] \in V[k]
      BY <2>1
    <2> HIDE DEF f
    <2> QED
      BY <2>2, <2>3
  <1>2. ASSUME NEW n \in 1..N, Ok(n - 1)
        PROVE  Ok(n)
    <2>1. PICK m \in Nat : m = n - 1 /\ n = m + 1
      OBVIOUS
    <2>2. PICK f : /\ f = [k \in 0..m |-> IF k = 0 THEN v0 ELSE F[k][f[k - 1]]]
                   /\ \A k \in 0..m : f[k] \in V[k]
      BY <1>2, <2>1
    <2> DEFINE g == [k \in 0..n |-> IF k = n THEN F[n][f[m]] ELSE f[k]]
    <2>3. /\ \A k \in 0..m : g[k] = f[k]
          /\ g[n] = F[n][f[m]]
      <3>1. \A k \in 0..m : k \in 0..n /\ k # n
        BY <2>1
      <3>2. n \in 0..n
        BY <2>1
      <3> QED
        BY <3>1, <3>2
    <2>4. \A k \in 0..n : k = n \/ k \in 0..m
      BY <2>1
    <2>5. f[m] \in V[m] /\ m \in 0..m /\ n # 0
      BY <2>1, <2>2
    <2>6. F[n][f[m]] \in V[n]
      BY <2>1, <2>5
    <2>7. ASSUME NEW k \in 0..n
          PROVE  g[k] = IF k = 0 THEN v0 ELSE F[k][g[k - 1]]
      <3>1. CASE k = n
        BY <2>1, <2>3, <2>5, <3>1
      <3>2. CASE k \in 0..m
        <4>1. f[k] = IF k = 0 THEN v0 ELSE F[k][f[k - 1]]
          BY <2>2, <3>2
        <4>2. k # 0 => k - 1 \in 0..m
          BY <2>1, <3>2
        <4> HIDE DEF g
        <4> QED
          BY <2>3, <3>2, <4>1, <4>2
      <3> QED
        BY <2>4, <3>1, <3>2
    <2>8. g = [k \in 0..n |-> g[k]]
      OBVIOUS
    <2> HIDE DEF g
    <2>9. g = [k \in 0..n |-> IF k = 0 THEN v0 ELSE F[k][g[k - 1]]]
      BY <2>7, <2>8
    <2>10. \A k \in 0..n : g[k] \in V[k]
      BY <2>2, <2>3, <2>4, <2>6
    <2> QED
      BY <2>9, <2>10
  <1>3. S = {}
    <2> SUFFICES ASSUME S # {}
                 PROVE  FALSE
      OBVIOUS
    <2> HIDE DEF Ok
    <2>1. S \in SUBSET Nat
      OBVIOUS
    <2>2. PICK k \in S : \A y \in S : k <= y
      <3> HIDE DEF S
      <3> QED
        BY <2>1, HasLeast
    <2>3. k \in 0..N /\ ~Ok(k) /\ k # 0
      BY <1>1
    <2>4. k \in 1..N /\ k - 1 \in 0..N /\ ~(k <= k - 1)
      BY <2>3
    <2>5. Ok(k - 1)
      BY <2>2, <2>4
    <2> QED
      BY <1>2, <2>3, <2>4, <2>5
  <1>4. Ok(N)
    <2> HIDE DEF Ok
    <2> QED
      BY <1>3
  <1> QED
    BY <1>4

-----------------------------------------------------------------------------
(* fs_write()                                                              *)

\* What the loop makes of s, when i is no directory.
Wrote(s, X) ==
    {r \in [s : State, ok : BOOLEAN] : Sound(r.s, X) /\ Keeps(s, r.s) /\ InUse(r.s) = InUse(s)}

LEMMA ChunkSound ==
    ASSUME NEW s, NEW X, NEW i \in Inodes, s.ic[i].ref > 0, s.ic[i].di.type # "DIR",
           NEW off \in Nat, NEW cells \in Seq(Cell), NEW bn \in Nat, NEW r \in Wrote(s, X)
    PROVE  WriteChunk(i, off, cells, r, bn) \in Wrote(s, X)
  <1>1. /\ r.s \in State /\ Sound(r.s, X) /\ Keeps(s, r.s) /\ InUse(r.s) = InUse(s)
        /\ r.s.ic[i].ref > 0 /\ r.s.ic[i].di.type # "DIR"
    BY DEF Wrote, Keeps, Steady
  <1>2. CASE ~r.ok
    BY <1>2 DEF WriteChunk
  <1>3. CASE r.ok
    <2> DEFINE m == bmap(r.s, i, bn)
    <2>1. Found(r.s, X, i, bn, m)
      BY <1>1, bmapSound
    <2> HIDE DEF m
    <2>2. /\ Sound(m.s, X) /\ Keeps(r.s, m.s) /\ InUse(m.s) = InUse(r.s)
          /\ m.blk # 0 => bn < Final /\ m.blk = At(Kernel(m.s), <<i, bn>>)
      BY <2>1 DEF Found
    <2>3. Keeps(s, m.s) /\ m.s \in State
      BY <1>1, <2>2, KeepsOn, SoundParts
    <2>4. CASE m.blk = 0
      <3>1. WriteChunk(i, off, cells, r, bn) = [s |-> m.s, ok |-> FALSE]
        BY <1>3, <2>4 DEF WriteChunk, m
      <3> QED
        BY <1>1, <2>2, <2>3, <3>1 DEF Wrote
    <2>5. CASE m.blk # 0
      <3> DEFINE new == [c \in 1..CPB |->
                            IF bn * CPB + (c - 1) - off + 1 \in DOMAIN cells
                            THEN cells[bn * CPB + (c - 1) - off + 1]
                            ELSE m.s.d.block[m.blk][c]]
                 t == WriteBlock(m.s, m.blk, new)
      <3>1. WriteChunk(i, off, cells, r, bn) = [s |-> t, ok |-> TRUE]
        BY <1>3, <2>5 DEF WriteChunk, m
      <3>2. bn \in Slots /\ bn # Final
        BY <2>2, <2>5, Sizes DEF Slots, Final
      <3>3. /\ i \in InUse(m.s) \ Dirs(m.s.d) /\ m.s.d \in Disk
            /\ Apart(Kernel(m.s), Have(InUse(m.s))) /\ InUse(m.s) \in SUBSET Inodes
        <4>1. m.s.ic[i].ref > 0 /\ m.s.ic[i].di.type # "DIR"
          BY <1>1, <2>2 DEF Keeps, Steady
        <4>2. Cached(m.s) /\ m.s.d \in Disk
          BY <2>2, SoundParts
        <4>3. i \notin Dirs(m.s.d)
          BY <4>1, <4>2 DEF Cached, Dirs
        <4> QED
          BY <2>2, <4>1, <4>2, <4>3, SoundParts DEF InUse
      <3>4. m.blk \in Blocks
        <4>1. <<i, bn>> \in Have(InUse(m.s))
          BY <3>2, <3>3 DEF Have
        <4>2. m.blk \in 0..NBLOCKS
          BY <2>2, <2>5, <3>3, <4>1 DEF Apart
        <4> QED
          BY <2>5, <4>2, Sizes
      <3>5. new \in [1..CPB -> Cell]
        <4>1. m.s.d.block[m.blk] \in [1..CPB -> Cell]
          BY <3>3, <3>4, DiskParts
        <4>2. \A x \in DOMAIN cells : cells[x] \in Cell
          OBVIOUS
        <4> QED
          BY <4>1, <4>2
      <3> HIDE DEF new
      <3>8. \E j \in InUse(m.s) \ Dirs(m.s.d), n \in Slots :
               n # Final /\ m.blk = At(Kernel(m.s), <<j, n>>)
        BY <2>2, <2>5, <3>2, <3>3
      <3>6. Sound(t, X) /\ Keeps(m.s, t) /\ InUse(t) = InUse(m.s)
        BY <2>2, <3>4, <3>5, <3>8, WriteBlockSound, Zenon
      <3> HIDE DEF t
      <3>7. Keeps(s, t) /\ t \in State
        BY <2>3, <3>6, KeepsOn, SoundParts
      <3> QED
        BY <1>1, <2>2, <3>1, <3>6, <3>7 DEF Wrote
    <2> QED
      BY <2>4, <2>5
  <1> QED
    BY <1>2, <1>3

LEMMA ChunksSound ==
    ASSUME NEW s, NEW X, Sound(s, X), NEW i \in Inodes, s.ic[i].ref > 0, s.ic[i].di.type # "DIR",
           NEW off \in Nat, NEW cells \in Seq(Cell), cells # <<>>
    PROVE  WriteChunks(s, i, off, cells) \in Wrote(s, X)
  <1> DEFINE first == off \div CPB
             last == (off + Len(cells) - 1) \div CPB
             N == last - first + 1
             v0 == [s |-> s, ok |-> TRUE]
             W == Wrote(s, X)
             V == [k \in 0..N |-> W]
             F == [k \in 1..N |-> [v \in W |-> WriteChunk(i, off, cells, v, first + k - 1)]]
             G(f) == [n \in 0..N |-> IF n = 0 THEN v0
                                     ELSE WriteChunk(i, off, cells, f[n - 1], first + n - 1)]
             g == CHOOSE f : f = G(f)
  <1>1. first \in Nat /\ N \in Nat
    <2>1. PICK e \in Nat : e = off + Len(cells) - 1 /\ off <= e
      OBVIOUS
    <2>7. PICK z \in Nat : z = e + 1
      OBVIOUS
    <2>2. first \in Nat
      BY Position
    <2>3. off \in 0..(z - 1) /\ z - 1 = e
      BY <2>1, <2>7
    <2>4. off \div CPB \in 0..((z - 1) \div CPB)
      BY <2>3, LastPosition
    <2>5. first \in 0..last
      BY <2>1, <2>3, <2>4
    <2>6. last \in Nat
      BY <2>1, Position
    <2> HIDE DEF first, last
    <2> QED
      BY <2>2, <2>5, <2>6
  <1>2. v0 \in W
    BY KeepsSelf, SoundParts DEF Wrote
  <1>3. \A k \in 1..N : \A v \in W : WriteChunk(i, off, cells, v, first + k - 1) \in W
    <2> SUFFICES ASSUME NEW k \in 1..N, NEW v \in W
                 PROVE  WriteChunk(i, off, cells, v, first + k - 1) \in W
      OBVIOUS
    <2> HIDE DEF first, N
    <2>1. first + k - 1 \in Nat
      BY <1>1
    <2> QED
      BY <2>1, ChunkSound
  <1> HIDE DEF N, W, v0, first
  <1>4. \E f : f = G(f)
    <2>1. \A k \in 1..N : k \in 0..N /\ k - 1 \in 0..N
      BY <1>1
    <2>2. 0 \in 0..N
      BY <1>1
    <2>3. v0 \in V[0]
      BY <1>2, <2>2
    <2>4. Remains(N, V, F)
      BY <1>3, <2>1 DEF Remains
    <2>5. PICK f : Iterates(f, N, v0, F) /\ Within(f, N, V)
      <3> HIDE DEF F, V
      <3> QED
        BY <1>1, <2>3, <2>4, Recursion
    <2>6. \A k \in 0..N : f[k] \in W
      BY <2>5 DEF Within
    <2>7. \A k \in 0..N : k # 0 => F[k][f[k - 1]] = WriteChunk(i, off, cells, f[k - 1], first + k - 1)
      <3>1. \A k \in 0..N : k # 0 => k \in 1..N
        BY <1>1
      <3> QED
        BY <2>1, <2>6, <3>1
    <2> HIDE DEF F
    <2>8. f = G(f)
      BY <2>5, <2>7 DEF Iterates
    <2> HIDE DEF G
    <2> QED
      BY <2>8
  <1>5. g = G(g)
    BY <1>4
  <1>6. WriteChunks(s, i, off, cells) = g[N]
    BY DEF WriteChunks, first, N, v0
  <1> HIDE DEF g
  <1>7. /\ g[0] = v0
        /\ \A k \in 1..N : g[k] = WriteChunk(i, off, cells, g[k - 1], first + k - 1)
    <2>1. 0 \in 0..N /\ \A k \in 1..N : k \in 0..N /\ k # 0
      BY <1>1
    <2> QED
      BY <1>5, <2>1
  <1>8. \A k \in 0..N : g[k] \in V[k]
    <2>1. \A k \in 1..N : k \in 0..N /\ k - 1 \in 0..N
      BY <1>1
    <2>2. 0 \in 0..N
      BY <1>1
    <2>3. g[0] \in V[0]
      BY <1>2, <1>7, <2>2
    <2>4. \A k \in 1..N : g[k - 1] \in V[k - 1] => g[k] \in V[k]
      BY <1>3, <1>7, <2>1
    <2> HIDE DEF V
    <2> QED
      BY <1>1, <2>3, <2>4, Induct
  <1>9. N \in 0..N
    BY <1>1
  <1> QED
    BY <1>6, <1>8, <1>9 DEF W

\* The inode with another size.
Resized(t, i, z) == [t.ic[i].di EXCEPT !.size = z]

LEMMA ResizeFlushes ==
    ASSUME NEW t, NEW X, Sound(t, X), NEW i \in Inodes, t.ic[i].ref > 0, NEW z \in Nat
    PROVE  Flushes(t, X, i, Resized(t, i, z), fs_iupdate(Pick(t, i, Resized(t, i, z)), i))
           /\ Resized(t, i, z).size = z
  <1>1. t \in State /\ t.ic[i].di \in DiskInode
    BY SoundParts, StateParts
  <1> DEFINE di == Resized(t, i, z)
  <1>2. /\ di \in DiskInode /\ di.size = z /\ di.type = t.ic[i].di.type
        /\ di.nlink = t.ic[i].di.nlink
        /\ di.direct = t.ic[i].di.direct /\ di.indirect = t.ic[i].di.indirect
    BY <1>1 DEF Resized, DiskInode
  <1> HIDE DEF di
  <1>3. Flushed(t, fs_iupdate(Pick(t, i, di), i), i, di)
    BY <1>1, <1>2, IupdateEffect
  <1>4. Flushes(t, X, i, di, fs_iupdate(Pick(t, i, di), i))
    BY <1>2, <1>3 DEF Flushes
  <1> QED
    BY <1>2, <1>4 DEF di

LEMMA SizedPick ==
    ASSUME NEW t \in State, NEW i \in Inodes, NEW end \in Nat
    PROVE  [t EXCEPT !.ic[i].di.size = IF end > @ THEN end ELSE @] =
           Pick(t, i, Resized(t, i, IF end > t.ic[i].di.size THEN end ELSE t.ic[i].di.size))
  <1>1. t.ic \in [Inodes -> CacheSlot] /\ t.ic[i] \in CacheSlot
    BY StateParts
  <1> QED
    BY <1>1 DEF Pick, Resized, State, CacheSlot, DiskInode

\* fs_write(), to anything but a directory.
LEMMA WriteSound ==
    ASSUME NEW s, NEW X, Sound(s, X), NEW i \in Inodes, s.ic[i].ref > 0, s.ic[i].di.type # "DIR",
           NEW off \in Nat, NEW cells \in Seq(Cell), cells # <<>>
    PROVE  fs_write(s, i, off, cells) \in Wrote(s, X)
  <1> DEFINE r == WriteChunks(s, i, off, cells)
             end == off + Len(cells)
             size == IF end > r.s.ic[i].di.size THEN end ELSE r.s.ic[i].di.size
             di == Resized(r.s, i, size)
             t == fs_iupdate(Pick(r.s, i, di), i)
  <1>1. r \in Wrote(s, X)
    BY ChunksSound
  <1> HIDE DEF r
  <1>2. /\ r.s \in State /\ Sound(r.s, X) /\ Keeps(s, r.s) /\ InUse(r.s) = InUse(s)
        /\ r.s.ic[i].ref > 0 /\ r.s.ic[i].di.type # "DIR" /\ r.s.ic[i].di.size \in Nat
    BY <1>1, StateParts, InodeParts DEF Wrote, Keeps, Steady
  <1>3. CASE ~r.ok
    BY <1>1, <1>3 DEF fs_write, r
  <1>4. CASE r.ok
    <2>1. end \in Nat /\ size \in Nat
      BY <1>2
    <2>2. fs_write(s, i, off, cells) = [s |-> t, ok |-> TRUE]
      <3>1. [r.s EXCEPT !.ic[i].di.size = IF end > @ THEN end ELSE @] = Pick(r.s, i, di)
        BY <1>2, <2>1, SizedPick
      <3> QED
        BY <1>4, <3>1, Zenon DEF fs_write, r
    <2> HIDE DEF size
    <2>3. Flushes(r.s, X, i, di, t)
      BY <1>2, <2>1, ResizeFlushes
    <2> HIDE DEF t, di
    <2>4. di.type # "DIR"
      BY <1>2, <2>3 DEF Flushes
    <2>5. Sound(t, X) /\ Keeps(r.s, t) /\ InUse(t) = InUse(r.s)
      BY <2>3, <2>4, FlushSound
    <2>6. Keeps(s, t) /\ t \in State
      BY <1>2, <2>5, KeepsOn, SoundParts
    <2> QED
      BY <1>2, <2>2, <2>5, <2>6 DEF Wrote
  <1> QED
    BY <1>3, <1>4

\* Directories and links stay as long as the inodes do.
LEMMA SameInodes ==
    ASSUME NEW s, NEW t, t.d.inode = s.d.inode
    PROVE  Live(t.d) = Live(s.d) /\ Dirs(t.d) = Dirs(s.d)
  BY DEF Live, Dirs

\* What a write of one cell writes.
OneCell(s, b, k, c) ==
    [x \in 1..CPB |-> IF (k \div CPB) * CPB + (x - 1) - k + 1 \in DOMAIN <<c>>
                      THEN <<c>>[(k \div CPB) * CPB + (x - 1) - k + 1] ELSE s.d.block[b][x]]

LEMMA OneCellPut ==
    ASSUME NEW s, NEW X, Sound(s, X), NEW i \in Dirs(s.d), NEW k \in Nat, k \div CPB < Final,
           NEW b, b = At(Kernel(s), <<i, k \div CPB>>), b # 0, NEW c \in Cell
    PROVE  CellPut(s, X, i, k, c, b, OneCell(s, b, k, c))
  <1> DEFINE n == k \div CPB
             cells == OneCell(s, b, k, c)
  <1>1. n \in Nat /\ (k % CPB) + 1 \in 1..CPB
    BY Position
  <1>2. b \in Blocks
    <2>1. n \in Slots
      BY <1>1, Sizes DEF Slots, Final
    <2>2. i \in InUse(s) /\ Apart(Kernel(s), Have(InUse(s)))
      BY SoundParts, LiveParts
    <2>3. <<i, n>> \in Have(InUse(s))
      BY <2>1, <2>2 DEF Have
    <2>4. b \in 0..NBLOCKS
      BY <2>2, <2>3 DEF Apart
    <2> QED
      BY <2>4, Sizes
  <1>3. s.d.block[b] \in [1..CPB -> Cell]
    BY <1>2, SoundParts, DiskParts
  <1>4. \A x \in 1..CPB : (n * CPB + (x - 1) - k + 1 = 1) <=> x = (k % CPB) + 1
    BY <1>1, Position
  <1>5. DOMAIN <<c>> = {1} /\ <<c>>[1] = c
    OBVIOUS
  <1>6. cells = [x \in 1..CPB |-> IF x = (k % CPB) + 1 THEN c ELSE s.d.block[b][x]]
    <2>1. \A x \in 1..CPB :
             (IF n * CPB + (x - 1) - k + 1 \in DOMAIN <<c>>
              THEN <<c>>[n * CPB + (x - 1) - k + 1] ELSE s.d.block[b][x])
             = (IF x = (k % CPB) + 1 THEN c ELSE s.d.block[b][x])
      BY <1>4, <1>5
    <2> QED
      BY <2>1 DEF OneCell
  <1> HIDE DEF cells
  <1>7. /\ cells \in [1..CPB -> Cell] /\ cells[(k % CPB) + 1] = c
        /\ SameBut(1..CPB, cells, s.d.block[b], (k % CPB) + 1)
    BY <1>1, <1>3, <1>6 DEF SameBut
  <1> QED
    BY <1>7 DEF CellPut, cells

\* fs_write() of one cell.
LEMMA OneChunk ==
    ASSUME NEW s, NEW i, NEW k \in Nat, NEW c
    PROVE  LET m == bmap(s, i, k \div CPB)
           IN  WriteChunks(s, i, k, <<c>>) =
               IF m.blk = 0 THEN [s |-> m.s, ok |-> FALSE]
               ELSE [s |-> WriteBlock(m.s, m.blk, OneCell(m.s, m.blk, k, c)), ok |-> TRUE]
  <1> DEFINE first == k \div CPB
             v0 == [s |-> s, ok |-> TRUE]
             G(f) == [n \in 0..1 |-> IF n = 0 THEN v0
                                     ELSE WriteChunk(i, k, <<c>>, f[n - 1], first + n - 1)]
             g == CHOOSE f : f = G(f)
             h == [n \in 0..1 |-> IF n = 0 THEN v0 ELSE WriteChunk(i, k, <<c>>, v0, first)]
  <1>1. first \in Nat
    BY Position
  <1>2. Len(<<c>>) = 1 /\ k + 1 - 1 = k
    OBVIOUS
  <1> HIDE DEF first
  <1>3. first - first + 1 = 1 /\ first + 1 - 1 = first
    BY <1>1
  <1>4. WriteChunks(s, i, k, <<c>>) = g[1]
    BY <1>2, <1>3 DEF WriteChunks, first
  <1>5. h = G(h)
    <2>1. h[0] = v0
      OBVIOUS
    <2>2. \A n \in 0..1 : n # 0 => n = 1 /\ n - 1 = 0 /\ first + n - 1 = first
      BY <1>1
    <2> HIDE DEF v0
    <2> QED
      BY <2>1, <2>2
  <1>6. g = G(g)
    <2> HIDE DEF h, G
    <2> QED
      BY <1>5
  <1> HIDE DEF g
  <1>7. g[0] = v0
    BY <1>6
  <1>8. g[1] = WriteChunk(i, k, <<c>>, g[0], first)
    <2>1. 1 \in 0..1 /\ 1 # 0 /\ 1 - 1 = 0
      OBVIOUS
    <2> QED
      BY <1>3, <1>6, <2>1
  <1>9. g[1] = WriteChunk(i, k, <<c>>, v0, first)
    BY <1>7, <1>8
  <1> QED
    BY <1>4, <1>9, Zenon DEF WriteChunk, OneCell, first

\* After the loop, with one cell for a directory.
AfterChunk(s, X, i, k, c, r) ==
    /\ Sound(r.s, X) /\ Steady(s, r.s) /\ InUse(r.s) = InUse(s) /\ Others(s, r.s, i)
    /\ ~r.ok => SameEntries(s.d, r.s.d) /\ k \notin Spots(s.d, i)
    /\ r.ok /\ k \in Spots(s.d, i) => EntryPut(s.d, r.s.d, i, k, c)
    /\ r.ok /\ k \notin Spots(s.d, i) =>
          /\ SameEntries(s.d, r.s.d) /\ Keeps(s, r.s) /\ k \div CPB < Final
          /\ At(Kernel(r.s), <<i, k \div CPB>>) # 0
          /\ r.s.d.block[At(Kernel(r.s), <<i, k \div CPB>>)][(k % CPB) + 1] = c

LEMMA DirChunk ==
    ASSUME NEW s, NEW X, Sound(s, X), NEW i, NEW c, Fits(s, i, c), s.ic[i].ref > 0, NEW k \in Nat
    PROVE  AfterChunk(s, X, i, k, c, WriteChunks(s, i, k, <<c>>))
  <1> DEFINE r == WriteChunks(s, i, k, <<c>>)
             n == k \div CPB
             m == bmap(s, i, n)
  <1>1. /\ s.d \in Disk /\ i \in Dirs(s.d) /\ i \in Inodes /\ n \in Nat /\ c \in Cell
        /\ Live(s.d) \in SUBSET Inodes /\ Dirs(s.d) \in SUBSET Live(s.d)
    BY SoundParts, LiveParts, Position DEF Fits
  <1> HIDE DEF n
  <1>2. /\ Found(s, X, i, n, m)
        /\ n < Final /\ At(Kernel(s), <<i, n>>) # 0 => m = [s |-> s, blk |-> At(Kernel(s), <<i, n>>)]
    BY <1>1, bmapSound
  <1>3. r = IF m.blk = 0 THEN [s |-> m.s, ok |-> FALSE]
            ELSE [s |-> WriteBlock(m.s, m.blk, OneCell(m.s, m.blk, k, c)), ok |-> TRUE]
    BY OneChunk DEF n
  <1> HIDE DEF m, r
  <1>4. /\ Sound(m.s, X) /\ Keeps(s, m.s) /\ InUse(m.s) = InUse(s) /\ Others(s, m.s, i)
        /\ m.blk # 0 => n < Final /\ m.blk = At(Kernel(m.s), <<i, n>>)
        /\ Steady(s, m.s) /\ SameEntries(s.d, m.s.d)
    BY <1>2 DEF Found, Keeps
  <1>5. Live(m.s.d) = Live(s.d) /\ Dirs(m.s.d) = Dirs(s.d) /\ Spots(m.s.d, i) = Spots(s.d, i)
    BY <1>4, SameInodes DEF Others, Spots
  <1>6. ASSUME k \in Spots(s.d, i)
        PROVE  m.blk # 0
    <2>1. /\ SpotAt(s.d, i, k) = At(Kernel(s), <<i, k \div CPB>>)
          /\ SpotAt(s.d, i, k) \in Blocks /\ k \div CPB < Final
      BY <1>1, <1>6, DirPlaces
    <2>2. n < Final /\ At(Kernel(s), <<i, n>>) # 0
      BY <2>1, Sizes DEF n
    <2> QED
      BY <1>2, <2>2
  <1>7. CASE m.blk = 0
    <2>1. r.s = m.s /\ ~r.ok
      BY <1>3, <1>7
    <2> QED
      BY <1>4, <1>6, <1>7, <2>1 DEF AfterChunk, r
  <1>8. CASE m.blk # 0
    <2> DEFINE cells == OneCell(m.s, m.blk, k, c)
               t == WriteBlock(m.s, m.blk, cells)
    <2>1. r.s = t /\ r.ok
      BY <1>3, <1>8
    <2>2. CellPut(m.s, X, i, k, c, m.blk, cells)
      BY <1>1, <1>4, <1>5, <1>8, OneCellPut DEF n
    <2>3. Fits(m.s, i, c)
      BY <1>4, <1>5, FitsStays
    <2> HIDE DEF t, cells
    <2>4. CASE k \in Spots(s.d, i)
      <3>1. /\ Sound(t, X) /\ Steady(m.s, t) /\ EntryPut(m.s.d, t.d, i, k, c)
            /\ InUse(t) = InUse(m.s) /\ t.ic = m.s.ic /\ t.d.inode = m.s.d.inode
        BY <1>5, <2>2, <2>3, <2>4, CellReplaced DEF t
      <3>2. SameEntries(t.d, t.d) /\ Others(m.s, t, i)
        BY <3>1, SameDisk, SameOthers
      <3>3. EntryPut(s.d, t.d, i, k, c)
        BY <1>4, <1>5, <3>1, <3>2, PutAmid
      <3>4. Steady(s, t) /\ Others(s, t, i)
        BY <1>4, <3>1, <3>2, SteadyOn, OthersOn
      <3> QED
        BY <1>4, <2>1, <2>4, <3>1, <3>3, <3>4 DEF AfterChunk, r
    <2>5. CASE k \notin Spots(s.d, i)
      <3>1. /\ Sound(t, X) /\ Keeps(m.s, t) /\ InUse(t) = InUse(m.s)
            /\ t.ic = m.s.ic /\ t.d.inode = m.s.d.inode
            /\ m.blk = At(Kernel(t), <<i, n>>) /\ t.d.block[m.blk] = cells
        BY <1>5, <2>2, <2>5, CellBeyond DEF t, n
      <3>2. Keeps(s, t) /\ Others(s, t, i)
        BY <1>4, <3>1, KeepsOn, SameOthers, OthersOn
      <3>3. cells[(k % CPB) + 1] = c
        BY <2>2 DEF CellPut
      <3> QED
        BY <1>4, <1>8, <2>1, <2>5, <3>1, <3>2, <3>3 DEF AfterChunk, Keeps, n, r
    <2> QED
      BY <2>4, <2>5
  <1> QED
    BY <1>7, <1>8

\* fs_write() of one entry of a directory, at or before its end.
AfterPut(s, X, i, k, c, r) ==
    /\ Sound(r.s, X) /\ Steady(s, r.s) /\ InUse(r.s) = InUse(s) /\ r.ok \in BOOLEAN
    /\ Live(r.s.d) = Live(s.d) /\ Dirs(r.s.d) = Dirs(s.d)
    /\ r.ok => EntryPut(s.d, r.s.d, i, k, c)
    /\ ~r.ok => SameEntries(s.d, r.s.d)
    /\ k \in Spots(s.d, i) => r.ok

LEMMA DirWrite ==
    ASSUME NEW s, NEW X, Sound(s, X), NEW i, NEW c, Fits(s, i, c), s.ic[i].ref > 0,
           NEW k \in Nat, k <= s.d.inode[i].size
    PROVE  AfterPut(s, X, i, k, c, fs_write(s, i, k, <<c>>))
  <1> DEFINE r == WriteChunks(s, i, k, <<c>>)
             end == k + Len(<<c>>)
             old == r.s.ic[i].di.size
             size == IF end > old THEN end ELSE old
             di == Resized(r.s, i, size)
             t == fs_iupdate(Pick(r.s, i, di), i)
             u == fs_write(s, i, k, <<c>>)
  <1>1. AfterChunk(s, X, i, k, c, r)
    BY DirChunk
  <1>2. PICK m : r = IF m.blk = 0 THEN [s |-> m.s, ok |-> FALSE]
                     ELSE [s |-> WriteBlock(m.s, m.blk, OneCell(m.s, m.blk, k, c)), ok |-> TRUE]
    <2>1. PICK m : m = bmap(s, i, k \div CPB)
      OBVIOUS
    <2> QED
      BY <2>1, OneChunk
  <1>3. r.ok \in BOOLEAN
    <2> HIDE DEF r
    <2>1. CASE m.blk = 0
      BY <1>2, <2>1
    <2>2. CASE m.blk # 0
      BY <1>2, <2>2
    <2> QED
      BY <2>1, <2>2
  <1>4. fs_write(s, i, k, <<c>>) =
           IF ~r.ok THEN r
           ELSE [s |-> fs_iupdate([r.s EXCEPT !.ic[i].di.size = IF end > @ THEN end ELSE @], i),
                 ok |-> TRUE]
    BY DEF fs_write
  <1> HIDE DEF r, u
  <1>5. /\ s.d \in Disk /\ i \in Dirs(s.d) /\ i \in Inodes /\ c \in Cell
        /\ Live(s.d) \in SUBSET Inodes /\ Dirs(s.d) \in SUBSET Live(s.d) /\ Cached(s)
        /\ s.d.inode[i].size \in Nat /\ s.d.inode[i].type = "DIR"
    <2>1. s.d \in Disk /\ i \in Dirs(s.d) /\ c \in Cell /\ Cached(s)
      BY SoundParts DEF Fits
    <2>2. /\ Live(s.d) \in SUBSET Inodes /\ Dirs(s.d) \in SUBSET Live(s.d)
          /\ s.d.inode[i].type = "DIR"
      BY <2>1, LiveParts
    <2>3. i \in Inodes
      BY <2>1, <2>2
    <2>4. s.d.inode[i].size \in Nat
      BY <2>1, <2>3, DiskParts, InodeParts
    <2> QED
      BY <2>1, <2>2, <2>3, <2>4
  <1>6. /\ Sound(r.s, X) /\ Steady(s, r.s) /\ InUse(r.s) = InUse(s) /\ Others(s, r.s, i)
        /\ r.s.d.inode = s.d.inode
    BY <1>1 DEF AfterChunk, Others
  <1>7. Live(r.s.d) = Live(s.d) /\ Dirs(r.s.d) = Dirs(s.d) /\ Spots(r.s.d, i) = Spots(s.d, i)
    BY <1>6, SameInodes DEF Spots
  <1>8. CASE ~r.ok
    <2>1. fs_write(s, i, k, <<c>>) = r
      BY <1>4, <1>8
    <2> QED
      BY <1>1, <1>3, <1>6, <1>7, <1>8, <2>1 DEF AfterPut, AfterChunk
  <1>9. CASE r.ok
    <2>1. /\ r.s \in State /\ r.s.ic[i].ref > 0 /\ r.s.ic[i].di.type = "DIR"
          /\ old = s.d.inode[i].size /\ s.ic[i].di.nlink > 0 /\ r.s.ic[i].di.nlink > 0
      <3>1. s.ic[i].di.type = "DIR" /\ s.ic[i].di.size = s.d.inode[i].size /\ s.ic[i].di.nlink > 0
        BY <1>5 DEF Cached
      <3>2. r.s \in State
        BY <1>6, SoundParts
      <3> QED
        BY <1>5, <1>6, <3>1, <3>2 DEF Steady, Others
    <2>2. end = k + 1 /\ end \in Nat /\ size \in Nat
      BY <1>5, <2>1
    <2>3. fs_write(s, i, k, <<c>>) = [s |-> t, ok |-> TRUE]
      <3>1. [r.s EXCEPT !.ic[i].di.size = IF end > @ THEN end ELSE @] = Pick(r.s, i, di)
        BY <1>5, <2>1, <2>2, SizedPick
      <3> QED
        BY <1>4, <1>9, <3>1, Zenon
    <2>4. size = IF k \in Spots(s.d, i) THEN old ELSE k + 1
      BY <1>5, <2>1, <2>2 DEF Spots
    <2>5. k \notin Spots(s.d, i) => k = s.d.inode[i].size
      BY <1>5 DEF Spots
    <2> HIDE DEF size
    <2>6. Flushes(r.s, X, i, di, t) /\ di.size = size
      BY <1>5, <1>6, <2>1, <2>2, ResizeFlushes
    <2> HIDE DEF t, di
    <2>7. /\ di.type = "DIR" /\ di.nlink > 0
      BY <2>1, <2>6 DEF Flushes
    <2>8. Live(t.d) = Live(r.s.d) /\ Dirs(t.d) = Dirs(r.s.d)
      <3>1. AfterFlush(r.s, X, i, di, t)
        BY <2>6, FlushParts
      <3> QED
        BY <2>7, <3>1 DEF AfterFlush
    <2>11. PICK q : q = fs_write(s, i, k, <<c>>)
      OBVIOUS
    <2>12. q.s = t /\ q.ok = TRUE
      BY <2>3, <2>11
    <2>9. CASE k \in Spots(s.d, i)
      <3>1. Sound(t, X) /\ Keeps(r.s, t) /\ InUse(t) = InUse(r.s)
        BY <2>4, <2>6, <2>9, FlushSound
      <3>2. EntryPut(s.d, r.s.d, i, k, c)
        BY <1>1, <1>9, <2>9 DEF AfterChunk
      <3>3. SameEntries(s.d, s.d) /\ SameEntries(r.s.d, t.d)
        BY <3>1, SameDisk DEF Keeps
      <3>4. EntryPut(s.d, t.d, i, k, c)
        BY <1>7, <2>8, <3>2, <3>3, PutAmid
      <3>5. Steady(s, t)
        BY <1>6, <3>1, SteadyOn DEF Keeps
      <3> QED
        BY <1>6, <1>7, <2>8, <2>11, <2>12, <3>1, <3>4, <3>5 DEF AfterPut
    <2>10. CASE k \notin Spots(s.d, i)
      <3>1. /\ SameEntries(s.d, r.s.d) /\ Keeps(s, r.s) /\ k \div CPB < Final
            /\ At(Kernel(r.s), <<i, k \div CPB>>) # 0
            /\ r.s.d.block[At(Kernel(r.s), <<i, k \div CPB>>)][(k % CPB) + 1] = c
        BY <1>1, <1>9, <2>10 DEF AfterChunk
      <3>2. Fits(r.s, i, c)
        BY <1>7, <3>1, FitsStays
      <3>3. PICK b : b = At(Kernel(r.s), <<i, k \div CPB>>)
        OBVIOUS
      <3>4. Grows(r.s, X, i, k, c, b, di, t)
        BY <1>6, <2>4, <2>5, <2>6, <2>10, <3>1, <3>2, <3>3 DEF Grows
      <3>5. Sound(t, X) /\ Steady(r.s, t) /\ EntryPut(r.s.d, t.d, i, k, c) /\ InUse(t) = InUse(r.s)
        BY <3>4, DirGrown
      <3>6. SameEntries(t.d, t.d)
        BY <3>5, SameDisk
      <3>7. EntryPut(s.d, t.d, i, k, c)
        BY <1>7, <2>8, <3>1, <3>5, <3>6, PutAmid
      <3>8. Steady(s, t)
        BY <1>6, <3>5, SteadyOn
      <3> QED
        BY <1>6, <1>7, <2>8, <2>11, <2>12, <3>5, <3>7, <3>8 DEF AfterPut
    <2> QED
      BY <2>9, <2>10
  <1> QED
    BY <1>3, <1>8, <1>9

-----------------------------------------------------------------------------
(* fs_iget() and fs_iput()                                                 *)

\* The cache has e for inode i.
With(s, i, e) == [s EXCEPT !.ic[i] = e]
\* What fs_iget() makes of the slot of inode i, and what fs_iput() does.
Gotten(s, i) ==
    IF s.ic[i].ref > 0 THEN [di |-> s.ic[i].di, ref |-> s.ic[i].ref + 1, dirty |-> s.ic[i].dirty]
    ELSE [di |-> s.d.inode[i], ref |-> 1, dirty |-> FALSE]
Less(s, i) == [di |-> s.ic[i].di, ref |-> s.ic[i].ref - 1, dirty |-> s.ic[i].dirty]

Tidy(s) == \A i \in Inodes : s.ic[i].ref = 0 => s.ic[i] = NoSlot
Good(s, X) == Sound(s, X) /\ Tidy(s)

\* t is s but for the slot of inode i, which is e.
IsWith(t, s, i, e) ==
    /\ t \in State /\ t.fl = s.fl /\ t.d = s.d /\ t.log = s.log /\ t.ic[i] = e
    /\ \A j \in Inodes \ {i} : t.ic[j] = s.ic[j]

LEMMA WithIs ==
    ASSUME NEW s \in State, NEW i \in Inodes, NEW e \in CacheSlot
    PROVE  IsWith(With(s, i, e), s, i, e)
  <1>1. s.ic \in [Inodes -> CacheSlot]
    BY StateParts
  <1>2. [s.ic EXCEPT ![i] = e] \in [Inodes -> CacheSlot]
    BY <1>1
  <1>3. With(s, i, e) = [fl |-> s.fl, ic |-> [s.ic EXCEPT ![i] = e], d |-> s.d, log |-> s.log,
                      buf |-> "kept"]
    BY DEF With, State
  <1>4. [s.ic EXCEPT ![i] = e][i] = e /\ \A j \in Inodes \ {i} : [s.ic EXCEPT ![i] = e][j] = s.ic[j]
    BY <1>1
  <1>5. PICK f \in [Inodes -> CacheSlot] : f = [s.ic EXCEPT ![i] = e]
    BY <1>2
  <1>6. PICK t : t = With(s, i, e)
    OBVIOUS
  <1>7. t = [fl |-> s.fl, ic |-> f, d |-> s.d, log |-> s.log,
                      buf |-> "kept"]
    BY <1>3, <1>5, <1>6
  <1>8. /\ t \in State /\ t.fl = s.fl /\ t.d = s.d /\ t.log = s.log /\ t.ic = f
    BY <1>7 DEF State
  <1> QED
    BY <1>4, <1>5, <1>6, <1>8 DEF IsWith

LEMMA StateEqual ==
    ASSUME NEW s \in State, NEW t \in State, s.fl = t.fl, s.d = t.d, s.log = t.log,
           \A j \in Inodes : s.ic[j] = t.ic[j]
    PROVE  s = t
  <1>1. s.ic = t.ic
    <2>1. s.ic \in [Inodes -> CacheSlot] /\ t.ic \in [Inodes -> CacheSlot]
      BY StateParts
    <2> QED
      BY <2>1
  <1> QED
    BY <1>1, StateParts

LEMMA NoSlotType == NoSlot \in CacheSlot /\ EmptyInode \in DiskInode /\ NoSlot.ref = 0
                    /\ NoSlot.di = EmptyInode /\ EmptyInode.type = "FREE"
                    /\ EmptyInode.nlink = 0 /\ EmptyInode.size = 0
                    /\ EmptyInode.indirect = 0 /\ \A n \in Direct : EmptyInode.direct[n] = 0
  <1>1. /\ EmptyInode \in DiskInode /\ EmptyInode.type = "FREE"
        /\ EmptyInode.nlink = 0 /\ EmptyInode.size = 0
        /\ EmptyInode.indirect = 0 /\ \A n \in Direct : EmptyInode.direct[n] = 0
    BY Sizes DEF EmptyInode, DiskInode
  <1> QED
    BY <1>1 DEF NoSlot, CacheSlot

LEMMA IgetForm ==
    ASSUME NEW s \in State, NEW i \in Inodes
    PROVE  fs_iget(s, i) = With(s, i, Gotten(s, i)) /\ Gotten(s, i) \in CacheSlot
           /\ Gotten(s, i).ref = s.ic[i].ref + 1 /\ Gotten(s, i).ref > 0
           /\ Gotten(s, i).di = Kernel(s).ino[i]
  <1>1. s.ic \in [Inodes -> CacheSlot] /\ s.ic[i] \in CacheSlot /\ s.d \in Disk /\ s.ic[i].ref \in Nat
    BY StateParts
  <1>2. s.d.inode[i] \in DiskInode
    BY <1>1, DiskParts
  <1>3. fs_iget(s, i) = With(s, i, Gotten(s, i))
    BY <1>1 DEF fs_iget, With, Gotten, State
  <1>4. CASE s.ic[i].ref > 0
    BY <1>1, <1>3, <1>4 DEF Gotten, CacheSlot, Kernel
  <1>5. CASE ~(s.ic[i].ref > 0)
    <2>1. s.ic[i].ref = 0
      BY <1>1, <1>5
    <2> QED
      BY <1>1, <1>2, <1>3, <1>5, <2>1 DEF Gotten, CacheSlot, Kernel
  <1> QED
    BY <1>4, <1>5

LEMMA IputForm ==
    ASSUME NEW s \in State, NEW i \in Inodes, s.ic[i].ref > 0
    PROVE  LET t == With(s, i, Less(s, i))
               u == IF s.ic[i].dirty THEN fs_iupdate(t, i) ELSE t
               v == IF s.ic[i].di.nlink = 0 /\ s.ic[i].di.type # "FREE" THEN FreeInode(u, i) ELSE u
           IN  /\ Less(s, i) \in CacheSlot
               /\ fs_iput(s, i) = IF s.ic[i].ref = 1 THEN With(v, i, NoSlot) ELSE t
  <1> DEFINE t == With(s, i, Less(s, i))
             u == IF s.ic[i].dirty THEN fs_iupdate(t, i) ELSE t
             v == IF s.ic[i].di.nlink = 0 /\ s.ic[i].di.type # "FREE" THEN FreeInode(u, i) ELSE u
  <1>1. s.ic \in [Inodes -> CacheSlot] /\ s.ic[i] \in CacheSlot /\ s.ic[i].ref \in Nat
    BY StateParts
  <1>2. Less(s, i) \in CacheSlot
    BY <1>1 DEF Less, CacheSlot
  <1>3. t = [s EXCEPT !.ic[i].ref = @ - 1]
    <2>1. [s.ic[i] EXCEPT !.ref = @ - 1] = Less(s, i)
      BY <1>1 DEF Less, CacheSlot
    <2>2. [s.ic EXCEPT ![i].ref = @ - 1] = [s.ic EXCEPT ![i] = Less(s, i)]
      BY <1>1, <2>1
    <2> QED
      BY <2>2 DEF With, State
  <1> HIDE DEF t
  <1>4. fs_iput(s, i) = IF s.ic[i].ref = 1 THEN [v EXCEPT !.ic[i] = NoSlot] ELSE t
    BY <1>3 DEF fs_iput
  <1> HIDE DEF v
  <1>5. [v EXCEPT !.ic[i] = NoSlot] = With(v, i, NoSlot)
    BY DEF With
  <1> QED
    BY <1>2, <1>4, <1>5, Zenon DEF t, v

\* Two slots of the same inode.
LEMMA IsWithOne ==
    ASSUME NEW s, NEW t, NEW u, NEW i \in Inodes, NEW e, NEW f,
           IsWith(t, s, i, e), IsWith(u, t, i, f)
    PROVE  IsWith(u, s, i, f)
  BY DEF IsWith

LEMMA IsWithSame ==
    ASSUME NEW s, NEW t, NEW u, NEW i \in Inodes, NEW e, IsWith(t, s, i, e), IsWith(u, s, i, e)
    PROVE  t = u
  BY StateEqual DEF IsWith

LEMMA WithWith ==
    ASSUME NEW s \in State, NEW i \in Inodes, NEW e \in CacheSlot, NEW f \in CacheSlot
    PROVE  /\ With(With(s, i, e), i, f) = With(s, i, f)
           /\ With(s, i, s.ic[i]) = s
           /\ \A j \in Inodes \ {i} : With(With(s, i, e), j, f) = With(With(s, j, f), i, e)
  <1>1. PICK t : t = With(s, i, e)
    OBVIOUS
  <1>2. IsWith(t, s, i, e) /\ t \in State
    BY <1>1, WithIs DEF IsWith
  <1>3. With(t, i, f) = With(s, i, f)
    <2>1. IsWith(With(t, i, f), t, i, f) /\ IsWith(With(s, i, f), s, i, f)
      BY <1>2, WithIs
    <2> QED
      BY <1>2, <2>1, IsWithOne, IsWithSame
  <1>4. With(s, i, s.ic[i]) = s
    <2>1. s.ic[i] \in CacheSlot
      BY StateParts
    <2>2. IsWith(With(s, i, s.ic[i]), s, i, s.ic[i])
      BY <2>1, WithIs
    <2>3. IsWith(s, s, i, s.ic[i])
      BY DEF IsWith
    <2> QED
      BY <2>2, <2>3, IsWithSame
  <1>5. ASSUME NEW j \in Inodes \ {i}
        PROVE  With(t, j, f) = With(With(s, j, f), i, e)
    <2>1. PICK u : u = With(t, j, f)
      OBVIOUS
    <2>2. PICK r : r = With(s, j, f)
      OBVIOUS
    <2>3. IsWith(r, s, j, f) /\ r \in State
      BY <2>2, WithIs, Zenon DEF IsWith
    <2>4. PICK v : v = With(r, i, e)
      OBVIOUS
    <2>5. IsWith(v, r, i, e)
      BY <2>3, <2>4, WithIs
    <2>6. IsWith(u, t, j, f)
      BY <1>2, <2>1, WithIs
    <2>7. \A k \in Inodes : u.ic[k] = v.ic[k]
      BY <1>2, <2>3, <2>5, <2>6 DEF IsWith
    <2>8. u = v
      BY <1>2, <2>3, <2>5, <2>6, <2>7, StateEqual DEF IsWith
    <2> QED
      BY <2>1, <2>2, <2>4, <2>8
  <1> QED
    BY <1>1, <1>3, <1>4, <1>5

Hit(j, i) == IF j = i THEN 1 ELSE 0
\* t holds one more reference than s, to inode i, or one less.
Up(s, t, i) == \A j \in Inodes : t.ic[j].ref = s.ic[j].ref + Hit(j, i)
Down(s, t, i) == \A j \in Inodes : t.ic[j].ref = s.ic[j].ref - Hit(j, i)

\* The slot of inode i changes, and what the kernel sees does not.
Reslots(s, X, i, e, t) ==
    /\ Sound(s, X) /\ i \in InUse(s) /\ IsWith(t, s, i, e) /\ e.ref \in Nat
    /\ e.ref > 0 => e.di = Kernel(s).ino[i]
    /\ e.ref > 0 => e.dirty = IF s.ic[i].ref > 0 THEN s.ic[i].dirty ELSE FALSE
    /\ e.ref = 0 => i \in Live(s.d) /\ Kernel(s).ino[i] = s.d.inode[i]
Seems(s, X, t) ==
    /\ Sound(t, X) /\ Kernel(t) = Kernel(s) /\ InUse(t) = InUse(s) /\ Leads(s, t)
    /\ t.d = s.d

LEMMA SlotSound ==
    ASSUME NEW s, NEW X, NEW i, NEW e, NEW t, Reslots(s, X, i, e, t)
    PROVE  Seems(s, X, t)
  <1>1. /\ Sound(s, X) /\ i \in InUse(s) /\ e.ref \in Nat
        /\ e.ref > 0 => e.di = Kernel(s).ino[i]
        /\ e.ref > 0 => e.dirty = IF s.ic[i].ref > 0 THEN s.ic[i].dirty ELSE FALSE
        /\ e.ref = 0 => i \in Live(s.d)
        /\ e.ref = 0 => Kernel(s).ino[i] = s.d.inode[i]
    BY DEF Reslots
  <1>2. /\ t \in State /\ t.fl = s.fl /\ t.d = s.d /\ t.log = s.log /\ t.ic[i] = e
        /\ \A j \in Inodes \ {i} : t.ic[j] = s.ic[j]
    BY DEF Reslots, IsWith
  <1>3. /\ s \in State /\ s.d \in Disk /\ s.d.free_list = s.fl /\ Live(s.d) \in SUBSET Inodes
        /\ i \in Inodes /\ Agree(s) /\ Cached(s) /\ TreeOK(s.d)
        /\ Owned(Kernel(s), Have(InUse(s)), X)
    BY <1>1, SoundParts, LiveParts
  <1>4. s.ic[i].ref \in Nat
    BY <1>3, StateParts
  <1>5. Kernel(t) = Kernel(s)
    <2>1. \A j \in Inodes : Kernel(t).ino[j] = Kernel(s).ino[j]
      <3> SUFFICES ASSUME NEW j \in Inodes
                   PROVE  Kernel(t).ino[j] = Kernel(s).ino[j]
        OBVIOUS
      <3>1. /\ Kernel(t).ino[j] = IF t.ic[j].ref > 0 THEN t.ic[j].di ELSE t.d.inode[j]
            /\ Kernel(s).ino[j] = IF s.ic[j].ref > 0 THEN s.ic[j].di ELSE s.d.inode[j]
        BY KernelIno
      <3> QED
        BY <1>1, <1>2, <3>1
    <2>2. Kernel(t) \in Store /\ Kernel(s) \in Store
      BY <1>2, <1>3, StateParts
    <2>3. Kernel(t).fl = Kernel(s).fl /\ Kernel(t).block = Kernel(s).block
      BY <1>2, <1>3, KernelIno
    <2>4. PICK m \in Store : m = Kernel(s)
      BY <2>2
    <2>5. PICK u \in Store : u = Kernel(t)
      BY <2>2
    <2>6. u.ino = m.ino
      BY <2>1, <2>4, <2>5 DEF Store
    <2>7. u = m
      BY <2>3, <2>4, <2>5, <2>6 DEF Store
    <2> QED
      BY <2>4, <2>5, <2>7
  <1>6. InUse(t) = InUse(s)
    <2>1. e.ref > 0 \/ i \in Live(s.d)
      BY <1>1
    <2>2. ASSUME NEW j \in Inodes
          PROVE  j \in InUse(t) <=> j \in InUse(s)
      BY <1>1, <1>2, <2>1 DEF InUse
    <2>3. InUse(t) \subseteq Inodes /\ InUse(s) \subseteq Inodes
      BY <1>2, <1>3 DEF InUse
    <2> QED
      BY <2>2, <2>3
  <1>7. Agree(t)
    BY <1>2, <1>3, <1>5 DEF Agree
  <1>8. Cached(t)
    <2> SUFFICES ASSUME NEW j \in Inodes, t.ic[j].ref > 0
                 PROVE  /\ t.ic[j].di.type = s.d.inode[j].type /\ t.ic[j].di.type # "FREE"
                        /\ t.ic[j].di.size = s.d.inode[j].size
                        /\ ~t.ic[j].dirty => t.ic[j].di = s.d.inode[j]
                        /\ t.ic[j].di.nlink > 0 => s.d.inode[j].nlink > 0
                        /\ t.ic[j].di.type = "DIR" \/ IsNamed(s.d, j) => t.ic[j].di.nlink > 0
      BY <1>2 DEF Cached
    <2>1. CASE j # i
      BY <1>2, <1>3, <2>1 DEF Cached
    <2>2. CASE j = i /\ s.ic[i].ref > 0
      <3>1. t.ic[i].di = s.ic[i].di /\ t.ic[i].dirty = s.ic[i].dirty
        BY <1>1, <1>2, <1>3, <2>2, KernelIno
      <3> QED
        BY <1>3, <2>2, <3>1 DEF Cached
    <2>3. CASE j = i /\ ~(s.ic[i].ref > 0)
      <3>1. t.ic[i].di = s.d.inode[i]
        BY <1>1, <1>2, <1>3, <2>3, KernelIno
      <3>2. i \in Live(s.d)
        BY <1>1, <2>3 DEF InUse
      <3> QED
        BY <2>3, <3>1, <3>2 DEF Live
    <2> QED
      BY <2>1, <2>2, <2>3
  <1>9. Sound(t, X)
    BY <1>2, <1>3, <1>5, <1>6, <1>7, <1>8 DEF Sound
  <1>10. Leads(s, t)
    BY <1>2, LeadsSame
  <1> QED
    BY <1>2, <1>5, <1>6, <1>9, <1>10 DEF Seems

\* fs_iget()
Got(s, X, i, t) ==
    /\ Seems(s, X, t) /\ Good(t, X) /\ Up(s, t, i) /\ t.ic[i].ref > 0
    /\ t.ic[i].di = Kernel(s).ino[i] /\ \A j \in Inodes \ {i} : t.ic[j] = s.ic[j]
LEMMA IgetSound ==
    ASSUME NEW s, NEW X, Good(s, X), NEW i \in InUse(s)
    PROVE  Got(s, X, i, fs_iget(s, i))
  <1> DEFINE t == fs_iget(s, i)
             e == Gotten(s, i)
  <1>1. Sound(s, X) /\ Tidy(s) /\ s \in State /\ i \in Inodes
    BY SoundParts DEF Good
  <1>2. s.ic[i].ref \in Nat
    BY <1>1, StateParts
  <1>3. /\ t = With(s, i, e) /\ e \in CacheSlot /\ e.ref = s.ic[i].ref + 1 /\ e.ref > 0
        /\ e.di = Kernel(s).ino[i] /\ e.ref \in Nat
    BY <1>1, <1>2, IgetForm
  <1>4. e.dirty = IF s.ic[i].ref > 0 THEN s.ic[i].dirty ELSE FALSE
    BY DEF Gotten
  <1> HIDE DEF e
  <1>5. IsWith(t, s, i, e)
    BY <1>1, <1>3, WithIs
  <1> HIDE DEF t
  <1>6. Reslots(s, X, i, e, t)
    BY <1>1, <1>3, <1>4, <1>5 DEF Reslots
  <1>7. Seems(s, X, t)
    BY <1>6, SlotSound
  <1>8. Tidy(t)
    BY <1>1, <1>3, <1>5 DEF Tidy, IsWith
  <1>9. Up(s, t, i)
    <2> SUFFICES ASSUME NEW j \in Inodes
                 PROVE  t.ic[j].ref = s.ic[j].ref + Hit(j, i)
      BY DEF Up
    <2>1. s.ic[j].ref \in Nat
      BY <1>1, StateParts
    <2> QED
      BY <1>3, <1>5, <2>1 DEF IsWith, Hit
  <1> QED
    BY <1>3, <1>5, <1>7, <1>8, <1>9 DEF Got, Good, Seems, IsWith, t

\* What was got is put back.
LEMMA IputIget ==
    ASSUME NEW s, NEW X, Good(s, X), NEW i \in InUse(s)
    PROVE  fs_iput(fs_iget(s, i), i) = s
  <1> DEFINE e == Gotten(s, i)
  <1>1. Sound(s, X) /\ Tidy(s) /\ s \in State /\ i \in Inodes /\ s.ic \in [Inodes -> CacheSlot]
    BY SoundParts, StateParts DEF Good
  <1>2. s.ic[i].ref \in Nat /\ s.ic[i] \in CacheSlot
    BY <1>1, StateParts
  <1>3. PICK t : t = fs_iget(s, i)
    OBVIOUS
  <1>4. /\ t = With(s, i, e) /\ e \in CacheSlot /\ e.ref = s.ic[i].ref + 1 /\ e.ref > 0
        /\ e.di = Kernel(s).ino[i]
    BY <1>1, <1>3, IgetForm
  <1>5. IsWith(t, s, i, e) /\ t \in State /\ t.ic[i] = e
    BY <1>1, <1>4, WithIs DEF IsWith
  <1>6. CASE s.ic[i].ref > 0
    <2>1. t.ic[i].ref # 1
      BY <1>2, <1>4, <1>5, <1>6
    <2>2. fs_iput(t, i) = With(t, i, Less(t, i))
      BY <1>1, <1>4, <1>5, <2>1, IputForm
    <2>3. Less(t, i) = s.ic[i]
      <3>1. e = [di |-> s.ic[i].di, ref |-> s.ic[i].ref + 1, dirty |-> s.ic[i].dirty]
        BY <1>6 DEF Gotten
      <3>2. Less(t, i) = [di |-> e.di, ref |-> e.ref - 1, dirty |-> e.dirty]
        BY <1>5 DEF Less
      <3>3. e.ref - 1 = s.ic[i].ref
        BY <1>2, <1>4
      <3> QED
        BY <1>2, <3>1, <3>2, <3>3 DEF CacheSlot
    <2>4. fs_iput(t, i) = With(s, i, s.ic[i])
      <3> HIDE DEF e
      <3> QED
        BY <1>1, <1>2, <1>4, <2>2, <2>3, WithWith
    <2> QED
      BY <1>1, <1>2, <1>3, <2>4, WithWith
  <1>7. CASE ~(s.ic[i].ref > 0)
    <2>1. s.ic[i].ref = 0 /\ s.ic[i] = NoSlot
      BY <1>1, <1>2, <1>7 DEF Tidy
    <2>2. e = [di |-> s.d.inode[i], ref |-> 1, dirty |-> FALSE]
      BY <1>7 DEF Gotten
    <2>3. i \in Live(s.d)
      BY <1>7 DEF InUse
    <2>4. t.ic[i].ref = 1 /\ ~t.ic[i].dirty /\ t.ic[i].di.nlink # 0
      <3>1. s.d.inode[i].nlink # 0
        <4>1. s.d.inode[i].nlink > 0
          BY <2>3 DEF Live
        <4> QED
          BY <4>1
      <3> QED
        BY <1>5, <2>2, <3>1
    <2> HIDE DEF e
    <2>5. fs_iput(t, i) = With(With(t, i, Less(t, i)), i, NoSlot) /\ Less(t, i) \in CacheSlot
      BY <1>1, <1>4, <1>5, <2>4, IputForm
    <2>6. fs_iput(t, i) = With(t, i, NoSlot)
      BY <1>1, <1>5, <2>5, NoSlotType, WithWith
    <2>7. fs_iput(t, i) = With(s, i, NoSlot)
      BY <1>1, <1>4, <2>6, NoSlotType, WithWith
    <2> QED
      BY <1>1, <1>3, <2>1, <2>7, NoSlotType, WithWith
  <1> QED
    BY <1>6, <1>7

\* Of two references, the first one got is put back first.
LEMMA IputFirst ==
    ASSUME NEW s, NEW X, Good(s, X), NEW i \in InUse(s), NEW j \in InUse(s)
    PROVE  fs_iput(fs_iget(fs_iget(s, i), j), i) = fs_iget(s, j)
  <1>1. s \in State /\ i \in Inodes /\ j \in Inodes
    BY SoundParts DEF Good
  <1>2. CASE i = j
    <2>1. PICK t : t = fs_iget(s, i)
      OBVIOUS
    <2>2. Good(t, X) /\ i \in InUse(t)
      BY <2>1, IgetSound DEF Got, Seems
    <2> QED
      BY <1>2, <2>1, <2>2, IputIget
  <1>3. CASE i # j
    <2>1. PICK t : t = fs_iget(s, j)
      OBVIOUS
    <2>2. Good(t, X) /\ i \in InUse(t) /\ t.ic[i] = s.ic[i] /\ t.d = s.d /\ t \in State
      BY <1>1, <1>3, <2>1, IgetSound, SoundParts DEF Got, Seems
    <2>3. PICK u : u = fs_iget(s, i)
      OBVIOUS
    <2>4. u.ic[j] = s.ic[j] /\ u.d = s.d /\ u \in State
      BY <1>1, <1>3, <2>3, IgetSound, SoundParts DEF Got, Seems
    <2>5. Gotten(t, i) = Gotten(s, i) /\ Gotten(u, j) = Gotten(s, j)
      BY <2>2, <2>4 DEF Gotten
    <2>6. /\ t = With(s, j, Gotten(s, j)) /\ u = With(s, i, Gotten(s, i))
          /\ fs_iget(u, j) = With(u, j, Gotten(s, j)) /\ fs_iget(t, i) = With(t, i, Gotten(s, i))
          /\ Gotten(s, i) \in CacheSlot /\ Gotten(s, j) \in CacheSlot
      BY <1>1, <2>1, <2>2, <2>3, <2>4, <2>5, IgetForm
    <2>7. fs_iget(u, j) = fs_iget(t, i)
      BY <1>1, <1>3, <2>6, WithWith
    <2> QED
      BY <2>1, <2>2, <2>3, <2>7, IputIget
  <1> QED
    BY <1>2, <1>3

-----------------------------------------------------------------------------
(* fs_iput() gives blocks back                                             *)

LEMMA BfreeEffect ==
    ASSUME NEW s \in State, NEW b \in Blocks
    PROVE  LET w == [at |-> "block", n |-> b, v |-> [ZeroBlock EXCEPT ![1] = Link(s.fl)]]
               x == [at |-> "sb", n |-> 0, v |-> b]
               t == bfree(s, b)
           IN  /\ t \in State /\ t.fl = b /\ t.ic = s.ic
               /\ t.d = Perform(Perform(s.d, w), x)
               /\ t.log = Append(Append(s.log, w), x)
  <1> DEFINE cells == [ZeroBlock EXCEPT ![1] = Link(s.fl)]
             w == [at |-> "block", n |-> b, v |-> cells]
             x == [at |-> "sb", n |-> 0, v |-> b]
             u == Write(s, w)
             r == [u EXCEPT !.fl = b]
             t == bfree(s, b)
  <1>1. s.fl \in 0..NBLOCKS /\ s.d \in Disk /\ b \in 0..NBLOCKS
    BY StateParts, Sizes
  <1>2. cells \in [1..CPB -> Cell]
    BY <1>1, Sizes
  <1> HIDE DEF cells
  <1>3. w \in Writes
    BY <1>1, <1>2, BlockWrite
  <1>4. x \in Writes
    BY <1>1, SbWrite
  <1>5. t = WriteSb(r)
    BY Written DEF bfree, cells
  <1> HIDE DEF w
  <1>6. /\ u \in State /\ u.fl = s.fl /\ u.ic = s.ic /\ u.d = Perform(s.d, w)
        /\ u.log = Append(s.log, w)
    BY <1>3, WriteEffect
  <1> HIDE DEF u
  <1>7. r \in State /\ r.fl = b /\ r.ic = u.ic /\ r.d = u.d /\ r.log = u.log
    BY <1>1, <1>6 DEF State
  <1> HIDE DEF r
  <1>8. t = Write(r, x)
    BY <1>5, <1>7, Written
  <1> HIDE DEF t, x
  <1>9. /\ t \in State /\ t.fl = r.fl /\ t.ic = r.ic /\ t.d = Perform(r.d, x)
        /\ t.log = Append(r.log, x)
    BY <1>4, <1>7, <1>8, WriteEffect
  <1> QED
    BY <1>6, <1>7, <1>9 DEF t, w, x, cells

LEMMA BfreeOff ==
    ASSUME NEW v \in State, NEW i \in Inodes, NEW e, NEW a, IsWith(a, v, i, e), NEW b \in Blocks
    PROVE  IsWith(bfree(a, b), bfree(v, b), i, e)
  <1> DEFINE w == [at |-> "block", n |-> b, v |-> [ZeroBlock EXCEPT ![1] = Link(v.fl)]]
             x == [at |-> "sb", n |-> 0, v |-> b]
  <1>1. /\ a \in State /\ a.fl = v.fl /\ a.d = v.d /\ a.log = v.log /\ a.ic[i] = e
        /\ \A j \in Inodes \ {i} : a.ic[j] = v.ic[j]
    BY DEF IsWith
  <1>2. PICK t : t = bfree(v, b)
    OBVIOUS
  <1>3. PICK u : u = bfree(a, b)
    OBVIOUS
  <1>4. /\ t \in State /\ t.fl = b /\ t.ic = v.ic
        /\ t.d = Perform(Perform(v.d, w), x)
        /\ t.log = Append(Append(v.log, w), x)
    BY <1>2, BfreeEffect
  <1>5. /\ u \in State /\ u.fl = b /\ u.ic = a.ic
        /\ u.d = Perform(Perform(v.d, w), x)
        /\ u.log = Append(Append(v.log, w), x)
    BY <1>1, <1>3, BfreeEffect
  <1> HIDE DEF w, x
  <1> QED
    BY <1>1, <1>2, <1>3, <1>4, <1>5 DEF IsWith

\* The slot of inode i apart, a is what bfree() makes of v0 and the blocks Y.
Freed(v0, X, i, e, Y, a) ==
    \E v : /\ IsWith(a, v, i, e) /\ Sound(v, X \ Y) /\ Keeps(v0, v)
           /\ v.ic = v0.ic /\ v.d.inode = v0.d.inode /\ InUse(v) = InUse(v0)
           /\ \A c \in Blocks \ Y : v.d.block[c] = v0.d.block[c]

\* The first k elements of a sequence of pointers.
Heads(q, k) == {q[m] : m \in 1..k}

LEMMA FreedMore ==
    ASSUME NEW v0, NEW X \in SUBSET Blocks, NEW i \in Inodes, NEW e, NEW Y, NEW a,
           Freed(v0, X, i, e, Y, a), NEW b \in (X \ Y) \cup {0}
    PROVE  Freed(v0, X, i, e, Y \cup {b}, FreeIfAny(a, b))
  <1>1. PICK W \in SUBSET Blocks : W = X \ Y
    OBVIOUS
  <1>2. PICK Z : Z = Y \cup {b}
    OBVIOUS
  <1>3. PICK v : /\ IsWith(a, v, i, e) /\ Sound(v, W) /\ Keeps(v0, v)
                 /\ v.ic = v0.ic /\ v.d.inode = v0.d.inode /\ InUse(v) = InUse(v0)
                 /\ \A c \in Blocks \ Y : v.d.block[c] = v0.d.block[c]
    BY <1>1 DEF Freed
  <1>4. v \in State /\ 0 \notin Blocks
    BY <1>3, SoundParts, Sizes
  <1>5. CASE b = 0
    <2>1. FreeIfAny(a, b) = a
      BY <1>5 DEF FreeIfAny
    <2>2. W = X \ Z
      BY <1>1, <1>2, <1>4, <1>5
    <2>3. \A c \in Blocks \ Z : c \in Blocks \ Y
      BY <1>2
    <2>4. Freed(v0, X, i, e, Z, a)
      BY <1>3, <2>2, <2>3 DEF Freed
    <2> QED
      BY <1>2, <2>1, <2>4
  <1>6. CASE b # 0
    <2>1. b \in W /\ b \in Blocks
      BY <1>1, <1>6
    <2>2. FreeIfAny(a, b) = bfree(a, b)
      BY <1>6 DEF FreeIfAny
    <2>3. PICK t : t = bfree(v, b)
      OBVIOUS
    <2>4. IsWith(bfree(a, b), t, i, e)
      BY <1>3, <1>4, <2>1, <2>3, BfreeOff
    <2>5. /\ Sound(t, W \ {b}) /\ Keeps(v, t) /\ InUse(t) = InUse(v)
          /\ t.ic = v.ic /\ t.d.inode = v.d.inode
          /\ \A c \in Blocks \ {b} : t.d.block[c] = v.d.block[c]
      BY <1>3, <2>1, <2>3, FreeSound
    <2>6. W \ {b} = X \ Z /\ \A c \in Blocks \ Z : c \in Blocks \ Y /\ c \in Blocks \ {b}
      BY <1>1, <1>2
    <2>7. Keeps(v0, t)
      BY <1>3, <2>5, KeepsOn
    <2>8. /\ Sound(t, X \ Z) /\ t.ic = v0.ic /\ t.d.inode = v0.d.inode /\ InUse(t) = InUse(v0)
          /\ \A c \in Blocks \ Z : t.d.block[c] = v0.d.block[c]
      BY <1>3, <2>5, <2>6
    <2>9. Freed(v0, X, i, e, Z, bfree(a, b))
      BY <2>4, <2>7, <2>8 DEF Freed
    <2> QED
      BY <1>2, <2>2, <2>9
  <1> QED
    BY <1>5, <1>6

\* The blocks of X that q has, each once, with 0 for none.
Gives(X, q, N) ==
    /\ N \in Nat /\ q \in [1..N -> 0..NBLOCKS] /\ X \in SUBSET Blocks
    /\ \A k \in 1..N : q[k] \in X \cup {0}
    /\ \A k, m \in 1..N : q[k] = q[m] /\ q[k] # 0 => k = m

LEMMA FreeEachSound ==
    ASSUME NEW v0, NEW X, Sound(v0, X), NEW i \in Inodes, NEW e, NEW a, IsWith(a, v0, i, e),
           NEW N, NEW q, Gives(X, q, N)
    PROVE  Freed(v0, X, i, e, Heads(q, N), FreeEach(a, q))
  <1> DEFINE U(k) == {t \in State : Freed(v0, X, i, e, Heads(q, k), t)}
             V == [k \in 0..N |-> U(k)]
             F == [k \in 1..N |-> [t \in U(k - 1) |-> FreeIfAny(t, q[k])]]
             G(f) == [k \in 0..N |-> IF k = 0 THEN a ELSE FreeIfAny(f[k - 1], q[k])]
             g == CHOOSE f : f = G(f)
  <1>1. /\ N \in Nat /\ q \in [1..N -> 0..NBLOCKS] /\ X \in SUBSET Blocks
        /\ \A k \in 1..N : q[k] \in X \cup {0}
        /\ \A k, m \in 1..N : q[k] = q[m] /\ q[k] # 0 => k = m
    BY DEF Gives
  <1>2. a \in U(0)
    <2>1. X \ Heads(q, 0) = X
      BY DEF Heads
    <2>2. a \in State
      BY DEF IsWith
    <2>3. Keeps(v0, v0)
      BY KeepsSelf
    <2>4. PICK Y : Y = Heads(q, 0)
      OBVIOUS
    <2> QED
      BY <2>1, <2>2, <2>3, <2>4 DEF Freed
  <1>3. ASSUME NEW k \in 1..N, NEW t \in U(k - 1)
        PROVE  FreeIfAny(t, q[k]) \in U(k)
    <2>1. PICK Y : Y = Heads(q, k - 1)
      OBVIOUS
    <2>2. q[k] \in (X \ Y) \cup {0}
      <3>1. \A m \in 1..(k - 1) : m \in 1..N /\ m # k
        BY <1>1
      <3>2. q[k] # 0 => q[k] \notin Y
        BY <1>1, <2>1, <3>1 DEF Heads
      <3> QED
        BY <1>1, <3>2
    <2>3. Y \cup {q[k]} = Heads(q, k)
      <3>1. 1..k = (1..(k - 1)) \cup {k}
        BY <1>1
      <3> QED
        BY <2>1, <3>1 DEF Heads
    <2>4. Freed(v0, X, i, e, Y \cup {q[k]}, FreeIfAny(t, q[k]))
      BY <1>1, <2>1, <2>2, FreedMore
    <2>5. FreeIfAny(t, q[k]) \in State
      BY <2>4 DEF Freed, IsWith
    <2> QED
      BY <2>3, <2>4, <2>5
  <1> HIDE DEF U
  <1>4. \E f : f = G(f)
    <2>1. \A k \in 1..N : k \in 0..N /\ k - 1 \in 0..N
      BY <1>1
    <2>2. 0 \in 0..N
      BY <1>1
    <2>3. a \in V[0]
      BY <1>2, <2>2
    <2>4. Remains(N, V, F)
      BY <1>3, <2>1 DEF Remains
    <2>5. PICK f : Iterates(f, N, a, F) /\ Within(f, N, V)
      <3> HIDE DEF F, V
      <3> QED
        BY <1>1, <2>3, <2>4, Recursion
    <2>6. \A k \in 0..N : f[k] \in U(k)
      BY <2>5 DEF Within
    <2>7. \A k \in 0..N : k # 0 => F[k][f[k - 1]] = FreeIfAny(f[k - 1], q[k])
      <3>1. \A k \in 0..N : k # 0 => k \in 1..N
        BY <1>1
      <3> QED
        BY <2>1, <2>6, <3>1
    <2> HIDE DEF F
    <2>8. f = G(f)
      BY <2>5, <2>7 DEF Iterates
    <2> HIDE DEF G
    <2> QED
      BY <2>8
  <1>5. g = G(g)
    BY <1>4
  <1>6. FreeEach(a, q) = g[N]
    <2>1. Len(q) = N
      <3>1. DOMAIN q = 1..N
        BY <1>1
      <3> QED
        BY <1>1, <3>1
    <2> QED
      BY <2>1 DEF FreeEach
  <1> HIDE DEF g
  <1>7. /\ g[0] = a
        /\ \A k \in 1..N : g[k] = FreeIfAny(g[k - 1], q[k])
    <2>1. 0 \in 0..N /\ \A k \in 1..N : k \in 0..N /\ k # 0
      BY <1>1
    <2> QED
      BY <1>5, <2>1
  <1>8. \A k \in 0..N : g[k] \in V[k]
    <2>1. \A k \in 1..N : k \in 0..N /\ k - 1 \in 0..N
      BY <1>1
    <2>2. 0 \in 0..N
      BY <1>1
    <2>3. g[0] \in V[0]
      BY <1>2, <1>7, <2>2
    <2>4. \A k \in 1..N : g[k - 1] \in V[k - 1] => g[k] \in V[k]
      BY <1>3, <1>7, <2>1
    <2> HIDE DEF V
    <2> QED
      BY <1>1, <2>3, <2>4, Induct
  <1>9. N \in 0..N
    BY <1>1
  <1>10. g[N] \in U(N)
    BY <1>8, <1>9
  <1> QED
    BY <1>6, <1>10 DEF U

\* An inode that is not in use is written: without blocks, and free or linked.
Fresh(s, X, i, e, t) ==
    LET w == [at |-> "inode", n |-> i, v |-> e] IN
    /\ Sound(s, X) /\ i \in Inodes \ InUse(s) /\ e \in DiskInode
    /\ e.indirect = 0 /\ (\A n \in Direct : e.direct[n] = 0) /\ e.size = 0
    /\ (e.type = "FREE" \/ e.nlink > 0)
    /\ t \in State /\ t.fl = s.fl /\ t.ic = s.ic
    /\ t.d = Perform(s.d, w) /\ t.log = Append(s.log, w)
AfterFresh(s, X, i, e, t) ==
    LET new == IF e.type = "FREE" THEN {} ELSE {i} IN
    /\ Sound(t, X) /\ Leads(s, t) /\ SameEntries(s.d, t.d)
    /\ InUse(t) = InUse(s) \cup new /\ Live(t.d) = Live(s.d) \cup new
    /\ t.d.inode[i] = e /\ \A j \in Inodes \ {i} : t.d.inode[j] = s.d.inode[j]
LEMMA FreshSound ==
    ASSUME NEW s, NEW X, NEW i, NEW e, NEW t, Fresh(s, X, i, e, t)
    PROVE  AfterFresh(s, X, i, e, t)
  <1> DEFINE w == [at |-> "inode", n |-> i, v |-> e]
             new == IF e.type = "FREE" THEN {} ELSE {i}
             P == Have(InUse(s))
             R == Have(InUse(t))
  <1>1. /\ Sound(s, X) /\ i \in Inodes /\ i \notin InUse(s) /\ e \in DiskInode
        /\ e.indirect = 0 /\ (\A n \in Direct : e.direct[n] = 0) /\ e.size = 0
        /\ (e.type = "FREE" \/ e.nlink > 0)
        /\ t \in State /\ t.fl = s.fl /\ t.ic = s.ic
        /\ t.d = Perform(s.d, w) /\ t.log = Append(s.log, w)
    BY DEF Fresh
  <1>2. /\ s \in State /\ s.d \in Disk /\ s.d.free_list = s.fl /\ Live(s.d) \in SUBSET Inodes
        /\ Agree(s) /\ Cached(s) /\ TreeOK(s.d) /\ Owned(Kernel(s), P, X)
        /\ Live(s.d) \subseteq InUse(s) /\ InUse(s) \in SUBSET Inodes
        /\ s.d.inode \in [Inodes -> DiskInode] /\ Dirs(s.d) \in SUBSET Live(s.d)
    BY <1>1, SoundParts, LiveParts, DiskParts
  <1>3. /\ w \in Writes /\ Perform(s.d, w).free_list = s.d.free_list
        /\ Perform(s.d, w).inode = [s.d.inode EXCEPT ![i] = e]
        /\ Perform(s.d, w).block = s.d.block
    BY <1>1, <1>2, InodeWrite
  <1> HIDE DEF w
  <1>4. /\ t.d \in Disk /\ t.d.free_list = t.fl /\ t.d.block = s.d.block
        /\ t.d.inode[i] = e /\ \A j \in Inodes \ {i} : t.d.inode[j] = s.d.inode[j]
        /\ Kernel(t) \in Store
    BY <1>1, <1>2, <1>3, StateParts
  <1>5. i \notin Live(s.d) /\ ~(s.ic[i].ref > 0)
    BY <1>1, <1>2 DEF InUse
  <1>6. Live(t.d) = Live(s.d) \cup new
    <2>1. i \in Live(t.d) <=> i \in new
      BY <1>1, <1>4 DEF Live
    <2>2. \A j \in Inodes \ {i} : j \in Live(t.d) <=> j \in Live(s.d)
      BY <1>4 DEF Live
    <2>3. Live(t.d) \subseteq Inodes
      BY DEF Live
    <2> QED
      BY <1>1, <1>2, <1>5, <2>1, <2>2, <2>3
  <1>7. InUse(t) = InUse(s) \cup new
    BY <1>1, <1>6 DEF InUse
  <1>8. /\ Kernel(t).fl = Kernel(s).fl /\ Kernel(t).block = Kernel(s).block
        /\ Kernel(t).ino[i] = e
        /\ \A j \in Inodes \ {i} : Kernel(t).ino[j] = Kernel(s).ino[j]
    BY <1>1, <1>4, <1>5, KernelIno
  <1>9. Owned(Kernel(t), R, X)
    <2>1. PICK m : m = Kernel(s)
      OBVIOUS
    <2>2. PICK u \in Store : u = Kernel(t)
      BY <1>4
    <2>3. InUse(t) \in SUBSET Inodes
      BY <1>1, <1>2, <1>7
    <2>4. Closed(R) /\ P \subseteq R
      BY <1>7, <2>3, ClosedHave DEF Have
    <2>5. \A p \in P : /\ u.ino[p[1]].direct = m.ino[p[1]].direct
                       /\ u.ino[p[1]].indirect = m.ino[p[1]].indirect
      <3>1. \A p \in P : p[1] \in Inodes \ {i}
        BY <1>1, <1>2 DEF Have
      <3> QED
        BY <1>8, <2>1, <2>2, <3>1
    <2>6. ASSUME NEW p \in R \ P
          PROVE  At(u, p) = 0
      <3>1. p[1] = i /\ p \in Places
        <4>1. p \in Places /\ p[1] \in InUse(t) /\ p[2] \in Slots /\ p = <<p[1], p[2]>>
          BY <2>3, ClosedHave
        <4>2. p[1] \notin InUse(s)
          BY <4>1 DEF Have
        <4> QED
          BY <1>7, <4>1, <4>2
      <3>2. u.ino[i] = e
        BY <1>8, <2>2
      <3>3. p[2] < NDIRECT => p[2] \in Direct
        BY <3>1, PlaceParts
      <3> QED
        BY <1>1, <3>1, <3>2, <3>3 DEF At
    <2> HIDE DEF P, R
    <2>7. Owned(u, R, X)
      BY <1>2, <1>8, <2>1, <2>2, <2>4, <2>5, <2>6, OwnedGrow
    <2> QED
      BY <2>2, <2>7
  <1>10. Agree(t)
    <2> SUFFICES ASSUME NEW j \in Live(t.d)
                 PROVE  /\ t.d.inode[j].indirect \in {0, Kernel(t).ino[j].indirect}
                        /\ \A n \in Direct : t.d.inode[j].direct[n] \in {0, Kernel(t).ino[j].direct[n]}
      BY DEF Agree
    <2>1. CASE j = i
      BY <1>4, <1>8, <2>1
    <2>2. CASE j # i
      <3>1. j \in Live(s.d) /\ j \in Inodes \ {i}
        BY <1>2, <1>6, <2>2
      <3>2. /\ s.d.inode[j].indirect \in {0, Kernel(s).ino[j].indirect}
            /\ \A n \in Direct : s.d.inode[j].direct[n] \in {0, Kernel(s).ino[j].direct[n]}
        BY <1>2, <3>1 DEF Agree
      <3> QED
        BY <1>4, <1>8, <3>1, <3>2
    <2> QED
      BY <2>1, <2>2
  <1>11. SameEntries(s.d, t.d)
    <2>1. Dirs(s.d) \subseteq Dirs(t.d) /\ \A j \in Dirs(t.d) \ Dirs(s.d) : t.d.inode[j].size = 0
      <3>1. \A j \in Dirs(s.d) : j \in Inodes \ {i}
        BY <1>2, <1>5
      <3>2. \A j \in Dirs(s.d) : j \in Dirs(t.d)
        BY <1>2, <1>4, <1>6, <3>1 DEF Dirs
      <3>3. \A j \in Dirs(t.d) : j # i => j \in Dirs(s.d)
        BY <1>4, <1>6, <1>2 DEF Dirs
      <3> QED
        BY <1>1, <1>4, <3>2, <3>3
    <2>2. \A j \in Dirs(s.d) : t.d.inode[j].size = s.d.inode[j].size
      BY <1>2, <1>4, <1>5
    <2>3. ASSUME NEW j \in Dirs(s.d), NEW n \in Slots
          PROVE  At(OnDisk(t.d), <<j, n>>) = At(OnDisk(s.d), <<j, n>>)
      <3>1. /\ OnDisk(t.d).ino = t.d.inode /\ OnDisk(s.d).ino = s.d.inode
            /\ OnDisk(t.d).block = s.d.block /\ OnDisk(s.d).block = s.d.block
        BY <1>4 DEF OnDisk
      <3>2. <<j, n>>[1] = j /\ <<j, n>>[2] = n /\ t.d.inode[j] = s.d.inode[j]
        BY <1>2, <1>4, <1>5
      <3> QED
        BY <3>1, <3>2 DEF At
    <2>4. \A j \in Dirs(s.d), n \in Slots : n # Final /\ At(OnDisk(s.d), <<j, n>>) # 0 =>
              /\ At(OnDisk(t.d), <<j, n>>) = At(OnDisk(s.d), <<j, n>>)
              /\ t.d.block[At(OnDisk(s.d), <<j, n>>)] = s.d.block[At(OnDisk(s.d), <<j, n>>)]
      BY <1>4, <2>3
    <2> QED
      BY <1>2, <1>4, <2>1, <2>2, <2>4, EntriesStay
  <1>12. TreeOK(t.d)
    BY <1>2, <1>4, <1>6, <1>11, TreeStays
  <1>13. Cached(t)
    <2>1. \A j, k \in Inodes : NamesIt(t.d, k, j) <=> NamesIt(s.d, k, j)
      BY <1>11, SameNames
    <2>2. \A j \in Inodes : IsNamed(t.d, j) <=> IsNamed(s.d, j)
      BY <2>1 DEF IsNamed
    <2> SUFFICES ASSUME NEW j \in Inodes, t.ic[j].ref > 0
                 PROVE  /\ t.ic[j].di.type = t.d.inode[j].type /\ t.ic[j].di.type # "FREE"
                        /\ t.ic[j].di.size = t.d.inode[j].size
                        /\ ~t.ic[j].dirty => t.ic[j].di = t.d.inode[j]
                        /\ t.ic[j].di.nlink > 0 => t.d.inode[j].nlink > 0
                        /\ t.ic[j].di.type = "DIR" \/ IsNamed(t.d, j) => t.ic[j].di.nlink > 0
      BY DEF Cached
    <2>3. j \in Inodes \ {i} /\ s.ic[j].ref > 0
      BY <1>1, <1>5
    <2> QED
      BY <1>1, <1>2, <1>4, <2>2, <2>3 DEF Cached
  <1>14. Sound(t, X)
    BY <1>1, <1>4, <1>9, <1>10, <1>12, <1>13 DEF Sound
  <1>15. Leads(s, t)
    BY <1>1, <1>3, <1>14, WriteStep DEF w
  <1> QED
    BY <1>4, <1>6, <1>7, <1>11, <1>14, <1>15 DEF AfterFresh
-----------------------------------------------------------------------------
(* fs_iput() drops the last reference                                      *)

LEMMA PickOwn ==
    ASSUME NEW s \in State, NEW i \in Inodes
    PROVE  /\ Pick(s, i, s.ic[i].di) = s
           /\ Flushed(s, fs_iupdate(s, i), i, s.ic[i].di)
  <1>1. /\ s.ic \in [Inodes -> CacheSlot] /\ s.ic[i] \in CacheSlot /\ s.ic[i].di \in DiskInode
    BY StateParts
  <1>2. [s.ic[i] EXCEPT !.di = s.ic[i].di] = s.ic[i]
    BY <1>1 DEF CacheSlot
  <1>3. [s.ic EXCEPT ![i].di = s.ic[i].di] = s.ic
    BY <1>1, <1>2
  <1>4. Pick(s, i, s.ic[i].di) = s
    BY <1>3 DEF Pick, State
  <1>5. Flushed(s, fs_iupdate(Pick(s, i, s.ic[i].di), i), i, s.ic[i].di)
    BY <1>1, IupdateEffect
  <1> QED
    BY <1>4, <1>5

\* The first two steps of fs_iput(), in u; f is the state without them, but for
\* the write of the inode.
Cleaned(s, X, i, f, u) ==
    /\ Sound(f, X) /\ Keeps(s, f) /\ InUse(f) = InUse(s)
    /\ f.ic[i].ref > 0 /\ f.ic[i].di = s.ic[i].di /\ f.d.inode[i] = s.ic[i].di
    /\ \A j \in Inodes \ {i} : f.ic[j] = s.ic[j] /\ f.d.inode[j] = s.d.inode[j]
    /\ u.ic[i].di = s.ic[i].di /\ IsWith(u, f, i, u.ic[i])
LEMMA CleanSound ==
    ASSUME NEW s, NEW X, Good(s, X), NEW i \in Inodes, s.ic[i].ref > 0,
           NEW a, a = With(s, i, Less(s, i)),
           NEW u, u = IF s.ic[i].dirty THEN fs_iupdate(a, i) ELSE a
    PROVE  \E f : Cleaned(s, X, i, f, u)
  <1> DEFINE e == Less(s, i)
             di == s.ic[i].di
  <1>1. Sound(s, X) /\ Tidy(s) /\ s \in State /\ s.ic \in [Inodes -> CacheSlot]
        /\ s.ic[i] \in CacheSlot /\ di \in DiskInode /\ Cached(s) /\ s.d \in Disk
    BY SoundParts, StateParts DEF Good
  <1>2. e \in CacheSlot /\ e.di = di
    BY <1>1, IputForm DEF Less
  <1> HIDE DEF e
  <1>3. IsWith(a, s, i, e) /\ a \in State /\ a.ic[i] = e
    BY <1>1, <1>2, WithIs DEF e, IsWith
  <1>4. CASE ~s.ic[i].dirty
    <2>1. u = a
      BY <1>4
    <2>2. s.d.inode[i] = di
      BY <1>1, <1>4 DEF Cached
    <2>3. Keeps(s, s)
      BY <1>1, KeepsSelf
    <2>4. Cleaned(s, X, i, s, u)
      BY <1>1, <1>2, <1>3, <2>1, <2>2, <2>3 DEF Cleaned
    <2> QED
      BY <2>4
  <1>5. CASE s.ic[i].dirty
    <2>1. PICK f : f = fs_iupdate(s, i)
      OBVIOUS
    <2>2. Flushed(s, f, i, di)
      BY <1>1, <2>1, PickOwn
    <2>3. Flushes(s, X, i, di, f)
      BY <1>1, <2>2 DEF Flushes
    <2>4. Sound(f, X) /\ Keeps(s, f) /\ InUse(f) = InUse(s)
      BY <2>3, FlushSound
    <2>5. AfterFlush(s, X, i, di, f)
      BY <2>3, FlushParts
    <2>6. Flushed(a, u, i, di)
      <3>1. a.ic[i].di = di
        BY <1>2, <1>3
      <3> QED
        BY <1>3, <1>5, <3>1, PickOwn
    <2>7. /\ f.d.inode[i] = di /\ f.ic[i] = [di |-> di, ref |-> s.ic[i].ref, dirty |-> FALSE]
          /\ \A j \in Inodes \ {i} : f.ic[j] = s.ic[j] /\ f.d.inode[j] = s.d.inode[j]
      BY <2>5 DEF AfterFlush
    <2>8. f.ic[i].di = di /\ f.ic[i].ref > 0
      BY <2>7
    <2> DEFINE w == [at |-> "inode", n |-> i, v |-> di]
    <2>9. /\ u \in State /\ u.fl = a.fl /\ u.d = Perform(a.d, w) /\ u.log = Append(a.log, w)
          /\ u.ic = [a.ic EXCEPT ![i] = [di |-> di, ref |-> a.ic[i].ref, dirty |-> FALSE]]
          /\ f.fl = s.fl /\ f.d = Perform(s.d, w) /\ f.log = Append(s.log, w)
      BY <2>2, <2>6 DEF Flushed
    <2> HIDE DEF w
    <2>10. a.ic \in [Inodes -> CacheSlot]
      BY <1>3, StateParts
    <2>11. u.ic[i].di = di /\ \A j \in Inodes \ {i} : u.ic[j] = f.ic[j]
      BY <1>3, <2>7, <2>9, <2>10 DEF IsWith
    <2>12. IsWith(u, f, i, u.ic[i])
      BY <1>3, <2>9, <2>11 DEF IsWith
    <2>13. Cleaned(s, X, i, f, u)
      BY <2>4, <2>7, <2>8, <2>11, <2>12 DEF Cleaned
    <2> QED
      BY <2>13
  <1> QED
    BY <1>4, <1>5

\* b is what the places of the inode di have, on a disk with the blocks block, and
\* B the blocks among it.
Spread(b, di, block, B) ==
    /\ b \in [Slots -> 0..NBLOCKS] /\ di \in DiskInode
    /\ B \in SUBSET Blocks
    /\ \A n \in Slots : b[n] \in B \cup {0}
    /\ \A x \in B : \E n \in Slots : b[n] = x
    /\ \A n, k \in Slots : b[n] = b[k] /\ b[n] # 0 => n = k
    /\ \A n \in Direct : b[n] = di.direct[n]
    /\ b[Final] = di.indirect
    /\ di.indirect # 0 => \A c \in 1..CPB : b[NDIRECT + (c - 1)] = block[di.indirect][c].ino
    /\ di.indirect = 0 => \A n \in Slots \ Direct : b[n] = 0

LEMMA SpreadOut ==
    ASSUME NEW s, NEW X, Sound(s, X), NEW i \in InUse(s), NEW di, Kernel(s).ino[i] = di,
           NEW B, B = Taken(Kernel(s), {i} \X Slots)
    PROVE  \E b : Spread(b, di, s.d.block, B)
  <1> DEFINE P == Have(InUse(s))
             b == [n \in Slots |-> At(Kernel(s), <<i, n>>)]
  <1>1. /\ Apart(Kernel(s), P) /\ i \in Inodes /\ Kernel(s) \in Store /\ di \in DiskInode
        /\ Kernel(s).block = s.d.block
    BY SoundParts, StoreParts, KernelIno
  <1>2. \A n \in Slots : <<i, n>> \in P /\ <<i, n>>[1] = i /\ <<i, n>>[2] = n /\ <<i, n>> \in {i} \X Slots
    BY DEF Have
  <1>3. b \in [Slots -> 0..NBLOCKS]
    BY <1>1, <1>2 DEF Apart
  <1>4. B = {b[n] : n \in Slots} \ {0}
    <2>1. \A p \in {i} \X Slots : p[2] \in Slots /\ p = <<i, p[2]>>
      OBVIOUS
    <2>2. \A n \in Slots : b[n] = At(Kernel(s), <<i, n>>)
      OBVIOUS
    <2> HIDE DEF b
    <2>3. PICK m : m = Kernel(s)
      OBVIOUS
    <2>4. B = {At(m, p) : p \in {i} \X Slots} \ {0} /\ \A n \in Slots : b[n] = At(m, <<i, n>>)
      BY <2>2, <2>3 DEF Taken
    <2>5. ASSUME NEW x \in B
          PROVE  x \in {b[n] : n \in Slots} \ {0}
      <3>1. PICK p \in {i} \X Slots : x = At(m, p) /\ x # 0
        BY <2>4
      <3> QED
        BY <2>1, <2>4, <3>1
    <2>6. ASSUME NEW n \in Slots, b[n] # 0
          PROVE  b[n] \in B
      <3>1. PICK p \in {i} \X Slots : p = <<i, n>>
        BY <1>2
      <3>2. b[n] = At(m, p)
        BY <2>4, <3>1
      <3> QED
        BY <2>4, <2>6, <3>2
    <2> QED
      BY <2>4, <2>5, <2>6
  <1>5. \A n, k \in Slots : b[n] = b[k] /\ b[n] # 0 => n = k
    BY <1>1, <1>2 DEF Apart
  <1>6. \A n \in Slots : b[n] = IF n < NDIRECT THEN di.direct[n] ELSE IF n = Final THEN di.indirect
                                ELSE IF di.indirect = 0 THEN 0
                                ELSE s.d.block[di.indirect][n - NDIRECT + 1].ino
    BY <1>1, <1>2 DEF At
  <1>7. /\ \A n \in Direct : n \in Slots /\ n < NDIRECT
        /\ Final \in Slots /\ ~(Final < NDIRECT)
        /\ \A n \in Slots \ Direct : ~(n < NDIRECT)
        /\ \A c \in 1..CPB : /\ NDIRECT + (c - 1) \in Slots /\ ~(NDIRECT + (c - 1) < NDIRECT)
                             /\ NDIRECT + (c - 1) # Final /\ (NDIRECT + (c - 1)) - NDIRECT + 1 = c
    BY Sizes DEF Slots, Direct, Final
  <1>8. B \in SUBSET Blocks
    <2>1. \A n \in Slots : b[n] # 0 => b[n] \in Blocks
      BY <1>3, Sizes
    <2> HIDE DEF b
    <2> QED
      BY <1>4, <2>1
  <1> HIDE DEF b
  <1>9. \A n \in Slots : b[n] \in B \cup {0}
    BY <1>4
  <1>10. \A x \in B : \E n \in Slots : b[n] = x
    BY <1>4
  <1>11. /\ \A n \in Direct : b[n] = di.direct[n]
         /\ b[Final] = di.indirect
         /\ di.indirect # 0 => \A c \in 1..CPB : b[NDIRECT + (c - 1)] = s.d.block[di.indirect][c].ino
         /\ di.indirect = 0 => \A n \in Slots \ Direct : b[n] = 0
    BY <1>6, <1>7
  <1> QED
    BY <1>1, <1>3, <1>5, <1>8, <1>9, <1>10, <1>11 DEF Spread

\* The part of FreeInode() before the inode is cleared.
FreeAll(s, di) ==
    LET t == FreeEach(s, DirectPointers(di)) IN
    IF di.indirect = 0 THEN t
    ELSE bfree(FreePointers(t, t.d.block[di.indirect]), di.indirect)

\* First the blocks V, with which v becomes r, then the blocks Z.
FreesOn(v, X, i, e, V, r, Z, a) ==
    /\ Keeps(v, r) /\ r.ic = v.ic /\ r.d.inode = v.d.inode /\ InUse(r) = InUse(v)
    /\ \A c \in Blocks \ V : r.d.block[c] = v.d.block[c]
    /\ Freed(r, X \ V, i, e, Z, a)
LEMMA FreedOn ==
    ASSUME NEW v, NEW X, NEW i, NEW e, NEW Y1, NEW v1, NEW Z, NEW a,
           FreesOn(v, X, i, e, Y1, v1, Z, a), NEW Y, Y = Y1 \cup Z
    PROVE  Freed(v, X, i, e, Y, a)
  <1> DEFINE W == X \ Y1
  <1>0. /\ Keeps(v, v1) /\ v1.ic = v.ic /\ v1.d.inode = v.d.inode /\ InUse(v1) = InUse(v)
        /\ \A c \in Blocks \ Y1 : v1.d.block[c] = v.d.block[c]
        /\ Freed(v1, W, i, e, Z, a)
    BY DEF FreesOn
  <1> USE <1>0
  <1>1. PICK t : /\ IsWith(a, t, i, e) /\ Sound(t, W \ Z) /\ Keeps(v1, t)
                 /\ t.ic = v1.ic /\ t.d.inode = v1.d.inode /\ InUse(t) = InUse(v1)
                 /\ \A c \in Blocks \ Z : t.d.block[c] = v1.d.block[c]
    BY DEF Freed
  <1>2. W \ Z = X \ Y
    OBVIOUS
  <1>3. Sound(t, X \ Y) /\ Keeps(v, t)
    BY <1>1, <1>2, KeepsOn
  <1>4. \A c \in Blocks \ Y : t.d.block[c] = v.d.block[c]
    <2>1. \A c \in Blocks \ Y : c \in Blocks \ Z /\ c \in Blocks \ Y1
      OBVIOUS
    <2> QED
      BY <1>1, <2>1
  <1> QED
    BY <1>1, <1>3, <1>4 DEF Freed

\* The slot of inode i apart, u is v, where the function has X and the blocks B of
\* the inode di.
FreesAll(v, X, B, W, i, e, u, b, di) ==
    /\ Sound(v, W) /\ W = X \cup B /\ X \cap B = {}
    /\ i \in Inodes /\ IsWith(u, v, i, e) /\ Spread(b, di, v.d.block, B)
LEMMA FreeAllSound ==
    ASSUME NEW v, NEW X, NEW B, NEW W, NEW i, NEW e, NEW u, NEW b, NEW di,
           FreesAll(v, X, B, W, i, e, u, b, di)
    PROVE  \E Y : Freed(v, W, i, e, Y, FreeAll(u, di)) /\ W \ Y = X
  <1> DEFINE q == DirectPointers(di)
             H == Heads(q, NDIRECT)
  <1>0. /\ Sound(v, W) /\ W = X \cup B /\ X \cap B = {}
        /\ i \in Inodes /\ IsWith(u, v, i, e) /\ Spread(b, di, v.d.block, B)
    BY DEF FreesAll
  <1> USE <1>0
  <1>1. /\ b \in [Slots -> 0..NBLOCKS] /\ di \in DiskInode
        /\ B \in SUBSET Blocks
        /\ \A n \in Slots : b[n] \in B \cup {0}
        /\ \A x \in B : \E n \in Slots : b[n] = x
        /\ \A n, k \in Slots : b[n] = b[k] /\ b[n] # 0 => n = k
        /\ \A n \in Direct : b[n] = di.direct[n]
        /\ b[Final] = di.indirect
        /\ di.indirect # 0 => \A c \in 1..CPB : b[NDIRECT + (c - 1)] = v.d.block[di.indirect][c].ino
        /\ di.indirect = 0 => \A n \in Slots \ Direct : b[n] = 0
    BY DEF Spread
  <1>2. W \in SUBSET Blocks /\ X \in SUBSET Blocks /\ 0 \notin Blocks /\ NDIRECT \in Nat /\ CPB \in Nat
        /\ v \in State
    BY SoundParts, Sizes
  <1>3. \A k \in 1..NDIRECT : k - 1 \in Direct /\ k - 1 \in Slots /\ q[k] = b[k - 1]
    <2>1. \A k \in 1..NDIRECT : k - 1 \in Direct /\ k - 1 \in Slots
      BY Sizes DEF Direct, Slots
    <2> QED
      BY <1>1, <2>1 DEF DirectPointers
  <1>4. q \in [1..NDIRECT -> 0..NBLOCKS]
    <2>1. q = [k \in 1..NDIRECT |-> q[k]]
      BY DEF DirectPointers
    <2>2. \A k \in 1..NDIRECT : q[k] \in 0..NBLOCKS
      BY <1>1, <1>3
    <2> HIDE DEF q
    <2> QED
      BY <2>1, <2>2
  <1> HIDE DEF q
  <1>5. Gives(W, q, NDIRECT)
    <2>1. \A k \in 1..NDIRECT : q[k] \in W \cup {0}
      BY <1>1, <1>3
    <2>2. ASSUME NEW k \in 1..NDIRECT, NEW m \in 1..NDIRECT, q[k] = q[m], q[k] # 0
          PROVE  k = m
      <3>1. k - 1 = m - 1
        BY <1>1, <1>3, <2>2
      <3> QED
        BY <3>1
    <2> QED
      BY <1>2, <1>4, <2>1, <2>2 DEF Gives
  <1>6. PICK a : a = FreeEach(u, q)
    OBVIOUS
  <1>7. Freed(v, W, i, e, H, a)
    BY <1>5, <1>6, FreeEachSound
  <1>8. H \subseteq B \cup {0}
    BY <1>1, <1>3 DEF Heads
  <1>9. \A n \in Direct : b[n] \in H
    <2>1. \A n \in Direct : n + 1 \in 1..NDIRECT /\ (n + 1) - 1 = n
      BY <1>2 DEF Direct
    <2> QED
      BY <1>3, <2>1 DEF Heads
  <1> HIDE DEF H
  <1>10. CASE di.indirect = 0
    <2>1. FreeAll(u, di) = a
      BY <1>6, <1>10 DEF FreeAll, q
    <2>2. B \subseteq H
      BY <1>1, <1>2, <1>9, <1>10
    <2>3. W \ H = X
      BY <1>2, <1>8, <2>2
    <2> QED
      BY <1>7, <2>1, <2>3
  <1>11. CASE di.indirect # 0
    <2> DEFINE ib == di.indirect
    <2>1. PICK v1 : /\ IsWith(a, v1, i, e) /\ Sound(v1, W \ H) /\ Keeps(v, v1)
                    /\ v1.ic = v.ic /\ v1.d.inode = v.d.inode /\ InUse(v1) = InUse(v)
                    /\ \A c \in Blocks \ H : v1.d.block[c] = v.d.block[c]
      BY <1>7 DEF Freed
    <2>2. Final \in Slots /\ Final \notin Direct
      BY Sizes DEF Slots, Final, Direct
    <2>3. ib \in B /\ ib \notin H /\ ib \in Blocks
      <3>1. ib \in B
        BY <1>1, <1>11, <2>2
      <3>2. ASSUME ib \in H
            PROVE  FALSE
        <4>1. PICK k \in 1..NDIRECT : ib = q[k]
          BY <3>2 DEF H, Heads
        <4>2. k - 1 = Final
          BY <1>1, <1>3, <1>11, <2>2, <4>1
        <4> QED
          BY <1>3, <2>2, <4>2
      <3> QED
        BY <1>1, <3>1, <3>2
    <2>4. a.d.block[ib] = v.d.block[ib]
      BY <2>1, <2>3 DEF IsWith
    <2> DEFINE r == Pointers(a.d.block[ib])
    <2>5. \A c \in 1..CPB : /\ NDIRECT + (c - 1) \in Slots /\ NDIRECT + (c - 1) \notin Direct
                            /\ NDIRECT + (c - 1) # Final
                            /\ r[c] = b[NDIRECT + (c - 1)]
      <3>1. \A c \in 1..CPB : /\ NDIRECT + (c - 1) \in Slots /\ NDIRECT + (c - 1) \notin Direct
                              /\ NDIRECT + (c - 1) # Final
        BY Sizes DEF Slots, Direct, Final
      <3> QED
        BY <1>1, <1>11, <2>4, <3>1 DEF Pointers
    <2>6. r \in [1..CPB -> 0..NBLOCKS]
      <3>1. r = [c \in 1..CPB |-> r[c]]
        BY DEF Pointers
      <3>2. \A c \in 1..CPB : r[c] \in 0..NBLOCKS
        BY <1>1, <2>5
      <3> HIDE DEF r
      <3> QED
        BY <3>1, <3>2
    <2> HIDE DEF r
    <2>7. PICK U \in SUBSET Blocks : U = W \ H
      BY <1>2
    <2>8. ASSUME NEW n \in Slots \ Direct
          PROVE  b[n] \notin H \/ b[n] = 0
      <3>1. SUFFICES ASSUME b[n] \in H, b[n] # 0
                     PROVE  FALSE
        OBVIOUS
      <3>2. PICK k \in 1..NDIRECT : b[n] = q[k]
        BY <3>1 DEF H, Heads
      <3>3. k - 1 = n
        BY <1>1, <1>3, <3>1, <3>2
      <3> QED
        BY <1>3, <3>3
    <2>9. Gives(U, r, CPB)
      <3>1. \A c \in 1..CPB : r[c] \in U \cup {0}
        BY <1>1, <2>5, <2>7, <2>8
      <3>2. ASSUME NEW k \in 1..CPB, NEW m \in 1..CPB, r[k] = r[m], r[k] # 0
            PROVE  k = m
        <4>1. NDIRECT + (k - 1) = NDIRECT + (m - 1)
          BY <1>1, <2>5, <3>2
        <4> QED
          BY <1>2, <4>1
      <3> QED
        BY <1>2, <2>6, <2>7, <3>1, <3>2 DEF Gives
    <2> DEFINE J == Heads(r, CPB)
    <2>10. PICK c : c = FreeEach(a, r)
      OBVIOUS
    <2>11. Freed(v1, U, i, e, J, c)
      BY <2>1, <2>7, <2>9, <2>10, FreeEachSound
    <2>12. J \subseteq B \cup {0} /\ ib \notin J
      <3>1. J \subseteq B \cup {0}
        BY <1>1, <2>5 DEF Heads
      <3>2. ASSUME ib \in J
            PROVE  FALSE
        <4>1. PICK k \in 1..CPB : ib = r[k]
          BY <3>2 DEF Heads
        <4> QED
          BY <1>1, <1>11, <2>2, <2>5, <4>1
      <3> QED
        BY <3>1, <3>2
    <2>13. \A n \in Slots : n \in Direct \/ n = Final \/ b[n] \in J
      <3>1. ASSUME NEW n \in Slots, n \notin Direct, n # Final
            PROVE  b[n] \in J
        <4>1. n - NDIRECT + 1 \in 1..CPB /\ NDIRECT + ((n - NDIRECT + 1) - 1) = n
          BY <3>1, Sizes DEF Slots, Direct, Final
        <4> QED
          BY <2>5, <4>1 DEF Heads
      <3> QED
        BY <3>1
    <2> HIDE DEF J
    <2>14. Freed(v1, U, i, e, J \cup {ib}, FreeIfAny(c, ib))
      <3>1. ib \in (U \ J) \cup {0}
        BY <2>3, <2>7, <2>12
      <3> QED
        BY <2>11, <3>1, FreedMore
    <2>15. FreeIfAny(c, ib) = FreeAll(u, di)
      <3>1. a.buf = "kept"
        BY <2>1, StateParts DEF IsWith
      <3>2. FreePointers(a, a.d.block[ib]) = FreeEach(a, r)
        BY <3>1 DEF FreePointers, r
      <3> QED
        BY <1>6, <1>11, <2>10, <3>2 DEF FreeIfAny, FreeAll, q
    <2>16. PICK Z : Z = J \cup {ib}
      OBVIOUS
    <2>17. PICK Y : Y = H \cup Z
      OBVIOUS
    <2>19. PICK a3 : a3 = FreeAll(u, di)
      OBVIOUS
    <2>20. Freed(v1, U, i, e, Z, a3)
      BY <2>14, <2>15, <2>16, <2>19
    <2>25. FreesOn(v, W, i, e, H, v1, Z, a3)
      BY <2>1, <2>7, <2>20 DEF FreesOn
    <2>21. Freed(v, W, i, e, Y, a3)
      BY <2>17, <2>25, FreedOn
    <2>22. B \subseteq Y
      BY <1>1, <1>9, <2>13, <2>16, <2>17
    <2>23. Y \subseteq B \cup {0}
      BY <1>8, <2>3, <2>12, <2>16, <2>17
    <2>24. W \ Y = X
      BY <1>2, <2>22, <2>23
    <2> QED
      BY <2>19, <2>21, <2>24
  <1> QED
    BY <1>10, <1>11

\* The slot of an inode without links is gone, and B was what it had.
Drops(f, X, i, v, B) ==
    /\ Sound(f, X) /\ i \in Inodes /\ f.ic[i].ref > 0
    /\ f.ic[i].di = f.d.inode[i] /\ f.d.inode[i].nlink = 0
    /\ IsWith(v, f, i, NoSlot) /\ B = Taken(Kernel(f), {i} \X Slots)
LEMMA DropSound ==
    ASSUME NEW f, NEW X, NEW i, NEW v, NEW B, Drops(f, X, i, v, B)
    PROVE  /\ Sound(v, X \cup B) /\ X \cap B = {} /\ InUse(v) = InUse(f) \ {i}
           /\ Leads(f, v) /\ v.d = f.d
  <1>1. /\ Sound(f, X) /\ i \in Inodes /\ f.ic[i].ref > 0
        /\ f.ic[i].di = f.d.inode[i] /\ f.d.inode[i].nlink = 0
        /\ B = Taken(Kernel(f), {i} \X Slots)
        /\ v \in State /\ v.fl = f.fl /\ v.d = f.d /\ v.log = f.log /\ v.ic[i] = NoSlot
        /\ \A j \in Inodes \ {i} : v.ic[j] = f.ic[j]
    BY DEF Drops, IsWith
  <1>2. /\ f \in State /\ f.d \in Disk /\ f.d.free_list = f.fl /\ Live(f.d) \in SUBSET Inodes
        /\ Agree(f) /\ Cached(f) /\ TreeOK(f.d)
        /\ Owned(Kernel(f), Have(InUse(f)), X) /\ InUse(f) \in SUBSET Inodes
    BY <1>1, SoundParts, LiveParts
  <1>3. v.ic[i].ref = 0
    BY <1>1, NoSlotType
  <1>4. i \notin Live(f.d) /\ i \in InUse(f)
    BY <1>1 DEF Live, InUse
  <1>5. InUse(v) = InUse(f) \ {i}
    <2>1. \A j \in Inodes : j \in InUse(v) <=> j \in InUse(f) /\ j # i
      BY <1>1, <1>3, <1>4 DEF InUse
    <2>2. InUse(v) \subseteq Inodes
      BY <1>1, <1>2 DEF InUse
    <2> QED
      BY <1>2, <2>1, <2>2
  <1>6. Kernel(v) = Kernel(f)
    <2>1. \A j \in Inodes : Kernel(v).ino[j] = Kernel(f).ino[j]
      <3> SUFFICES ASSUME NEW j \in Inodes
                   PROVE  Kernel(v).ino[j] = Kernel(f).ino[j]
        OBVIOUS
      <3>1. /\ Kernel(v).ino[j] = IF v.ic[j].ref > 0 THEN v.ic[j].di ELSE v.d.inode[j]
            /\ Kernel(f).ino[j] = IF f.ic[j].ref > 0 THEN f.ic[j].di ELSE f.d.inode[j]
        BY KernelIno
      <3> QED
        BY <1>1, <1>3, <3>1
    <2>2. Kernel(v) \in Store /\ Kernel(f) \in Store
      BY <1>1, <1>2, StateParts
    <2>3. Kernel(v).fl = Kernel(f).fl /\ Kernel(v).block = Kernel(f).block
      BY <1>1, KernelIno
    <2>4. PICK m \in Store : m = Kernel(f)
      BY <2>2
    <2>5. PICK u \in Store : u = Kernel(v)
      BY <2>2
    <2>6. u.ino = m.ino
      BY <2>1, <2>4, <2>5 DEF Store
    <2>7. u = m
      BY <2>3, <2>4, <2>5, <2>6 DEF Store
    <2> QED
      BY <2>4, <2>5, <2>7
  <1>7. /\ Owned(Kernel(v), Have(InUse(v)), X \cup B) /\ X \cap B = {}
    <2>1. PICK m : m = Kernel(f)
      OBVIOUS
    <2>2. PICK P : P = Have(InUse(f))
      OBVIOUS
    <2>3. PICK R : R = Have(InUse(v))
      OBVIOUS
    <2>4. PICK Q : Q = P \ R
      OBVIOUS
    <2>5. R \in SUBSET P
      BY <1>5, <2>2, <2>3 DEF Have
    <2>6. Closed(R)
      BY <1>2, <1>5, <2>3, ClosedHave
    <2>7. Q = {i} \X Slots
      <3>1. \A p : p \in P <=> p \in InUse(f) \X Slots
        BY <2>2 DEF Have
      <3>2. \A p : p \in R <=> p \in (InUse(f) \ {i}) \X Slots
        BY <1>5, <2>3 DEF Have
      <3>3. \A p : p \in Q <=> p \in {i} \X Slots
        BY <1>4, <2>4, <3>1, <3>2
      <3> QED
        BY <3>3
    <2>8. B = Taken(m, Q)
      BY <1>1, <2>1, <2>7
    <2>9. Owned(m, P, X)
      BY <1>2, <2>1, <2>2
    <2>10. Owned(m, R, X \cup Taken(m, Q)) /\ Taken(m, Q) \cap X = {}
      BY <2>4, <2>5, <2>6, <2>9, OwnedDrop
    <2> QED
      BY <1>6, <2>1, <2>3, <2>8, <2>10
  <1>8. Agree(v)
    BY <1>1, <1>2, <1>6 DEF Agree
  <1>9. Cached(v)
    <2> SUFFICES ASSUME NEW j \in Inodes, v.ic[j].ref > 0
                 PROVE  /\ v.ic[j].di.type = f.d.inode[j].type /\ v.ic[j].di.type # "FREE"
                        /\ v.ic[j].di.size = f.d.inode[j].size
                        /\ ~v.ic[j].dirty => v.ic[j].di = f.d.inode[j]
                        /\ v.ic[j].di.nlink > 0 => f.d.inode[j].nlink > 0
                        /\ v.ic[j].di.type = "DIR" \/ IsNamed(f.d, j) => v.ic[j].di.nlink > 0
      BY <1>1 DEF Cached
    <2>1. j # i
      BY <1>3
    <2> QED
      BY <1>1, <1>2, <2>1 DEF Cached
  <1>10. Sound(v, X \cup B)
    BY <1>1, <1>2, <1>7, <1>8, <1>9 DEF Sound
  <1>11. Leads(f, v)
    BY <1>1, LeadsSame
  <1> QED
    BY <1>1, <1>5, <1>7, <1>10, <1>11

LEMMA FreeInodeForm ==
    ASSUME NEW s, NEW i
    PROVE  FreeInode(s, i) = fs_iupdate(Pick(FreeAll(s, s.ic[i].di), i, EmptyInode), i)
  BY DEF FreeInode, FreeAll, Pick

\* The inode is freed, and its slot.
LEMMA LastSound ==
    ASSUME NEW f, NEW X, NEW i, NEW v, NEW B, Drops(f, X, i, v, B), NEW u,
           IsWith(u, v, i, u.ic[i]), u.ic[i].di = f.ic[i].di,
           NEW t, t = With(FreeInode(u, i), i, NoSlot)
    PROVE  /\ Sound(t, X) /\ Leads(f, t) /\ SameEntries(f.d, t.d)
           /\ InUse(t) = InUse(f) \ {i} /\ Live(t.d) = Live(f.d)
           /\ t.ic[i] = NoSlot /\ \A j \in Inodes \ {i} : t.ic[j] = f.ic[j]
           /\ t.d.inode[i] = EmptyInode
           /\ \A j \in Inodes \ {i} : t.d.inode[j] = f.d.inode[j]
  <1> DEFINE di == f.ic[i].di
             w == [at |-> "inode", n |-> i, v |-> EmptyInode]
  <1>1. /\ Sound(f, X) /\ i \in Inodes /\ f.ic[i].ref > 0 /\ f.ic[i].di = f.d.inode[i]
        /\ B = Taken(Kernel(f), {i} \X Slots) /\ IsWith(v, f, i, NoSlot)
    BY DEF Drops
  <1>2. /\ Sound(v, X \cup B) /\ X \cap B = {} /\ InUse(v) = InUse(f) \ {i}
        /\ Leads(f, v) /\ v.d = f.d
    BY DropSound
  <1>3. PICK b : Spread(b, di, v.d.block, B)
    <2>1. i \in InUse(f) /\ Kernel(f).ino[i] = di
      BY <1>1, KernelIno DEF InUse
    <2>2. \E b : Spread(b, di, f.d.block, B)
      BY <1>1, <2>1, SpreadOut
    <2> QED
      BY <1>2, <2>2
  <1>4. PICK W : W = X \cup B
    OBVIOUS
  <1>5. PICK a : a = FreeAll(u, di)
    OBVIOUS
  <1>6. PICK e : e = u.ic[i]
    OBVIOUS
  <1>7. IsWith(u, v, i, e)
    BY <1>6
  <1>8. PICK Y : Freed(v, W, i, e, Y, a) /\ W \ Y = X
    <2>1. Sound(v, W)
      BY <1>2, <1>4
    <2> HIDE DEF di
    <2>3. FreesAll(v, X, B, W, i, e, u, b, di)
      BY <1>1, <1>2, <1>3, <1>4, <1>7, <2>1 DEF FreesAll
    <2>2. \E Y : Freed(v, W, i, e, Y, FreeAll(u, di)) /\ W \ Y = X
      BY <2>3, FreeAllSound
    <2> QED
      BY <1>5, <2>2
  <1>9. PICK r : /\ IsWith(a, r, i, e) /\ Sound(r, X) /\ Keeps(v, r)
                 /\ r.ic = v.ic /\ r.d.inode = v.d.inode /\ InUse(r) = InUse(v)
    BY <1>8 DEF Freed
  <1>10. PICK c : c = fs_iupdate(Pick(a, i, EmptyInode), i)
    OBVIOUS
  <1>11. t = With(c, i, NoSlot)
    BY <1>1, <1>5, <1>10, FreeInodeForm
  <1>12. a \in State /\ a.fl = r.fl /\ a.d = r.d /\ a.log = r.log /\ \A j \in Inodes \ {i} : a.ic[j] = r.ic[j]
    BY <1>9 DEF IsWith
  <1>13. Flushed(a, c, i, EmptyInode)
    BY <1>1, <1>10, <1>12, NoSlotType, IupdateEffect
  <1>14. /\ c \in State /\ c.fl = r.fl /\ c.d = Perform(r.d, w) /\ c.log = Append(r.log, w)
         /\ c.ic = [a.ic EXCEPT ![i] = [di |-> EmptyInode, ref |-> a.ic[i].ref, dirty |-> FALSE]]
    BY <1>12, <1>13 DEF Flushed
  <1> HIDE DEF w
  <1>15. \A j \in Inodes \ {i} : c.ic[j] = r.ic[j]
    <2>1. a.ic \in [Inodes -> CacheSlot]
      BY <1>12, StateParts
    <2> QED
      BY <1>12, <1>14, <2>1
  <1>16. IsWith(t, c, i, NoSlot)
    BY <1>1, <1>11, <1>14, NoSlotType, WithIs
  <1>17. /\ t \in State /\ t.fl = r.fl /\ t.d = Perform(r.d, w) /\ t.log = Append(r.log, w)
         /\ t.ic[i] = NoSlot /\ \A j \in Inodes \ {i} : t.ic[j] = r.ic[j]
    BY <1>14, <1>15, <1>16 DEF IsWith
  <1>18. /\ v.ic[i] = NoSlot /\ \A j \in Inodes \ {i} : v.ic[j] = f.ic[j]
    BY <1>1 DEF IsWith
  <1>19. t.ic = r.ic
    <2>1. t.ic \in [Inodes -> CacheSlot] /\ r.ic \in [Inodes -> CacheSlot]
      BY <1>9, <1>17, SoundParts, StateParts
    <2>2. \A j \in Inodes : t.ic[j] = r.ic[j]
      BY <1>9, <1>17, <1>18
    <2> QED
      BY <2>1, <2>2
  <1>20. Fresh(r, X, i, EmptyInode, t)
    <2>1. i \in Inodes \ InUse(r)
      BY <1>1, <1>2, <1>9
    <2> QED
      BY <1>9, <1>17, <1>19, <2>1, NoSlotType DEF Fresh, w
  <1>21. /\ Sound(t, X) /\ Leads(r, t) /\ SameEntries(r.d, t.d)
         /\ InUse(t) = InUse(r) /\ Live(t.d) = Live(r.d)
         /\ t.d.inode[i] = EmptyInode /\ \A j \in Inodes \ {i} : t.d.inode[j] = r.d.inode[j]
    <2>1. PICK z : z = EmptyInode
      OBVIOUS
    <2>2. z.type = "FREE" /\ Fresh(r, X, i, z, t)
      BY <1>20, <2>1, NoSlotType
    <2>3. AfterFresh(r, X, i, z, t)
      BY <2>2, FreshSound
    <2> QED
      BY <2>1, <2>2, <2>3 DEF AfterFresh
  <1>22. Leads(f, t)
    <2>1. Leads(v, r)
      BY <1>9 DEF Keeps, Steady
    <2> QED
      BY <1>2, <1>21, <2>1, LeadsOn
  <1>23. SameEntries(f.d, t.d)
    <2>1. SameEntries(v.d, r.d)
      BY <1>9 DEF Keeps
    <2> QED
      BY <1>2, <1>21, <2>1, SameEntriesOn
  <1>24. Live(t.d) = Live(f.d)
    <2>1. Live(r.d) = Live(v.d)
      BY <1>9 DEF Live
    <2> QED
      BY <1>2, <1>21, <2>1
  <1> QED
    BY <1>2, <1>9, <1>17, <1>18, <1>21, <1>22, <1>23, <1>24

\* Where fs_iput() leaves inode i.
Leaves(s, i, t) ==
    IF t.ic[i].ref > 0 THEN t.ic[i].di = s.ic[i].di /\ t.d.inode[i] = s.d.inode[i]
    ELSE IF s.ic[i].di.nlink > 0 THEN t.d.inode[i] = s.ic[i].di
    ELSE t.d.inode[i] = EmptyInode
\* fs_iput()
Putted(s, X, i, t) ==
    /\ Good(t, X) /\ Leads(s, t) /\ SameEntries(s.d, t.d) /\ Down(s, t, i)
    /\ \A j \in Inodes \ {i} : t.ic[j] = s.ic[j]
    /\ \A j \in Live(s.d) : j # i \/ s.ic[i].di.nlink > 0 => j \in Live(t.d)
    /\ \A j \in Inodes \ {i} : t.d.inode[j] = s.d.inode[j]
    /\ Leaves(s, i, t)
LEMMA IputSound ==
    ASSUME NEW s, NEW X, Good(s, X), NEW i \in Inodes, s.ic[i].ref > 0
    PROVE  Putted(s, X, i, fs_iput(s, i))
  <1>1. Sound(s, X) /\ Tidy(s) /\ s \in State /\ s.ic[i].ref \in Nat /\ s.ic[i] \in CacheSlot
        /\ s.ic[i].di \in DiskInode /\ i \in InUse(s) /\ Cached(s) /\ s.ic[i].dirty \in BOOLEAN
        /\ \A j \in Inodes : s.ic[j].ref \in Nat
    BY SoundParts, StateParts DEF Good, InUse
  <1>2. PICK a : a = With(s, i, Less(s, i))
    OBVIOUS
  <1>3. PICK u : u = IF s.ic[i].dirty THEN fs_iupdate(a, i) ELSE a
    OBVIOUS
  <1>4. PICK v : v = IF s.ic[i].di.nlink = 0 /\ s.ic[i].di.type # "FREE" THEN FreeInode(u, i) ELSE u
    OBVIOUS
  <1>5. PICK t : t = fs_iput(s, i)
    OBVIOUS
  <1>6. Less(s, i) \in CacheSlot /\ t = IF s.ic[i].ref = 1 THEN With(v, i, NoSlot) ELSE a
    BY <1>1, <1>2, <1>3, <1>4, <1>5, IputForm
  <1>7. CASE s.ic[i].ref # 1
    <2> DEFINE e == Less(s, i)
    <2>1. IsWith(t, s, i, e)
      BY <1>1, <1>2, <1>6, <1>7, WithIs
    <2>2. e.ref = s.ic[i].ref - 1 /\ e.ref \in Nat /\ e.ref > 0 /\ e.di = s.ic[i].di
          /\ e.dirty = s.ic[i].dirty
      BY <1>1, <1>7 DEF Less
    <2> HIDE DEF e
    <2>3. Kernel(s).ino[i] = s.ic[i].di
      BY <1>1, KernelIno
    <2>11. e.dirty = IF s.ic[i].ref > 0 THEN s.ic[i].dirty ELSE FALSE
      BY <2>2
    <2>12. e.ref # 0 /\ e.di = Kernel(s).ino[i]
      BY <2>2, <2>3
    <2>4. Reslots(s, X, i, e, t)
      BY <1>1, <2>1, <2>2, <2>11, <2>12 DEF Reslots
    <2>5. Seems(s, X, t)
      BY <2>4, SlotSound
    <2>6. Sound(t, X) /\ Leads(s, t) /\ t.d = s.d
      BY <2>5 DEF Seems
    <2>7. t.ic[i].ref = s.ic[i].ref - 1 /\ t.ic[i].ref > 0
          /\ \A j \in Inodes \ {i} : t.ic[j] = s.ic[j]
      BY <2>1, <2>2 DEF IsWith
    <2>8. Tidy(t)
      BY <1>1, <2>7 DEF Tidy
    <2>9. Down(s, t, i)
      BY <1>1, <2>7 DEF Down, Hit
    <2>10. SameEntries(s.d, t.d)
      BY <1>1, <2>6, SameDisk
    <2>13. Leaves(s, i, t)
      BY <2>1, <2>2, <2>6, <2>7 DEF IsWith, Leaves
    <2> QED
      BY <1>5, <2>6, <2>7, <2>8, <2>9, <2>10, <2>13 DEF Putted, Good
  <1>8. CASE s.ic[i].ref = 1
    <2>1. PICK f : Cleaned(s, X, i, f, u)
      BY <1>2, <1>3, CleanSound
    <2>2. /\ Sound(f, X) /\ Keeps(s, f) /\ InUse(f) = InUse(s)
          /\ f.ic[i].ref > 0 /\ f.ic[i].di = s.ic[i].di /\ f.d.inode[i] = s.ic[i].di
          /\ \A j \in Inodes \ {i} : f.ic[j] = s.ic[j] /\ f.d.inode[j] = s.d.inode[j]
          /\ u.ic[i].di = s.ic[i].di /\ IsWith(u, f, i, u.ic[i])
      BY <2>1 DEF Cleaned
    <2>3. Leads(s, f) /\ SameEntries(s.d, f.d) /\ f \in State
      BY <2>2, SoundParts DEF Keeps, Steady
    <2>4. t = With(v, i, NoSlot)
      BY <1>6, <1>8
    <2>5. ASSUME Sound(t, X), Leads(f, t), SameEntries(f.d, t.d), t.ic[i] = NoSlot,
                 \A j \in Inodes \ {i} : t.ic[j] = f.ic[j], Live(t.d) = Live(f.d),
                 \A j \in Inodes \ {i} : t.d.inode[j] = f.d.inode[j],
                 t.d.inode[i] = IF s.ic[i].di.nlink > 0 THEN f.d.inode[i] ELSE EmptyInode
          PROVE  Putted(s, X, i, t)
      <3>1. t.ic[i].ref = 0
        BY <2>5, NoSlotType
      <3>2. \A j \in Inodes \ {i} : t.ic[j] = s.ic[j]
        BY <2>2, <2>5
      <3>3. Tidy(t)
        BY <1>1, <2>5, <3>2 DEF Tidy
      <3>4. Down(s, t, i)
        BY <1>1, <1>8, <3>1, <3>2 DEF Down, Hit
      <3>5. Leads(s, t) /\ SameEntries(s.d, t.d)
        BY <2>3, <2>5, LeadsOn, SameEntriesOn
      <3>6. ASSUME NEW j \in Live(s.d), j # i \/ s.ic[i].di.nlink > 0
            PROVE  j \in Live(t.d)
        <4>1. CASE j # i
          BY <2>2, <2>5, <4>1 DEF Live
        <4>2. CASE j = i
          <5>1. f.d.inode[i].nlink > 0 /\ f.d.inode[i].type # "FREE"
            BY <1>1, <1>8, <2>2, <3>6, <4>2 DEF Cached
          <5> QED
            BY <2>5, <4>2, <5>1 DEF Live
        <4> QED
          BY <4>1, <4>2
      <3>7. Leaves(s, i, t)
        BY <2>2, <2>5, <3>1 DEF Leaves
      <3>8. \A j \in Inodes \ {i} : t.d.inode[j] = s.d.inode[j]
        BY <2>2, <2>5
      <3> QED
        BY <2>5, <3>2, <3>3, <3>4, <3>5, <3>6, <3>7, <3>8 DEF Putted, Good
    <2>6. CASE s.ic[i].di.nlink # 0
      <3>1. v = u
        BY <1>4, <2>6
      <3>2. u \in State
        BY <2>2 DEF IsWith
      <3>3. IsWith(t, u, i, NoSlot)
        BY <2>4, <3>1, <3>2, NoSlotType, WithIs
      <3>4. IsWith(t, f, i, NoSlot)
        BY <2>2, <3>3, IsWithOne
      <3>5. /\ i \in InUse(f) /\ i \in Live(f.d) /\ Kernel(f).ino[i] = f.d.inode[i]
        <4>1. s.ic[i].di.type # "FREE" /\ s.ic[i].di.nlink > 0
          BY <1>1, <1>8, <2>6, InodeParts DEF Cached
        <4> QED
          BY <1>1, <2>2, <4>1, KernelIno DEF Live
      <3>6. Reslots(f, X, i, NoSlot, t)
        BY <2>2, <3>4, <3>5, NoSlotType DEF Reslots
      <3>7. Seems(f, X, t)
        BY <3>6, SlotSound
      <3>8. Sound(t, X) /\ Leads(f, t) /\ t.d = f.d
        BY <3>7 DEF Seems
      <3>9. SameEntries(f.d, t.d)
        BY <2>2, <3>8, SameDisk
      <3>11. s.ic[i].di.nlink > 0
        BY <1>1, <2>6, InodeParts
      <3>10. Putted(s, X, i, t)
        BY <2>5, <3>4, <3>8, <3>9, <3>11 DEF IsWith
      <3> QED
        BY <1>5, <3>10
    <2>7. CASE s.ic[i].di.nlink = 0
      <3>1. v = FreeInode(u, i)
        BY <1>1, <1>4, <1>8, <2>7 DEF Cached
      <3>2. PICK B : B = Taken(Kernel(f), {i} \X Slots)
        OBVIOUS
      <3>3. PICK r : r = With(f, i, NoSlot)
        OBVIOUS
      <3>4. IsWith(r, f, i, NoSlot)
        BY <2>3, <3>3, NoSlotType, WithIs
      <3>5. Drops(f, X, i, r, B)
        BY <2>2, <2>7, <3>2, <3>4 DEF Drops
      <3>6. IsWith(u, r, i, u.ic[i])
        BY <2>2, <3>4 DEF IsWith
      <3>7. u.ic[i].di = f.ic[i].di
        BY <2>2
      <3>8. t = With(FreeInode(u, i), i, NoSlot)
        BY <2>4, <3>1
      <3>9. /\ Sound(t, X) /\ Leads(f, t) /\ SameEntries(f.d, t.d)
            /\ InUse(t) = InUse(f) \ {i} /\ Live(t.d) = Live(f.d)
            /\ t.ic[i] = NoSlot /\ \A j \in Inodes \ {i} : t.ic[j] = f.ic[j]
            /\ t.d.inode[i] = EmptyInode
            /\ \A j \in Inodes \ {i} : t.d.inode[j] = f.d.inode[j]
        BY <3>5, <3>6, <3>7, <3>8, LastSound
      <3>10. Putted(s, X, i, t)
        BY <2>5, <2>7, <3>9
      <3> QED
        BY <1>5, <3>10
    <2> QED
      BY <2>6, <2>7
  <1> QED
    BY <1>7, <1>8

LEMMA LinkedInode ==
    ASSUME NEW y \in DiskInode, NEW kind \in {"FILE", "DIR", "DEV"}
    PROVE  LET e == [y EXCEPT !.type = kind, !.nlink = 1]
           IN  /\ e \in DiskInode /\ e.type = kind /\ e.nlink = 1
               /\ e.indirect = y.indirect /\ e.direct = y.direct /\ e.size = y.size
  <1>1. [y EXCEPT !.type = kind, !.nlink = 1] = [[y EXCEPT !.type = kind] EXCEPT !.nlink = 1]
    BY DEF DiskInode
  <1>2. PICK z \in DiskInode : z = [y EXCEPT !.type = kind]
    BY DEF DiskInode
  <1>3. z.type = kind /\ z.indirect = y.indirect /\ z.direct = y.direct /\ z.size = y.size
    BY <1>2 DEF DiskInode
  <1>6. [z EXCEPT !.nlink = 1] \in DiskInode
    BY DEF DiskInode
  <1>4. PICK e \in DiskInode : e = [z EXCEPT !.nlink = 1]
    BY <1>6
  <1>5. /\ e.type = z.type /\ e.nlink = 1 /\ e.indirect = z.indirect /\ e.direct = z.direct
        /\ e.size = z.size
    BY <1>4 DEF DiskInode
  <1> QED
    BY <1>1, <1>2, <1>3, <1>4, <1>5

\* ialloc(): a free inode is linked, and nothing refers to it.
Alloced(s, X, kind, r) ==
    /\ Good(r.s, X) /\ Leads(s, r.s) /\ SameEntries(s.d, r.s.d) /\ r.s.ic = s.ic
    /\ r.i = 0 => r.s = s
    /\ r.i # 0 => /\ r.i \in Inodes /\ r.i \notin InUse(s) /\ r.i \in Live(r.s.d)
                  /\ r.s.d.inode[r.i].type = kind /\ r.s.d.inode[r.i].size = 0
                  /\ r.s.d.inode[r.i].nlink = 1
                  /\ Live(r.s.d) = Live(s.d) \cup {r.i}
                  /\ \A j \in Inodes \ {r.i} : r.s.d.inode[j] = s.d.inode[j]
    /\ Live(s.d) \subseteq Live(r.s.d)
LEMMA IallocSound ==
    ASSUME NEW s, NEW X, Good(s, X), NEW kind \in {"FILE", "DIR", "DEV"}
    PROVE  Alloced(s, X, kind, ialloc(s, kind))
  <1> DEFINE free == {i \in Inodes : s.d.inode[i].type = "FREE"}
             i == Min(free)
             e == [EmptyInode EXCEPT !.type = kind, !.nlink = 1]
             w == [at |-> "inode", n |-> i, v |-> e]
  <1>1. Sound(s, X) /\ Tidy(s) /\ s \in State /\ Cached(s) /\ s.d \in Disk
    BY SoundParts DEF Good
  <1>2. PICK r : r = ialloc(s, kind)
    OBVIOUS
  <1>3. CASE free = {}
    <2>1. r = [s |-> s, i |-> 0]
      BY <1>2, <1>3 DEF ialloc
    <2>2. r.s = s /\ r.i = 0
      BY <2>1
    <2>3. SameEntries(s.d, s.d) /\ Leads(s, s)
      BY <1>1, SameDisk, LeadsSame
    <2> QED
      BY <1>2, <2>2, <2>3 DEF Alloced
  <1>4. CASE free # {}
    <2>1. i \in free
      <3>1. free \in SUBSET Nat
        BY DEF Inodes
      <3> HIDE DEF free
      <3> QED
        BY <1>4, <3>1, MinIsLeast
    <2>2. i \in Inodes /\ s.d.inode[i].type = "FREE" /\ i # 0
      BY <2>1 DEF Inodes
    <2>3. PICK t : t = WriteInode(s, i, e)
      OBVIOUS
    <2>4. r = [s |-> t, i |-> i]
      BY <1>2, <1>4, <2>3 DEF ialloc
    <2> HIDE DEF free
    <2>5. PICK j : j = i
      OBVIOUS
    <2>6. e \in DiskInode /\ e.indirect = 0 /\ (\A n \in Direct : e.direct[n] = 0) /\ e.size = 0
          /\ e.type = kind /\ e.nlink = 1
      <3>1. PICK y \in DiskInode : y = EmptyInode
        BY NoSlotType
      <3>2. PICK q : q = [y EXCEPT !.type = kind, !.nlink = 1]
        OBVIOUS
      <3>3. e = q
        BY <3>1, <3>2
      <3>4. /\ q \in DiskInode /\ q.type = kind /\ q.nlink = 1
            /\ q.indirect = y.indirect /\ q.direct = y.direct /\ q.size = y.size
        BY <3>2, LinkedInode, Zenon
      <3> HIDE DEF e
      <3> QED
        BY <3>1, <3>3, <3>4, NoSlotType
    <2> HIDE DEF e
    <2>7. w \in Writes
      BY <1>1, <2>2, <2>6, InodeWrite
    <2>8. t = Write(s, w)
      BY <2>3, Written
    <2> HIDE DEF i
    <2>9. /\ t \in State /\ t.fl = s.fl /\ t.ic = s.ic /\ t.d = Perform(s.d, w)
          /\ t.log = Append(s.log, w)
      BY <1>1, <2>7, <2>8, WriteEffect
    <2>10. i \notin InUse(s)
      BY <1>1, <2>2 DEF InUse, Live, Cached
    <2>11. Fresh(s, X, i, e, t)
      BY <1>1, <2>2, <2>6, <2>9, <2>10 DEF Fresh
    <2>12. AfterFresh(s, X, i, e, t)
      BY <2>11, FreshSound
    <2>13. r.s = t /\ r.i = i
      BY <2>4
    <2>14. Tidy(t)
      BY <1>1, <2>9 DEF Tidy
    <2>15. /\ Sound(t, X) /\ Leads(s, t) /\ SameEntries(s.d, t.d) /\ t.d.inode[i] = e
           /\ Live(t.d) = Live(s.d) \cup {i}
           /\ \A k \in Inodes \ {i} : t.d.inode[k] = s.d.inode[k]
      BY <2>6, <2>12 DEF AfterFresh
    <2> QED
      BY <1>2, <2>2, <2>6, <2>9, <2>10, <2>13, <2>14, <2>15 DEF Alloced, Good
  <1> QED
    BY <1>3, <1>4
=============================================================================
