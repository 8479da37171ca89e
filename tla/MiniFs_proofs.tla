--------------------------- MODULE MiniFs_proofs ----------------------------
(***************************************************************************)
(* Theorems about MiniFs, for every number of inodes, blocks and pointers, *)
(* every set of files, every image of mkfs and every workload that does    *)
(* not write raw data to directories.  Proofs about MiniFs, part 2: paths, *)
(* entries of directories, the calls, crash and boot, the invariant.       *)
(*                                                                         *)
(* Reach(d) is what names lead to from the root of disk d.  Whole(s, E):   *)
(* in s every inode in use can be reached, is in E, or is open without a   *)
(* name; Kept(s, t): whatever is whole in s is whole in t.                 *)
(***************************************************************************)
EXTENDS MiniFsDisk_proofs
-----------------------------------------------------------------------------
(* Directories and paths                                                   *)

\* A cached inode is a directory in use if its type says so.
LEMMA CachedDir ==
    ASSUME NEW s, NEW X, Sound(s, X), NEW i \in Inodes, s.ic[i].ref > 0
    PROVE  /\ s.ic[i].di.type = "DIR" <=> i \in Dirs(s.d)
           /\ s.ic[i].di.type = s.d.inode[i].type /\ s.ic[i].di.size = s.d.inode[i].size
           /\ s.ic[i].di.type # "FREE" /\ s.d.inode[i].size \in Nat /\ i \in InUse(s)
  <1>1. Cached(s) /\ s.d \in Disk
    BY SoundParts
  <1>2. /\ s.ic[i].di.type = s.d.inode[i].type /\ s.ic[i].di.type # "FREE"
        /\ s.ic[i].di.size = s.d.inode[i].size
        /\ s.ic[i].di.nlink > 0 => s.d.inode[i].nlink > 0
        /\ s.ic[i].di.type = "DIR" => s.ic[i].di.nlink > 0
    BY <1>1 DEF Cached
  <1>3. s.d.inode[i].size \in Nat /\ i \in InUse(s)
    BY <1>1, DiskParts, InodeParts DEF InUse
  <1> QED
    BY <1>2, <1>3 DEF Dirs, Live

\* What is read of a directory is what is on the disk.
LEMMA ReadsDir ==
    ASSUME NEW s, NEW X, Sound(s, X), NEW w \in Dirs(s.d), s.ic[w].ref > 0
    PROVE  /\ DOMAIN Cells(s, w) = Spots(s.d, w)
           /\ \A k \in Spots(s.d, w) : /\ Cells(s, w)[k] = CellOf(s.d, w, k)
                                       /\ CellAt(s, w, k) = CellOf(s.d, w, k)
           /\ Spots(s.d, w) \subseteq Nat
  <1>1. w \in Inodes
    BY SoundParts, LiveParts
  <1>2. s.ic[w].di.size = s.d.inode[w].size /\ s.d.inode[w].size \in Nat
    BY <1>1, CachedDir
  <1>3. PICK size \in Nat : size = s.d.inode[w].size
    BY <1>2
  <1>4. Spots(s.d, w) = 0..(size - 1)
    BY <1>3 DEF Spots
  <1>5. ASSUME NEW k \in Spots(s.d, w)
        PROVE  /\ Mapped(s, w, k \div CPB) = SpotAt(s.d, w, k) /\ SpotAt(s.d, w, k) # 0
               /\ CellAt(s, w, k) = CellOf(s.d, w, k)
    <2>1. /\ SpotAt(s.d, w, k) = At(Kernel(s), <<w, k \div CPB>>) /\ SpotAt(s.d, w, k) \in Blocks
          /\ k \in Nat /\ k \div CPB < Final
      BY DirPlaces
    <2>2. k \div CPB \in Nat
      BY <2>1, Position
    <2>3. Mapped(s, w, k \div CPB) = SpotAt(s.d, w, k)
      BY <1>1, <2>1, <2>2, MappedAt
    <2>4. SpotAt(s.d, w, k) # 0
      BY <2>1, Sizes
    <2> QED
      BY <2>3, <2>4 DEF CellAt, CellOf
  <1>6. ASSUME NEW bn \in 0..((size - 1) \div CPB)
        PROVE  Mapped(s, w, bn) # 0
    <2>1. bn * CPB \in Spots(s.d, w) /\ (bn * CPB) \div CPB = bn
      BY <1>4, FirstPosition
    <2> QED
      BY <2>1, <1>5
  <1>7. Readable(s, w) = size
    BY <1>2, <1>3, <1>6 DEF Readable
  <1>8. Cells(s, w) = [k \in Spots(s.d, w) |-> CellAt(s, w, k)]
    BY <1>4, <1>7 DEF Cells
  <1> QED
    BY <1>4, <1>5, <1>8

\* What a name leads to in directory w, 0 for nothing.
Hits(d, w, name) == {k \in Spots(d, w) : CellOf(d, w, k).ino # 0 /\ CellOf(d, w, k).name = name}
NextIno(d, w, name) ==
    IF w \in Dirs(d) /\ Hits(d, w, name) # {} THEN CellOf(d, w, Min(Hits(d, w, name))).ino ELSE 0

LEMMA FindIs ==
    ASSUME NEW s, NEW X, Sound(s, X), NEW w \in Dirs(s.d), s.ic[w].ref > 0, NEW name
    PROVE  LET k == Find(s, w, name)
               v == NextIno(s.d, w, name)
           IN  IF Hits(s.d, w, name) = {} THEN k = -1 /\ v = 0
               ELSE /\ k \in Hits(s.d, w, name) /\ k \in Spots(s.d, w) /\ k \in Nat
                    /\ v = CellOf(s.d, w, k).ino /\ v # 0 /\ CellOf(s.d, w, k).name = name
                    /\ CellAt(s, w, k) = CellOf(s.d, w, k)
  <1> DEFINE H == Hits(s.d, w, name)
             at == {k \in DOMAIN Cells(s, w) : Cells(s, w)[k].ino # 0 /\ Cells(s, w)[k].name = name}
  <1>1. at = H
    BY ReadsDir DEF Hits
  <1>2. Find(s, w, name) = IF at = {} THEN -1 ELSE Min(at)
    BY DEF Find
  <1>3. H \in SUBSET Nat
    BY ReadsDir DEF Hits
  <1>4. H # {} => Min(H) \in H
    <2> HIDE DEF H
    <2> QED
      BY <1>3, MinIsLeast
  <1>5. CASE H = {}
    BY <1>1, <1>2, <1>5 DEF NextIno
  <1>6. CASE H # {}
    <2>1. PICK k : k = Min(H)
      OBVIOUS
    <2>2. Find(s, w, name) = k /\ NextIno(s.d, w, name) = CellOf(s.d, w, k).ino
      BY <1>1, <1>2, <1>6, <2>1 DEF NextIno
    <2>3. k \in H
      BY <1>4, <1>6, <2>1
    <2>4. k \in Spots(s.d, w) /\ CellOf(s.d, w, k).ino # 0 /\ CellOf(s.d, w, k).name = name
      BY <2>3 DEF Hits
    <2>5. k \in Nat /\ CellAt(s, w, k) = CellOf(s.d, w, k)
      BY <2>4, ReadsDir
    <2> QED
      BY <1>6, <2>2, <2>3, <2>4, <2>5
  <1> QED
    BY <1>5, <1>6

\* Names lead to inodes in use, and only dots lead to the root.
LEMMA NextLive ==
    ASSUME NEW s, NEW X, Sound(s, X), NEW w \in Inodes, s.ic[w].ref > 0, NEW name
    PROVE  /\ NextIno(s.d, w, name) \in {0} \cup Live(s.d)
           /\ NextIno(s.d, w, name) # 0 => NextIno(s.d, w, name) \in InUse(s) /\ NextIno(s.d, w, name) \in Inodes
           /\ name \in Names => NextIno(s.d, w, name) # 1
  <1>1. InUse(s) \in SUBSET Inodes /\ Live(s.d) \subseteq InUse(s)
    BY SoundParts
  <1>2. PICK v : v = NextIno(s.d, w, name)
    OBVIOUS
  <1>3. CASE v = 0
    BY <1>2, <1>3
  <1>4. CASE v # 0
    <2>1. w \in Dirs(s.d) /\ Hits(s.d, w, name) # {}
      BY <1>2, <1>4 DEF NextIno
    <2>2. PICK k : k = Find(s, w, name)
      OBVIOUS
    <2>3. k \in Spots(s.d, w) /\ v = CellOf(s.d, w, k).ino /\ CellOf(s.d, w, k).name = name
      BY <1>2, <2>1, <2>2, FindIs
    <2>4. Proper(s.d, CellOf(s.d, w, k))
      BY <2>1, <2>3, DirPlaces
    <2>5. Dirs(s.d) \subseteq Live(s.d)
      BY SoundParts, LiveParts
    <2>6. v \in Live(s.d)
      BY <1>4, <2>3, <2>4, <2>5 DEF Proper
    <2>7. name \in Names => v # 1
      BY <1>4, <2>3, <2>4, MiniFsAssumption DEF Proper
    <2> QED
      BY <1>1, <1>2, <1>4, <2>6, <2>7
  <1> QED
    BY <1>3, <1>4

\* A state that refers to what was found.
Hold(s, i) == IF i = 0 THEN s ELSE fs_iget(s, i)

\* dir_lookup()
LEMMA LookupForm ==
    ASSUME NEW s, NEW X, Sound(s, X), NEW w \in Inodes, s.ic[w].ref > 0, NEW name
    PROVE  dir_lookup(s, w, name) =
             [s |-> Hold(s, NextIno(s.d, w, name)), i |-> NextIno(s.d, w, name)]
  <1>1. s.ic[w].di.type = "DIR" <=> w \in Dirs(s.d)
    BY CachedDir
  <1>2. CASE w \notin Dirs(s.d)
    BY <1>1, <1>2 DEF dir_lookup, NextIno, Hold
  <1>3. CASE w \in Dirs(s.d) /\ Hits(s.d, w, name) = {}
    <2>1. Find(s, w, name) = -1 /\ NextIno(s.d, w, name) = 0
      BY <1>3, FindIs
    <2> QED
      BY <1>1, <1>3, <2>1 DEF dir_lookup, Hold
  <1>4. CASE w \in Dirs(s.d) /\ Hits(s.d, w, name) # {}
    <2>1. PICK k : k = Find(s, w, name)
      OBVIOUS
    <2>2. PICK v : v = NextIno(s.d, w, name)
      OBVIOUS
    <2>3. k \in Nat /\ v = CellAt(s, w, k).ino /\ v # 0
      BY <1>4, <2>1, <2>2, FindIs
    <2>4. dir_lookup(s, w, name) = [s |-> fs_iget(s, CellAt(s, w, k).ino), i |-> CellAt(s, w, k).ino]
      BY <1>1, <1>4, <2>1, <2>3 DEF dir_lookup
    <2> QED
      BY <2>2, <2>3, <2>4 DEF Hold
  <1> QED
    BY <1>2, <1>3, <1>4

\* The results of a walk from state s.
Stands(s) == {[s |-> Hold(s, w), i |-> w] : w \in {0} \cup Live(s.d)}

LEMMA StandsParts ==
    ASSUME NEW s, NEW r \in Stands(s)
    PROVE  r.i \in {0} \cup Live(s.d) /\ r.s = Hold(s, r.i) /\ r = [s |-> Hold(s, r.i), i |-> r.i]
  BY DEF Stands

\* What is held can be put back.
LEMMA HoldSound ==
    ASSUME NEW s, NEW X, Good(s, X), NEW i \in {0} \cup InUse(s)
    PROVE  /\ Good(Hold(s, i), X) /\ Hold(s, i).d = s.d /\ InUse(Hold(s, i)) = InUse(s)
           /\ Leads(s, Hold(s, i)) /\ Put(Hold(s, i), i) = s
           /\ i # 0 => i \in Inodes /\ Hold(s, i).ic[i].ref > 0 /\ Up(s, Hold(s, i), i)
                       /\ Hold(s, i) = fs_iget(s, i) /\ fs_iput(Hold(s, i), i) = s
                       /\ Hold(s, i).ic[i].di = Kernel(s).ino[i]
           /\ \A j \in Inodes \ {i} : Hold(s, i).ic[j] = s.ic[j]
           /\ i = 0 => Hold(s, i) = s
  <1>1. CASE i = 0
    BY <1>1, LeadsSame DEF Hold, Put, Inodes
  <1>2. CASE i # 0
    <2>1. PICK t : t = fs_iget(s, i)
      OBVIOUS
    <2>2. Got(s, X, i, t)
      BY <1>2, <2>1, IgetSound
    <2>3. Seems(s, X, t)
      BY <2>2 DEF Got
    <2>4. /\ Good(t, X) /\ t.d = s.d /\ InUse(t) = InUse(s) /\ Leads(s, t) /\ Up(s, t, i)
          /\ t.ic[i].ref > 0 /\ \A j \in Inodes \ {i} : t.ic[j] = s.ic[j]
      BY <2>2, <2>3 DEF Got, Seems
    <2>5. fs_iput(t, i) = s
      BY <1>2, <2>1, IputIget
    <2>6. Hold(s, i) = t
      BY <1>2, <2>1 DEF Hold
    <2>7. InUse(s) \in SUBSET Inodes
      BY SoundParts DEF Good
    <2>8. t.ic[i].di = Kernel(s).ino[i]
      BY <2>2 DEF Got
    <2> QED
      BY <1>2, <2>1, <2>4, <2>5, <2>6, <2>7, <2>8 DEF Put
  <1> QED
    BY <1>1, <1>2

LEMMA GoodParts ==
    ASSUME NEW s, NEW X, Good(s, X)
    PROVE  /\ Sound(s, X) /\ Tidy(s) /\ s \in State /\ s.d \in Disk /\ TreeOK(s.d) /\ Cached(s)
           /\ 1 \in Dirs(s.d) /\ 1 \in Live(s.d) /\ 1 \in InUse(s) /\ Live(s.d) \subseteq InUse(s)
           /\ Dirs(s.d) \subseteq Live(s.d) /\ InUse(s) \in SUBSET Inodes /\ X \in SUBSET Blocks
           /\ 0 \notin InUse(s)
  <1>1. Sound(s, X) /\ Tidy(s)
    BY DEF Good
  <1>2. /\ s \in State /\ s.d \in Disk /\ TreeOK(s.d) /\ Cached(s) /\ Live(s.d) \subseteq InUse(s)
        /\ InUse(s) \in SUBSET Inodes /\ X \in SUBSET Blocks
    BY <1>1, SoundParts
  <1>3. 1 \in Dirs(s.d) /\ Dirs(s.d) \subseteq Live(s.d)
    BY <1>2, LiveParts DEF TreeOK
  <1> QED
    BY <1>1, <1>2, <1>3, Sizes

\* One step of a walk.
LEMMA StepForm ==
    ASSUME NEW s, NEW X, Good(s, X), NEW r \in Stands(s), NEW name
    PROVE  Step(r, name) \in Stands(s) /\ Step(r, name).i = NextIno(s.d, r.i, name)
  <1>1. r.i \in {0} \cup Live(s.d) /\ r.s = Hold(s, r.i) /\ r = [s |-> Hold(s, r.i), i |-> r.i]
    BY StandsParts
  <1>2. CASE r.i = 0
    <2>1. Step(r, name) = r
      BY <1>2 DEF Step
    <2>2. 0 \notin Dirs(s.d)
      BY GoodParts
    <2> QED
      BY <1>2, <2>1, <2>2 DEF NextIno
  <1>3. CASE r.i # 0
    <2>1. PICK w : w = r.i
      OBVIOUS
    <2>2. w \in Live(s.d) /\ w \in InUse(s) /\ w \in Inodes
      BY <1>1, <1>3, <2>1, GoodParts
    <2>3. PICK t : t = r.s
      OBVIOUS
    <2>4. t = Hold(s, w)
      BY <1>1, <2>1, <2>3
    <2>5. Good(t, X) /\ t.d = s.d /\ InUse(t) = InUse(s) /\ t.ic[w].ref > 0 /\ fs_iput(t, w) = s
          /\ t = fs_iget(s, w)
      BY <1>3, <2>1, <2>2, <2>4, HoldSound
    <2>6. PICK v : v = NextIno(s.d, w, name)
      OBVIOUS
    <2>7. dir_lookup(t, w, name) = [s |-> Hold(t, v), i |-> v]
      BY <2>2, <2>5, <2>6, LookupForm DEF Good
    <2>8. v \in {0} \cup Live(s.d) /\ (v # 0 => v \in InUse(s))
      BY <2>2, <2>5, <2>6, NextLive DEF Good
    <2>9. fs_iput(Hold(t, v), w) = Hold(s, v)
      <3>1. CASE v = 0
        BY <2>5, <3>1 DEF Hold
      <3>2. CASE v # 0
        <4>1. fs_iput(fs_iget(fs_iget(s, w), v), w) = fs_iget(s, v)
          BY <2>2, <2>8, <3>2, IputFirst
        <4> QED
          BY <2>5, <3>2, <4>1 DEF Hold
      <3> QED
        BY <3>1, <3>2
    <2>10. Step(r, name) = [s |-> fs_iput(Hold(t, v), w), i |-> v]
      BY <1>3, <2>1, <2>3, <2>7 DEF Step
    <2>11. Step(r, name) = [s |-> Hold(s, v), i |-> v]
      BY <2>9, <2>10
    <2> QED
      BY <2>1, <2>6, <2>8, <2>11 DEF Stands
  <1> QED
    BY <1>2, <1>3

\* Where a path leads to, 0 for nowhere.
Walks(d, path, w) ==
    \E q : /\ q[0] = 1 /\ q[Len(path)] = w
           /\ \A n \in 1..Len(path) : q[n] = NextIno(d, q[n - 1], path[n])

LEMMA WalksOne ==
    ASSUME NEW d, NEW path, Len(path) \in Nat, NEW v, NEW w, Walks(d, path, v), Walks(d, path, w)
    PROVE  v = w
  <1>1. PICK p : /\ p[0] = 1 /\ p[Len(path)] = v
                 /\ \A n \in 1..Len(path) : p[n] = NextIno(d, p[n - 1], path[n])
    BY DEF Walks
  <1>2. PICK q : /\ q[0] = 1 /\ q[Len(path)] = w
                 /\ \A n \in 1..Len(path) : q[n] = NextIno(d, q[n - 1], path[n])
    BY DEF Walks
  <1>3. PICK N \in Nat : N = Len(path)
    OBVIOUS
  <1> DEFINE V == [k \in 0..N |-> {q[k]}]
  <1>4. p[0] \in V[0]
    BY <1>1, <1>2
  <1>5. \A k \in 1..N : p[k - 1] \in V[k - 1] => p[k] \in V[k]
    <2>1. \A k \in 1..N : k \in 0..N /\ k - 1 \in 0..N
      OBVIOUS
    <2> QED
      BY <1>1, <1>2, <1>3, <2>1
  <1> HIDE DEF V
  <1>6. \A k \in 0..N : p[k] \in V[k]
    BY <1>4, <1>5, Induct
  <1>7. N \in 0..N
    OBVIOUS
  <1> QED
    BY <1>1, <1>2, <1>3, <1>6, <1>7 DEF V

LEMMA WalksFront ==
    ASSUME NEW d, NEW T, NEW path \in Seq(T), path # <<>>, NEW v, NEW p,
           Walks(d, path, v), Walks(d, Front(path), p)
    PROVE  v = NextIno(d, p, Last(path))
  <1>1. PICK q : /\ q[0] = 1 /\ q[Len(path)] = v
                 /\ \A n \in 1..Len(path) : q[n] = NextIno(d, q[n - 1], path[n])
    BY DEF Walks
  <1>2. PICK N \in Nat : N = Len(path)
    OBVIOUS
  <1>3. N >= 1 /\ N \in 1..N
    BY <1>2
  <1>4. /\ Front(path) \in Seq(T) /\ Len(Front(path)) = N - 1
        /\ \A n \in 1..(N - 1) : Front(path)[n] = path[n]
    BY <1>2, <1>3 DEF Front
  <1>5. Last(path) = path[N]
    BY <1>2 DEF Last
  <1>6. Walks(d, Front(path), q[N - 1])
    <2>1. \A n \in 1..(N - 1) : n \in 1..N
      OBVIOUS
    <2> QED
      BY <1>1, <1>2, <1>4, <2>1 DEF Walks
  <1>7. q[N - 1] = p
    <2>1. Len(Front(path)) \in Nat
      BY <1>3, <1>4
    <2> QED
      BY <1>6, <2>1, WalksOne
  <1> QED
    BY <1>1, <1>2, <1>3, <1>5, <1>7

\* fs_namei()
LEMMA NameiForm ==
    ASSUME NEW s, NEW X, Good(s, X), NEW path, Len(path) \in Nat
    PROVE  fs_namei(s, path) \in Stands(s) /\ Walks(s.d, path, fs_namei(s, path).i)
  <1>1. PICK N \in Nat : N = Len(path)
    OBVIOUS
  <1>2. PICK r0 : r0 = [s |-> fs_iget(s, 1), i |-> 1]
    OBVIOUS
  <1> DEFINE U == Stands(s)
             V == [k \in 0..N |-> U]
             F == [k \in 1..N |-> [r \in U |-> Step(r, path[k])]]
             G(f) == [n \in 0..N |-> IF n = 0 THEN r0 ELSE Step(f[n - 1], path[n])]
             g == CHOOSE f : f = G(f)
  <1>3. r0 \in U
    BY <1>2, GoodParts DEF Stands, Hold
  <1>4. \A r \in U : \A name : Step(r, name) \in U /\ Step(r, name).i = NextIno(s.d, r.i, name)
    BY StepForm
  <1> HIDE DEF U
  <1>5. \E f : f = G(f)
    <2>1. \A k \in 1..N : k \in 0..N /\ k - 1 \in 0..N
      OBVIOUS
    <2>2. 0 \in 0..N
      OBVIOUS
    <2>3. r0 \in V[0]
      BY <1>3, <2>2
    <2>4. Remains(N, V, F)
      BY <1>4, <2>1 DEF Remains
    <2>5. PICK f : Iterates(f, N, r0, F) /\ Within(f, N, V)
      <3> HIDE DEF F, V
      <3> QED
        BY <2>3, <2>4, Recursion
    <2>6. \A k \in 0..N : f[k] \in U
      BY <2>5 DEF Within
    <2>7. \A k \in 0..N : k # 0 => F[k][f[k - 1]] = Step(f[k - 1], path[k])
      <3>1. \A k \in 0..N : k # 0 => k \in 1..N
        OBVIOUS
      <3> QED
        BY <2>1, <2>6, <3>1
    <2> HIDE DEF F
    <2>8. f = G(f)
      BY <2>5, <2>7 DEF Iterates
    <2> HIDE DEF G
    <2> QED
      BY <2>8
  <1>6. g = G(g)
    BY <1>5
  <1>7. fs_namei(s, path) = g[N]
    BY <1>1, <1>2 DEF fs_namei
  <1> HIDE DEF g
  <1>8. /\ g[0] = r0
        /\ \A k \in 1..N : g[k] = Step(g[k - 1], path[k])
    <2>1. 0 \in 0..N /\ \A k \in 1..N : k \in 0..N /\ k # 0
      OBVIOUS
    <2> QED
      BY <1>6, <2>1
  <1>9. \A k \in 0..N : g[k] \in V[k]
    <2>1. \A k \in 1..N : k \in 0..N /\ k - 1 \in 0..N
      OBVIOUS
    <2>2. 0 \in 0..N
      OBVIOUS
    <2>3. g[0] \in V[0]
      BY <1>3, <1>8, <2>2
    <2>4. \A k \in 1..N : g[k - 1] \in V[k - 1] => g[k] \in V[k]
      BY <1>4, <1>8, <2>1
    <2> HIDE DEF V
    <2> QED
      BY <2>3, <2>4, Induct
  <1>10. \A k \in 0..N : g[k] \in U
    BY <1>9
  <1>11. g[N] \in U
    BY <1>10
  <1> DEFINE q == [k \in 0..N |-> g[k].i]
  <1>12. q[0] = 1 /\ q[N] = g[N].i
    BY <1>2, <1>8
  <1>13. \A n \in 1..N : q[n] = NextIno(s.d, q[n - 1], path[n])
    <2>1. \A k \in 1..N : k \in 0..N /\ k - 1 \in 0..N
      OBVIOUS
    <2> QED
      BY <1>4, <1>8, <1>10, <2>1
  <1> HIDE DEF q
  <1>14. Walks(s.d, path, g[N].i)
    BY <1>1, <1>12, <1>13 DEF Walks
  <1> QED
    BY <1>7, <1>11, <1>14 DEF U

\* fs_namei_parent() leads to a directory.
LEMMA ParentForm ==
    ASSUME NEW s, NEW X, Good(s, X), NEW path \in Seq(Names), path # <<>>
    PROVE  LET r == fs_namei_parent(s, path)
           IN  /\ r \in Stands(s) /\ (r.i # 0 => r.i \in Dirs(s.d))
               /\ r.i # 0 => Walks(s.d, Front(path), r.i)
  <1>1. PICK q : q = fs_namei(s, Front(path))
    OBVIOUS
  <1>2. Len(Front(path)) \in Nat
    BY DEF Front
  <1>3. q \in Stands(s) /\ Walks(s.d, Front(path), q.i)
    BY <1>1, <1>2, NameiForm
  <1>4. q.i \in {0} \cup Live(s.d) /\ q.s = Hold(s, q.i)
    BY <1>3, StandsParts
  <1>5. PICK r : r = fs_namei_parent(s, path)
    OBVIOUS
  <1>6. r = IF q.i # 0 /\ q.s.ic[q.i].di.type # "DIR" THEN [s |-> fs_iput(q.s, q.i), i |-> 0] ELSE q
    BY <1>1, <1>5 DEF fs_namei_parent
  <1>7. CASE q.i = 0
    BY <1>3, <1>5, <1>6, <1>7
  <1>8. CASE q.i # 0
    <2>1. q.i \in InUse(s)
      BY <1>4, <1>8, GoodParts
    <2>2. /\ Good(q.s, X) /\ q.s.d = s.d /\ q.i \in Inodes /\ q.s.ic[q.i].ref > 0
          /\ fs_iput(q.s, q.i) = s
      <3>1. PICK i : i = q.i
        OBVIOUS
      <3>2. /\ Good(Hold(s, i), X) /\ Hold(s, i).d = s.d /\ i \in Inodes
            /\ Hold(s, i).ic[i].ref > 0 /\ fs_iput(Hold(s, i), i) = s
        BY <1>8, <2>1, <3>1, HoldSound
      <3> QED
        BY <1>4, <3>1, <3>2
    <2>3. q.s.ic[q.i].di.type = "DIR" <=> q.i \in Dirs(s.d)
      BY <2>2, CachedDir DEF Good
    <2>4. CASE q.i \in Dirs(s.d)
      BY <1>3, <1>5, <1>6, <2>3, <2>4
    <2>5. CASE q.i \notin Dirs(s.d)
      <3>1. r = [s |-> s, i |-> 0]
        BY <1>6, <1>8, <2>2, <2>3, <2>5
      <3>2. r = [s |-> Hold(s, 0), i |-> 0]
        BY <3>1 DEF Hold
      <3>3. r \in Stands(s) /\ r.i = 0
        BY <3>2 DEF Stands
      <3> QED
        BY <1>5, <3>3
    <2> QED
      BY <2>4, <2>5
  <1> QED
    BY <1>7, <1>8

-----------------------------------------------------------------------------
(* Names, and the inodes they lead to                                      *)

\* Whatever has a name on disk d has it on disk e.
MoreNames(d, e) == \A i, j \in Inodes : NamesIt(d, i, j) => NamesIt(e, i, j)
\* The root, what it names, what the directories among those name, ...
Follows(d, R) == 1 \in R /\ \A i \in R, j \in Inodes : NamesIt(d, i, j) => j \in R
Reach(d) == {j \in Inodes : \A R \in SUBSET Inodes : Follows(d, R) => j \in R}

LEMMA ReachRoot ==
    ASSUME NEW d
    PROVE  1 \in Reach(d)
  BY Sizes DEF Reach, Follows

LEMMA ReachStep ==
    ASSUME NEW d, NEW i \in Reach(d), NEW j \in Inodes, NamesIt(d, i, j)
    PROVE  j \in Reach(d)
  BY DEF Reach, Follows

LEMMA ReachMore ==
    ASSUME NEW d, NEW e, MoreNames(d, e)
    PROVE  Reach(d) \subseteq Reach(e)
  <1>1. \A R \in SUBSET Inodes : Follows(e, R) => Follows(d, R)
    BY DEF Follows, MoreNames
  <1> QED
    BY <1>1 DEF Reach

LEMMA SameMore ==
    ASSUME NEW d, NEW e, SameEntries(d, e)
    PROVE  MoreNames(d, e)
  BY SameNames DEF MoreNames

\* A cached inode that nothing names any more.
Unlinked(s, j) == s.ic[j].ref > 0 /\ s.ic[j].di.nlink = 0
\* Every inode in use has one link, but for the root, and can be reached, is in E,
\* or is open without a name.
Whole(s, E) ==
    /\ \A j \in Inodes \ {1} : /\ s.d.inode[j].nlink <= 1
                               /\ s.ic[j].ref > 0 => s.ic[j].di.nlink <= 1
    /\ \A j \in Inodes : s.ic[j].ref = 0 /\ s.d.inode[j].type # "FREE" => s.d.inode[j].nlink > 0
    /\ \A j \in Live(s.d) : j \in Reach(s.d) \/ j \in E \/ Unlinked(s, j)
\* A function loses no inode.
Kept(s, t) == \A E : Whole(s, E) => Whole(t, E)

LEMMA KeptOn ==
    ASSUME NEW s, NEW t, NEW u, Kept(s, t), Kept(t, u)
    PROVE  Kept(s, u)
  BY DEF Kept

LEMMA KeptSelf ==
    ASSUME NEW s
    PROVE  Kept(s, s)
  BY DEF Kept

\* What the functions do that neither take nor release inodes.
LEMMA SteadyWhole ==
    ASSUME NEW s, NEW X, Good(s, X), NEW t, Steady(s, t), NEW F, Reach(s.d) \subseteq (Reach(t.d) \cup F),
           NEW E, Whole(s, E)
    PROVE  Whole(t, E \cup F)
  <1>1. \A j \in Inodes :
          /\ t.ic[j].ref = s.ic[j].ref
          /\ s.ic[j].ref > 0 => t.ic[j].di.nlink = s.ic[j].di.nlink
          /\ t.d.inode[j].type = s.d.inode[j].type
          /\ \/ t.d.inode[j].nlink = s.d.inode[j].nlink
             \/ s.ic[j].ref > 0 /\ t.d.inode[j].nlink = s.ic[j].di.nlink
    BY DEF Steady
  <1>2. \A j \in Inodes : s.ic[j].ref > 0 /\ s.ic[j].di.nlink > 0 => s.d.inode[j].nlink > 0
    BY GoodParts DEF Cached
  <1>3. Live(t.d) \subseteq Live(s.d)
    BY <1>1, <1>2 DEF Live
  <1>4. \A j \in Inodes : s.ic[j].ref \in Nat
    BY GoodParts, StateParts
  <1>6. \A j \in Inodes \ {1} : /\ t.d.inode[j].nlink <= 1
                                /\ t.ic[j].ref > 0 => t.ic[j].di.nlink <= 1
    BY <1>1 DEF Whole
  <1>7. \A j \in Inodes : t.ic[j].ref = 0 /\ t.d.inode[j].type # "FREE" => t.d.inode[j].nlink > 0
    BY <1>1, <1>4 DEF Whole
  <1>8. \A j \in Live(t.d) : j \in Reach(t.d) \/ j \in E \cup F \/ Unlinked(t, j)
    <2>1. \A j \in Inodes : Unlinked(s, j) => Unlinked(t, j)
      BY <1>1 DEF Unlinked
    <2> QED
      BY <1>3, <2>1 DEF Whole, Live
  <1> QED
    BY <1>6, <1>7, <1>8 DEF Whole

LEMMA SteadyKept ==
    ASSUME NEW s, NEW X, Good(s, X), NEW t, Steady(s, t), Reach(s.d) \subseteq Reach(t.d)
    PROVE  Kept(s, t)
  <1> SUFFICES ASSUME NEW E, Whole(s, E)
               PROVE  Whole(t, E)
    BY DEF Kept
  <1>1. Reach(s.d) \subseteq (Reach(t.d) \cup {})
    OBVIOUS
  <1>2. Whole(t, E \cup {})
    BY <1>1, SteadyWhole
  <1>3. E \cup {} = E
    OBVIOUS
  <1> QED
    BY <1>2, <1>3

LEMMA KeepsKept ==
    ASSUME NEW s, NEW X, Good(s, X), NEW t, Keeps(s, t)
    PROVE  Kept(s, t)
  <1>1. Reach(s.d) \subseteq Reach(t.d)
    BY SameMore, ReachMore DEF Keeps
  <1> QED
    BY <1>1, SteadyKept DEF Keeps

LEMMA IgetKept ==
    ASSUME NEW s, NEW X, Good(s, X), NEW i \in InUse(s)
    PROVE  Kept(s, fs_iget(s, i))
  <1>1. PICK t : t = fs_iget(s, i)
    OBVIOUS
  <1>2. Got(s, X, i, t)
    BY <1>1, IgetSound
  <1>3. /\ t.d = s.d /\ t.ic[i].ref > 0 /\ t.ic[i].di = Kernel(s).ino[i] /\ i \in Inodes
        /\ \A j \in Inodes \ {i} : t.ic[j] = s.ic[j]
    BY <1>2, GoodParts DEF Got, Seems
  <1>4. t.ic[i].di = IF s.ic[i].ref > 0 THEN s.ic[i].di ELSE s.d.inode[i]
    BY <1>3, KernelIno
  <1>5. SUFFICES ASSUME NEW E, Whole(s, E)
                 PROVE  Whole(t, E)
    BY <1>1 DEF Kept
  <1>6. \A j \in Inodes : Unlinked(s, j) => Unlinked(t, j)
    BY <1>3, <1>4 DEF Unlinked
  <1>7. \A j \in Inodes \ {1} : /\ t.d.inode[j].nlink <= 1
                                /\ t.ic[j].ref > 0 => t.ic[j].di.nlink <= 1
    BY <1>3, <1>4, <1>5 DEF Whole
  <1>8. \A j \in Inodes : t.ic[j].ref = 0 /\ t.d.inode[j].type # "FREE" => t.d.inode[j].nlink > 0
    BY <1>3, <1>5 DEF Whole
  <1> QED
    BY <1>3, <1>5, <1>6, <1>7, <1>8 DEF Whole, Live

LEMMA IputKept ==
    ASSUME NEW s, NEW X, Good(s, X), NEW i \in Inodes, s.ic[i].ref > 0
    PROVE  Kept(s, fs_iput(s, i))
  <1>1. PICK t : t = fs_iput(s, i)
    OBVIOUS
  <1>2. Putted(s, X, i, t)
    BY <1>1, IputSound
  <1>3. /\ \A j \in Inodes \ {i} : t.ic[j] = s.ic[j] /\ t.d.inode[j] = s.d.inode[j]
        /\ Leaves(s, i, t) /\ Reach(s.d) \subseteq Reach(t.d)
    BY <1>2, SameMore, ReachMore DEF Putted
  <1>4. Cached(s) /\ s.ic[i].di.nlink \in 0..2 /\ t.ic[i].ref \in Nat
    BY <1>2, GoodParts, StateParts, InodeParts DEF Putted
  <1>5. SUFFICES ASSUME NEW E, Whole(s, E)
                 PROVE  Whole(t, E)
    BY <1>1 DEF Kept
  <1>6. /\ i # 1 => t.d.inode[i].nlink <= 1 /\ (t.ic[i].ref > 0 => t.ic[i].di.nlink <= 1)
        /\ t.ic[i].ref = 0 /\ t.d.inode[i].type # "FREE" => t.d.inode[i].nlink > 0
        /\ i \in Live(t.d) => i \in Live(s.d)
        /\ i \in Live(t.d) /\ Unlinked(s, i) => Unlinked(t, i)
    <2>1. CASE t.ic[i].ref > 0
      BY <1>3, <1>5, <2>1 DEF Leaves, Whole, Live, Unlinked
    <2>2. CASE t.ic[i].ref = 0 /\ s.ic[i].di.nlink > 0
      <3>1. t.d.inode[i] = s.ic[i].di
        BY <1>3, <2>2 DEF Leaves
      <3> QED
        BY <1>4, <1>5, <2>2, <3>1 DEF Whole, Live, Unlinked, Cached
    <2>3. CASE t.ic[i].ref = 0 /\ s.ic[i].di.nlink = 0
      <3>1. t.d.inode[i] = EmptyInode
        BY <1>3, <2>3 DEF Leaves
      <3> QED
        BY <2>3, <3>1, NoSlotType DEF Live
    <2> QED
      BY <1>4, <2>1, <2>2, <2>3
  <1>7. \A j \in Inodes \ {1} : /\ t.d.inode[j].nlink <= 1
                                /\ t.ic[j].ref > 0 => t.ic[j].di.nlink <= 1
    BY <1>3, <1>5, <1>6 DEF Whole
  <1>8. \A j \in Inodes : t.ic[j].ref = 0 /\ t.d.inode[j].type # "FREE" => t.d.inode[j].nlink > 0
    BY <1>3, <1>5, <1>6 DEF Whole
  <1>9. ASSUME NEW j \in Live(t.d)
        PROVE  j \in Reach(t.d) \/ j \in E \/ Unlinked(t, j)
    <2>1. j \in Inodes
      BY DEF Live
    <2>2. CASE j = i
      BY <1>3, <1>5, <1>6, <2>2 DEF Whole
    <2>3. CASE j # i
      <3>1. j \in Live(s.d) /\ (Unlinked(s, j) => Unlinked(t, j))
        BY <1>3, <2>1, <2>3 DEF Live, Unlinked
      <3> QED
        BY <1>3, <1>5, <3>1 DEF Whole
    <2> QED
      BY <2>2, <2>3
  <1> QED
    BY <1>7, <1>8, <1>9 DEF Whole

\* ialloc() links an inode before it has a name.
LEMMA AllocKept ==
    ASSUME NEW s, NEW X, NEW kind, NEW r, Alloced(s, X, kind, r), r.i # 0, NEW E, Whole(s, E)
    PROVE  Whole(r.s, E \cup {r.i})
  <1>1. /\ r.s.ic = s.ic /\ r.i \in Inodes /\ r.s.d.inode[r.i].nlink = 1
        /\ Live(r.s.d) = Live(s.d) \cup {r.i}
        /\ \A j \in Inodes \ {r.i} : r.s.d.inode[j] = s.d.inode[j]
        /\ Reach(s.d) \subseteq Reach(r.s.d)
    BY SameMore, ReachMore DEF Alloced
  <1>2. \A j \in Inodes : Unlinked(s, j) => Unlinked(r.s, j)
    BY <1>1 DEF Unlinked
  <1>3. \A j \in Inodes \ {1} : /\ r.s.d.inode[j].nlink <= 1
                                /\ r.s.ic[j].ref > 0 => r.s.ic[j].di.nlink <= 1
    BY <1>1 DEF Whole
  <1>4. \A j \in Inodes : r.s.ic[j].ref = 0 /\ r.s.d.inode[j].type # "FREE" => r.s.d.inode[j].nlink > 0
    BY <1>1 DEF Whole
  <1>5. \A j \in Live(r.s.d) : j \in Reach(r.s.d) \/ j \in E \cup {r.i} \/ Unlinked(r.s, j)
    BY <1>1, <1>2 DEF Whole, Live
  <1> QED
    BY <1>3, <1>4, <1>5 DEF Whole

\* What has a name is whole without being excepted.
LEMMA NamedWhole ==
    ASSUME NEW s, NEW E, NEW i, Whole(s, E \cup {i}), i \in Reach(s.d)
    PROVE  Whole(s, E)
  BY DEF Whole
-----------------------------------------------------------------------------
(* Paths lead to what can be reached                                       *)

LEMMA NextNames ==
    ASSUME NEW d, TreeOK(d), NEW w, NEW name \in Names, NEW v, v = NextIno(d, w, name), v # 0
    PROVE  /\ w \in Dirs(d) /\ NamesIt(d, w, v) /\ v \in Live(d) \ {1} /\ v \in Inodes
           /\ \E k \in Spots(d, w) : IsName(CellOf(d, w, k)) /\ CellOf(d, w, k).ino = v
                                     /\ CellOf(d, w, k).name = name
  <1>1. w \in Dirs(d) /\ Hits(d, w, name) # {} /\ v = CellOf(d, w, Min(Hits(d, w, name))).ino
    BY DEF NextIno
  <1>2. Hits(d, w, name) \in SUBSET Nat
    BY DEF Hits, Spots
  <1>3. PICK k : k = Min(Hits(d, w, name)) /\ k \in Hits(d, w, name)
    BY <1>1, <1>2, MinIsLeast
  <1>4. k \in Spots(d, w) /\ CellOf(d, w, k).ino = v /\ CellOf(d, w, k).name = name
    BY <1>1, <1>3 DEF Hits
  <1>5. IsName(CellOf(d, w, k))
    BY <1>4, MiniFsAssumption DEF IsName
  <1>6. v \in Live(d) \ {1}
    BY <1>1, <1>4, <1>5 DEF TreeOK, Proper, IsName
  <1> QED
    BY <1>1, <1>4, <1>5, <1>6 DEF NamesIt, Live

LEMMA WalkReach ==
    ASSUME NEW d, TreeOK(d), NEW path \in Seq(Names), NEW w, Walks(d, path, w), w # 0
    PROVE  w \in Reach(d)
  <1>1. PICK q : /\ q[0] = 1 /\ q[Len(path)] = w
                 /\ \A n \in 1..Len(path) : q[n] = NextIno(d, q[n - 1], path[n])
    BY DEF Walks
  <1>2. PICK N \in Nat : N = Len(path)
    OBVIOUS
  <1>3. PICK V : V = [n \in 0..N |-> {0} \cup Reach(d)]
    OBVIOUS
  <1>4. q[0] \in V[0]
    BY <1>1, <1>3, ReachRoot
  <1>5. ASSUME NEW n \in 1..N, q[n - 1] \in V[n - 1]
        PROVE  q[n] \in V[n]
    <2>1. q[n] = NextIno(d, q[n - 1], path[n]) /\ path[n] \in Names /\ V[n] = {0} \cup Reach(d)
          /\ V[n - 1] = {0} \cup Reach(d)
      BY <1>1, <1>2, <1>3
    <2>2. CASE q[n] = 0
      BY <2>1, <2>2
    <2>3. CASE q[n] # 0
      <3>1. NamesIt(d, q[n - 1], q[n]) /\ q[n - 1] \in Dirs(d) /\ q[n] \in Inodes
        BY <2>1, <2>3, NextNames
      <3>2. q[n - 1] \in Reach(d)
        BY <1>5, <2>1, <3>1, Sizes DEF Dirs, Live
      <3> QED
        BY <2>1, <3>1, <3>2, ReachStep
    <2> QED
      BY <2>2, <2>3
  <1>6. \A n \in 0..N : q[n] \in V[n]
    BY <1>4, <1>5, Induct
  <1> QED
    BY <1>1, <1>2, <1>3, <1>6

-----------------------------------------------------------------------------
(* Entries of directories                                                  *)

LEMMA SteadyTidy ==
    ASSUME NEW s, NEW X, Good(s, X), NEW t, Steady(s, t)
    PROVE  Tidy(t) /\ Up(s, t, 0) /\ \A i \in Inodes : t.ic[i].ref = s.ic[i].ref
  <1>1. \A i \in Inodes : t.ic[i].ref = s.ic[i].ref /\ (s.ic[i].ref = 0 => t.ic[i] = s.ic[i])
    BY DEF Steady
  <1>2. Tidy(t)
    BY <1>1 DEF Tidy, Good
  <1>3. \A i \in Inodes : s.ic[i].ref \in Nat /\ i # 0
    BY GoodParts, StateParts, Sizes
  <1>4. Up(s, t, 0)
    BY <1>1, <1>3 DEF Up, Hit
  <1> QED
    BY <1>1, <1>2, <1>4

\* A name stays unless the entry that has it is replaced.
LEMMA PutKeeps ==
    ASSUME NEW d, NEW e, NEW i, NEW k, NEW c, EntryPut(d, e, i, k, c), NEW a, NEW b,
           NamesIt(d, a, b), a = i /\ k \in Spots(d, i) => CellOf(d, i, k).ino # b
    PROVE  NamesIt(e, a, b)
  <1>1. PICK l : /\ a \in Dirs(d) /\ l \in Spots(d, a) /\ IsName(CellOf(d, a, l))
                 /\ CellOf(d, a, l).ino = b
    BY DEF NamesIt
  <1>2. a \in Dirs(e) /\ l \in Spots(e, a) /\ CellOf(e, a, l) = CellOf(d, a, l)
    BY <1>1 DEF EntryPut
  <1> QED
    BY <1>1, <1>2 DEF NamesIt

LEMMA PutNames ==
    ASSUME NEW d, NEW e, NEW i, NEW k, NEW c, EntryPut(d, e, i, k, c), IsName(c)
    PROVE  NamesIt(e, i, c.ino)
  BY DEF EntryPut, NamesIt

\* dir_link()
Linked(s, X, dp, r) ==
    /\ Good(r.s, X) /\ Steady(s, r.s) /\ InUse(r.s) = InUse(s) /\ r.ok \in BOOLEAN
    /\ dp \in Dirs(s.d) => Live(r.s.d) = Live(s.d) /\ Dirs(r.s.d) = Dirs(s.d)
    /\ dp \notin Dirs(s.d) => dp \notin Dirs(r.s.d)
    /\ MoreNames(s.d, r.s.d)

LEMMA LinkSelf ==
    ASSUME NEW s, NEW X, Good(s, X), NEW dp, NEW r, r.s = s, r.ok \in BOOLEAN
    PROVE  Linked(s, X, dp, r)
  <1>1. Steady(s, s)
    BY KeepsSelf DEF Good, Keeps
  <1>2. MoreNames(s.d, s.d)
    BY DEF MoreNames
  <1> QED
    BY <1>1, <1>2 DEF Linked

\* Where dir_link() puts the entry.
Vacant(s, dp) ==
    LET free == {k \in DOMAIN Cells(s, dp) : Cells(s, dp)[k].ino = 0} IN
    IF free = {} THEN s.ic[dp].di.size ELSE Min(free)

LEMMA ReadableNat ==
    ASSUME NEW s, NEW i, s.ic[i].di.size \in Nat
    PROVE  Readable(s, i) \in Nat
  <1> DEFINE holes == {bn \in 0..((s.ic[i].di.size - 1) \div CPB) : Mapped(s, i, bn) = 0}
  <1>1. holes \in SUBSET Nat
    <2>1. (s.ic[i].di.size - 1) \div CPB \in Int
      BY Sizes
    <2> QED
      BY <2>1
  <1>2. Readable(s, i) = IF holes = {} THEN s.ic[i].di.size
                         ELSE Min({s.ic[i].di.size, Min(holes) * CPB})
    BY DEF Readable
  <1> HIDE DEF holes
  <1>3. CASE holes = {}
    BY <1>2, <1>3
  <1>4. CASE holes # {}
    <2>1. PICK a \in Nat : a = Min(holes)
      BY <1>1, <1>4, MinIsLeast
    <2>2. a * CPB \in Nat
      BY Sizes
    <2>3. PICK S : S = {s.ic[i].di.size, a * CPB}
      OBVIOUS
    <2>4. S \in SUBSET Nat /\ S # {}
      BY <2>2, <2>3
    <2>5. Min(S) \in Nat
      BY <2>4, MinIsLeast
    <2> QED
      BY <1>2, <1>4, <2>1, <2>3, <2>5
  <1> QED
    BY <1>3, <1>4

LEMMA VacantIs ==
    ASSUME NEW s, NEW X, Sound(s, X), NEW dp \in Inodes, s.ic[dp].ref > 0
    PROVE  /\ Vacant(s, dp) \in Nat
           /\ dp \in Dirs(s.d) => Vacant(s, dp) <= s.d.inode[dp].size
           /\ dp \in Dirs(s.d) /\ Vacant(s, dp) \in Spots(s.d, dp) =>
                 CellOf(s.d, dp, Vacant(s, dp)).ino = 0
  <1> DEFINE free == {k \in DOMAIN Cells(s, dp) : Cells(s, dp)[k].ino = 0}
  <1>1. s.ic[dp].di.size = s.d.inode[dp].size /\ s.d.inode[dp].size \in Nat
    BY CachedDir
  <1>2. Readable(s, dp) \in Nat
    BY <1>1, ReadableNat
  <1>3. free \in SUBSET Nat
    BY <1>2 DEF Cells
  <1>4. dp \in Dirs(s.d) => \A k \in free : k < s.d.inode[dp].size /\ CellOf(s.d, dp, k).ino = 0
    <2> SUFFICES ASSUME dp \in Dirs(s.d)
                 PROVE  \A k \in free : k < s.d.inode[dp].size /\ CellOf(s.d, dp, k).ino = 0
      OBVIOUS
    <2>1. /\ DOMAIN Cells(s, dp) = Spots(s.d, dp)
          /\ \A k \in Spots(s.d, dp) : Cells(s, dp)[k] = CellOf(s.d, dp, k)
      BY ReadsDir
    <2> QED
      BY <1>1, <2>1 DEF Spots
  <1>5. Vacant(s, dp) = IF free = {} THEN s.ic[dp].di.size ELSE Min(free)
    BY DEF Vacant
  <1> HIDE DEF free
  <1>6. CASE free = {}
    BY <1>1, <1>5, <1>6 DEF Spots
  <1>7. CASE free # {}
    <2>1. PICK k : k = Min(free)
      OBVIOUS
    <2>2. k \in free /\ k \in Nat
      BY <1>3, <1>7, <2>1, MinIsLeast
    <2>3. Vacant(s, dp) = k
      BY <1>5, <1>7, <2>1
    <2>4. dp \in Dirs(s.d) => k < s.d.inode[dp].size /\ CellOf(s.d, dp, k).ino = 0
      BY <1>4, <2>2
    <2> QED
      BY <1>1, <2>2, <2>3, <2>4
  <1> QED
    BY <1>6, <1>7

LEMMA LinkSound ==
    ASSUME NEW s, NEW X, Good(s, X), NEW dp \in Inodes, s.ic[dp].ref > 0, NEW name, NEW i,
           Entry(name, i) \in Cell, dp \in Dirs(s.d) => Fits(s, dp, Entry(name, i))
    PROVE  /\ Linked(s, X, dp, dir_link(s, dp, name, i))
           /\ dir_link(s, dp, name, i).ok /\ dp \in Dirs(s.d) /\ name \in Names /\ i # 0 =>
                 NamesIt(dir_link(s, dp, name, i).s.d, dp, i)
  <1>1. PICK v : v = NextIno(s.d, dp, name)
    OBVIOUS
  <1>2. dir_lookup(s, dp, name) = [s |-> Hold(s, v), i |-> v]
    BY <1>1, LookupForm DEF Good
  <1>3. v \in {0} \cup InUse(s)
    BY <1>1, NextLive DEF Good
  <1>4. PICK r : r = dir_link(s, dp, name, i)
    OBVIOUS
  <1>5. PICK off : off = Vacant(s, dp)
    OBVIOUS
  <1>6. r = IF v # 0 THEN [s |-> fs_iput(Hold(s, v), v), ok |-> FALSE]
            ELSE fs_write(s, dp, off, <<Entry(name, i)>>)
    BY <1>2, <1>4, <1>5 DEF dir_link, Vacant
  <1>7. CASE v # 0
    <2>1. fs_iput(Hold(s, v), v) = s
      BY <1>3, <1>7, HoldSound
    <2>2. r = [s |-> s, ok |-> FALSE]
      BY <1>6, <1>7, <2>1
    <2>3. r.s = s /\ r.ok \in BOOLEAN /\ ~r.ok
      BY <2>2
    <2> QED
      BY <1>4, <2>3, LinkSelf
  <1>8. CASE v = 0
    <2>1. r = fs_write(s, dp, off, <<Entry(name, i)>>)
      BY <1>6, <1>8
    <2>2. off \in Nat /\ (dp \in Dirs(s.d) => off <= s.d.inode[dp].size)
      BY <1>5, VacantIs DEF Good
    <2>3. CASE dp \in Dirs(s.d)
      <3>1. PICK c : c = Entry(name, i)
        OBVIOUS
      <3>2. Fits(s, dp, c)
        BY <2>3, <3>1
      <3>3. AfterPut(s, X, dp, off, c, fs_write(s, dp, off, <<c>>))
        BY <2>2, <2>3, <3>2, DirWrite DEF Good
      <3>4. /\ Sound(r.s, X) /\ Steady(s, r.s) /\ InUse(r.s) = InUse(s) /\ r.ok \in BOOLEAN
            /\ Live(r.s.d) = Live(s.d) /\ Dirs(r.s.d) = Dirs(s.d)
            /\ r.ok => EntryPut(s.d, r.s.d, dp, off, c)
            /\ ~r.ok => SameEntries(s.d, r.s.d)
        BY <2>1, <3>1, <3>3 DEF AfterPut
      <3>5. Tidy(r.s)
        BY <3>4, SteadyTidy
      <3>6. MoreNames(s.d, r.s.d)
        <4>1. CASE ~r.ok
          BY <3>4, <4>1, SameMore
        <4>2. CASE r.ok
          <5>1. off \in Spots(s.d, dp) => CellOf(s.d, dp, off).ino = 0
            BY <1>5, <2>3, VacantIs DEF Good
          <5>2. \A a, b \in Inodes : NamesIt(s.d, a, b) => NamesIt(r.s.d, a, b)
            BY <3>4, <4>2, <5>1, PutKeeps, Sizes
          <5> QED
            BY <5>2 DEF MoreNames
        <4> QED
          BY <4>1, <4>2
      <3>7. ASSUME r.ok, name \in Names, i # 0
            PROVE  NamesIt(r.s.d, dp, i)
        <4>1. IsName(c) /\ c.ino = i
          BY <3>1, <3>7, MiniFsAssumption DEF IsName, Entry
        <4> QED
          BY <3>4, <3>7, <4>1, PutNames
      <3> QED
        BY <1>4, <2>3, <3>4, <3>5, <3>6, <3>7 DEF Linked, Good
    <2>4. CASE dp \notin Dirs(s.d)
      <3>1. s.ic[dp].di.type # "DIR"
        BY <2>4, CachedDir DEF Good
      <3>2. PICK cells \in Seq(Cell) : cells = <<Entry(name, i)>> /\ cells # <<>>
        <4>1. PICK c \in Cell : c = Entry(name, i)
          OBVIOUS
        <4>2. <<c>> \in Seq(Cell) /\ <<c>> # <<>>
          OBVIOUS
        <4> QED
          BY <4>1, <4>2
      <3>3. fs_write(s, dp, off, cells) \in Wrote(s, X)
        BY <2>2, <3>1, <3>2, WriteSound DEF Good
      <3>4. r.ok \in BOOLEAN /\ Sound(r.s, X) /\ Keeps(s, r.s) /\ InUse(r.s) = InUse(s)
        BY <2>1, <3>2, <3>3 DEF Wrote
      <3>5. Steady(s, r.s)
        BY <3>4 DEF Keeps
      <3>6. Tidy(r.s)
        BY <3>5, SteadyTidy
      <3>7. dp \notin Dirs(r.s.d)
        <4>1. r.s.d.inode[dp].type = s.d.inode[dp].type
          BY <3>5 DEF Steady
        <4>2. s.d.inode[dp].type # "DIR"
          BY <3>1, CachedDir DEF Good
        <4> QED
          BY <4>1, <4>2 DEF Dirs
      <3>8. MoreNames(s.d, r.s.d)
        BY <3>4, SameMore DEF Keeps
      <3> QED
        BY <1>4, <2>4, <3>4, <3>5, <3>6, <3>7, <3>8 DEF Linked, Good
    <2> QED
      BY <2>3, <2>4
  <1> QED
    BY <1>7, <1>8

\* dir_unlink() takes the only name of what it was given the name of.
Unnamed(s, X, w, name, t) ==
    /\ Good(t, X) /\ Steady(s, t) /\ InUse(t) = InUse(s)
    /\ Live(t.d) = Live(s.d) /\ Dirs(t.d) = Dirs(s.d)
    /\ name \in Names /\ NextIno(s.d, w, name) # 0 => ~IsNamed(t.d, NextIno(s.d, w, name))
    /\ \A a, b \in Inodes : NamesIt(s.d, a, b) /\ b # NextIno(s.d, w, name) => NamesIt(t.d, a, b)
LEMMA UnnameSound ==
    ASSUME NEW s, NEW X, Good(s, X), NEW w \in Dirs(s.d), s.ic[w].ref > 0, NEW name
    PROVE  Unnamed(s, X, w, name, dir_unlink(s, w, name))
  <1>1. PICK k : k = Find(s, w, name)
    OBVIOUS
  <1>2. PICK v : v = NextIno(s.d, w, name)
    OBVIOUS
  <1>3. PICK t : t = dir_unlink(s, w, name)
    OBVIOUS
  <1>4. CASE Hits(s.d, w, name) = {}
    <2>1. k = -1 /\ v = 0
      BY <1>1, <1>2, <1>4, FindIs DEF Good
    <2>2. t = s
      BY <1>1, <1>3, <2>1 DEF dir_unlink
    <2>3. Steady(s, s)
      BY KeepsSelf DEF Good, Keeps
    <2> QED
      BY <1>2, <1>3, <2>1, <2>2, <2>3 DEF Unnamed
  <1>5. CASE Hits(s.d, w, name) # {}
    <2>1. /\ k \in Spots(s.d, w) /\ k \in Nat /\ v = CellOf(s.d, w, k).ino /\ v # 0
          /\ CellOf(s.d, w, k).name = name
      BY <1>1, <1>2, <1>5, FindIs DEF Good
    <2>2. t = fs_write(s, w, k, <<ZeroCell>>).s
      BY <1>1, <1>3, <2>1 DEF dir_unlink
    <2>3. Fits(s, w, ZeroCell)
      BY Sizes DEF Fits, Proper, IsName
    <2>4. k <= s.d.inode[w].size
      <3>1. s.d.inode[w].size \in Nat
        BY GoodParts, CachedDir
      <3> QED
        BY <2>1, <3>1 DEF Spots
    <2>5. PICK c : c = ZeroCell
      OBVIOUS
    <2>6. PICK r : r = fs_write(s, w, k, <<c>>)
      OBVIOUS
    <2>7. AfterPut(s, X, w, k, c, r)
      BY <2>1, <2>3, <2>4, <2>5, <2>6, DirWrite DEF Good
    <2>8. /\ Sound(r.s, X) /\ Steady(s, r.s) /\ InUse(r.s) = InUse(s) /\ r.ok
          /\ Live(r.s.d) = Live(s.d) /\ Dirs(r.s.d) = Dirs(s.d)
          /\ EntryPut(s.d, r.s.d, w, k, c)
      BY <2>1, <2>7 DEF AfterPut
    <2>9. t = r.s
      BY <2>2, <2>5, <2>6
    <2>10. name \in Names => ~IsNamed(r.s.d, v)
      <3> SUFFICES ASSUME name \in Names
                   PROVE  ~IsNamed(r.s.d, v)
        OBVIOUS
      <3>1. IsName(CellOf(s.d, w, k))
        BY <2>1, MiniFsAssumption DEF IsName
      <3>2. ~IsName(c)
        BY <2>5, Sizes DEF IsName
      <3>3. s.d \in Disk /\ TreeOK(s.d)
        BY GoodParts
      <3>4. ~IsNamed(r.s.d, CellOf(s.d, w, k).ino)
        BY <2>1, <2>8, <3>1, <3>2, <3>3, PutUnnames
      <3> QED
        BY <2>1, <3>4
    <2>11. Tidy(r.s)
      BY <2>8, SteadyTidy
    <2>12. ASSUME NEW a \in Inodes, NEW b \in Inodes, NamesIt(s.d, a, b), b # v
           PROVE  NamesIt(r.s.d, a, b)
      <3>1. CellOf(s.d, w, k).ino # b
        BY <2>1, <2>12
      <3> QED
        BY <2>8, <2>12, <3>1, PutKeeps
    <2> QED
      BY <1>2, <1>3, <2>8, <2>9, <2>10, <2>11, <2>12 DEF Unnamed, Good
  <1> QED
    BY <1>4, <1>5

LEMMA LessLinked ==
    ASSUME NEW y \in DiskInode, y.nlink > 0, NEW q, q = [y EXCEPT !.nlink = @ - 1]
    PROVE  /\ q \in DiskInode /\ q.nlink < y.nlink /\ q.nlink = y.nlink - 1
           /\ q.type = y.type /\ q.size = y.size /\ q.direct = y.direct /\ q.indirect = y.indirect
  <1>1. y.nlink - 1 \in 0..2
    BY InodeParts
  <1>2. q = [y EXCEPT !.nlink = y.nlink - 1]
    OBVIOUS
  <1>3. q \in DiskInode
    BY <1>1, <1>2 DEF DiskInode
  <1>4. q.nlink = y.nlink - 1 /\ q.type = y.type /\ q.size = y.size /\ q.direct = y.direct
        /\ q.indirect = y.indirect
    BY <1>2 DEF DiskInode
  <1> QED
    BY <1>3, <1>4, <1>1

\* fs_unlink() takes a link from an inode without a name.
LEMMA UnlinkSound ==
    ASSUME NEW s, NEW X, Good(s, X), NEW i \in Inodes, s.ic[i].ref > 0, s.ic[i].di.type # "DIR",
           s.ic[i].di.nlink > 0, ~IsNamed(s.d, i)
    PROVE  LET t == Modify(s, i, [s.ic[i].di EXCEPT !.nlink = @ - 1])
           IN  /\ Good(t, X) /\ Leads(s, t) /\ Up(s, t, 0) /\ t.d = s.d
               /\ \A j \in Inodes : t.ic[j].ref = s.ic[j].ref
               /\ \A E : Whole(s, E \cup {i}) => Whole(t, E)
  <1>1. /\ s \in State /\ s.d \in Disk /\ Live(s.d) \in SUBSET Inodes /\ s.d.free_list = s.fl
        /\ Agree(s) /\ Cached(s) /\ TreeOK(s.d) /\ Tidy(s) /\ Sound(s, X)
        /\ InUse(s) \in SUBSET Inodes /\ Owned(Kernel(s), Have(InUse(s)), X)
    BY SoundParts, LiveParts DEF Good
  <1>2. PICK y \in DiskInode : y = s.ic[i].di
    BY <1>1, StateParts
  <1>3. PICK q : q = [y EXCEPT !.nlink = @ - 1]
    OBVIOUS
  <1>4. /\ q \in DiskInode /\ q.nlink < y.nlink /\ q.nlink = y.nlink - 1
        /\ q.type = y.type /\ q.size = y.size /\ q.direct = y.direct /\ q.indirect = y.indirect
    BY <1>2, <1>3, LessLinked
  <1>5. PICK t : t = Modify(s, i, q)
    OBVIOUS
  <1>6. Remembered(s, t, i, q)
    BY <1>1, <1>4, <1>5, ModifyRemembers
  <1>7. /\ t \in State /\ t.fl = s.fl /\ t.d = s.d /\ t.log = s.log
        /\ t.ic[i] = [di |-> q, ref |-> s.ic[i].ref, dirty |-> TRUE]
        /\ \A j \in Inodes \ {i} : t.ic[j] = s.ic[j]
    BY <1>1, <1>6, StateParts DEF Remembered
  <1>8. t.ic[i].di = q /\ t.ic[i].ref = s.ic[i].ref /\ t.ic[i].dirty = TRUE
    BY <1>7
  <1>9. \A j \in Inodes : t.ic[j].ref = s.ic[j].ref
    BY <1>7, <1>8
  <1>10. InUse(t) = InUse(s)
    BY <1>7, <1>9 DEF InUse
  <1>11. /\ Kernel(t).ino[i] = q /\ Kernel(s).ino[i] = y
         /\ \A j \in Inodes \ {i} : Kernel(t).ino[j] = Kernel(s).ino[j]
    BY <1>2, <1>7, <1>8, KernelIno
  <1>12. \A j \in Inodes : /\ Kernel(t).ino[j].direct = Kernel(s).ino[j].direct
                           /\ Kernel(t).ino[j].indirect = Kernel(s).ino[j].indirect
    BY <1>4, <1>11
  <1>13. Owned(Kernel(t), Have(InUse(s)), X)
    <2>1. PICK m : m = Kernel(s)
      OBVIOUS
    <2>2. PICK u \in Store : u = Kernel(t)
      BY <1>7, StateParts
    <2>3. PICK P : P = Have(InUse(s))
      OBVIOUS
    <2>4. \A p \in P : p[1] \in Inodes
      BY <1>1, <2>3, ClosedHave
    <2>5. u.fl = m.fl /\ u.block = m.block
      BY <1>7, <2>1, <2>2, KernelIno
    <2>6. \A p \in P : /\ u.ino[p[1]].direct = m.ino[p[1]].direct
                       /\ u.ino[p[1]].indirect = m.ino[p[1]].indirect
      BY <1>12, <2>1, <2>2, <2>4
    <2>7. Owned(m, P, X)
      BY <1>1, <2>1, <2>3
    <2>8. Owned(u, P, X)
      BY <2>2, <2>5, <2>6, <2>7, OwnedStays
    <2> QED
      BY <2>2, <2>3, <2>8
  <1>14. Agree(t)
    BY <1>1, <1>7, <1>12 DEF Agree
  <1>15. Cached(t)
    <2> SUFFICES ASSUME NEW j \in Inodes, t.ic[j].ref > 0
                 PROVE  /\ t.ic[j].di.type = s.d.inode[j].type /\ t.ic[j].di.type # "FREE"
                        /\ t.ic[j].di.size = s.d.inode[j].size
                        /\ ~t.ic[j].dirty => t.ic[j].di = s.d.inode[j]
                        /\ t.ic[j].di.nlink > 0 => s.d.inode[j].nlink > 0
                        /\ t.ic[j].di.type = "DIR" \/ IsNamed(s.d, j) => t.ic[j].di.nlink > 0
      BY <1>7 DEF Cached
    <2>1. CASE j # i
      BY <1>1, <1>7, <2>1 DEF Cached
    <2>2. CASE j = i
      BY <1>1, <1>2, <1>4, <1>8, <2>2 DEF Cached
    <2> QED
      BY <2>1, <2>2
  <1>16. Sound(t, X)
    BY <1>1, <1>7, <1>10, <1>13, <1>14, <1>15 DEF Sound
  <1>17. Tidy(t)
    BY <1>1, <1>7, <1>8 DEF Tidy
  <1>18. Leads(s, t)
    BY <1>7, LeadsSame
  <1>19. Up(s, t, 0)
    BY <1>1, <1>9, StateParts, Sizes DEF Up, Hit
  <1>20. ASSUME NEW E, Whole(s, E \cup {i})
         PROVE  Whole(t, E)
    <2>1. i # 1
      <3>1. i \notin Dirs(s.d)
        BY <1>1, CachedDir
      <3> QED
        BY <3>1, GoodParts
    <2>2. y.nlink = 1 /\ q.nlink = 0
      <3>1. y.nlink \in 0..2 /\ y.nlink > 0
        BY <1>2, InodeParts
      <3>2. y.nlink <= 1
        BY <1>2, <1>20, <2>1 DEF Whole
      <3> QED
        BY <1>4, <3>1, <3>2
    <2>3. Unlinked(t, i) /\ \A j \in Inodes : Unlinked(s, j) => Unlinked(t, j)
      BY <1>7, <1>8, <2>2 DEF Unlinked
    <2>4. \A j \in Inodes \ {1} : /\ t.d.inode[j].nlink <= 1
                                  /\ t.ic[j].ref > 0 => t.ic[j].di.nlink <= 1
      BY <1>7, <1>8, <1>20, <2>2 DEF Whole
    <2>5. \A j \in Inodes : t.ic[j].ref = 0 /\ t.d.inode[j].type # "FREE" => t.d.inode[j].nlink > 0
      BY <1>7, <1>9, <1>20 DEF Whole
    <2> QED
      BY <1>7, <1>20, <2>3, <2>4, <2>5 DEF Whole, Live
  <1> QED
    BY <1>2, <1>3, <1>5, <1>7, <1>9, <1>16, <1>17, <1>18, <1>19, <1>20, Zenon DEF Good
-----------------------------------------------------------------------------
(* The operations                                                          *)

\* What a call makes of s: it holds one more reference, to i, if i is not 0.
Done(s, X, t, i) == Good(t, X) /\ Leads(s, t) /\ Up(s, t, i)

LEMMA DoneSelf ==
    ASSUME NEW s, NEW X, Good(s, X)
    PROVE  Done(s, X, s, 0)
  <1>1. \A j \in Inodes : s.ic[j].ref \in Nat /\ j # 0
    BY GoodParts, StateParts, Sizes
  <1> QED
    BY <1>1, LeadsSame DEF Done, Up, Hit

LEMMA DoneOn ==
    ASSUME NEW s, NEW X, NEW t, Done(s, X, t, 0), NEW u, NEW i, Done(t, X, u, i), Good(s, X)
    PROVE  Done(s, X, u, i)
  <1>1. Good(u, X) /\ Leads(s, u)
    BY LeadsOn DEF Done
  <1>2. \A j \in Inodes : s.ic[j].ref \in Nat /\ j # 0
    BY GoodParts, StateParts, Sizes
  <1>3. \A j \in Inodes : t.ic[j].ref = s.ic[j].ref
    BY <1>2 DEF Done, Up, Hit
  <1>4. Up(s, u, i)
    BY <1>3 DEF Done, Up
  <1> QED
    BY <1>1, <1>4 DEF Done

LEMMA RefNat ==
    ASSUME NEW s, NEW X, Good(s, X)
    PROVE  \A j \in Inodes : s.ic[j].ref \in Nat /\ j # 0
  BY GoodParts, StateParts, Sizes

LEMMA PutSound ==
    ASSUME NEW s, NEW X, Good(s, X), NEW i \in {0} \cup Inodes, i # 0 => s.ic[i].ref > 0
    PROVE  Good(Put(s, i), X) /\ Leads(s, Put(s, i)) /\ Down(s, Put(s, i), i) /\ Kept(s, Put(s, i))
  <1>1. CASE i = 0
    <2>1. Put(s, i) = s
      BY <1>1 DEF Put
    <2>2. Down(s, s, i)
      BY <1>1, RefNat DEF Down, Hit
    <2> QED
      BY <2>1, <2>2, LeadsSame, KeptSelf
  <1>2. CASE i # 0
    <2>1. Put(s, i) = fs_iput(s, i)
      BY <1>2 DEF Put
    <2>2. Putted(s, X, i, fs_iput(s, i))
      BY <1>2, IputSound
    <2>3. Kept(s, fs_iput(s, i))
      BY <1>2, IputKept
    <2> QED
      BY <2>1, <2>2, <2>3 DEF Putted
  <1> QED
    BY <1>1, <1>2

\* What a call holds until it returns.
Holds(s, X, t, a, b, c) ==
    /\ Good(s, X) /\ Good(t, X) /\ Leads(s, t)
    /\ \A j \in Inodes : t.ic[j].ref = s.ic[j].ref + Hit(j, a) + Hit(j, b) + Hit(j, c)

LEMMA HoldsPut ==
    ASSUME NEW s, NEW X, NEW t, NEW a, NEW b, NEW c \in {0} \cup Inodes, Holds(s, X, t, a, b, c)
    PROVE  Holds(s, X, Put(t, c), a, b, 0) /\ Kept(t, Put(t, c))
  <1>1. /\ Good(s, X) /\ Good(t, X) /\ Leads(s, t)
        /\ \A j \in Inodes : t.ic[j].ref = s.ic[j].ref + Hit(j, a) + Hit(j, b) + Hit(j, c)
    BY DEF Holds
  <1>2. /\ \A j, k : Hit(j, k) \in {0, 1}
        /\ Hit(c, c) = 1 /\ \A j \in Inodes : Hit(j, 0) = 0
    BY Sizes DEF Hit
  <1>3. c # 0 => t.ic[c].ref > 0
    BY <1>1, <1>2, RefNat
  <1>4. PICK u : u = Put(t, c)
    OBVIOUS
  <1>5. Good(u, X) /\ Leads(t, u) /\ Down(t, u, c) /\ Kept(t, u)
    BY <1>1, <1>3, <1>4, PutSound
  <1>6. Leads(s, u)
    BY <1>1, <1>5, LeadsOn
  <1>7. \A j \in Inodes : u.ic[j].ref = s.ic[j].ref + Hit(j, a) + Hit(j, b) + Hit(j, 0)
    <2> SUFFICES ASSUME NEW j \in Inodes
                 PROVE  u.ic[j].ref = s.ic[j].ref + Hit(j, a) + Hit(j, b) + Hit(j, 0)
      OBVIOUS
    <2>1. u.ic[j].ref = t.ic[j].ref - Hit(j, c)
      BY <1>5 DEF Down
    <2>2. s.ic[j].ref \in Nat
      BY <1>1, RefNat
    <2> QED
      BY <1>1, <1>2, <2>1, <2>2
  <1> QED
    BY <1>1, <1>4, <1>5, <1>6, <1>7 DEF Holds

\* The references may be put back in any order.
LEMMA HoldsSwap ==
    ASSUME NEW s, NEW X, NEW t, NEW a, NEW b, NEW c, Holds(s, X, t, a, b, c)
    PROVE  Holds(s, X, t, b, a, c) /\ Holds(s, X, t, a, c, b)
  <1>1. /\ Good(s, X) /\ Good(t, X) /\ Leads(s, t)
        /\ \A j \in Inodes : t.ic[j].ref = s.ic[j].ref + Hit(j, a) + Hit(j, b) + Hit(j, c)
    BY DEF Holds
  <1>2. \A j, k : Hit(j, k) \in {0, 1}
    BY DEF Hit
  <1>3. \A j \in Inodes : s.ic[j].ref \in Nat
    BY <1>1, RefNat
  <1>4. \A j \in Inodes : t.ic[j].ref = s.ic[j].ref + Hit(j, b) + Hit(j, a) + Hit(j, c)
    BY <1>1, <1>2, <1>3
  <1>5. \A j \in Inodes : t.ic[j].ref = s.ic[j].ref + Hit(j, a) + Hit(j, c) + Hit(j, b)
    BY <1>1, <1>2, <1>3
  <1> QED
    BY <1>1, <1>4, <1>5 DEF Holds

LEMMA HoldsDone ==
    ASSUME NEW s, NEW X, NEW t, NEW a, Holds(s, X, t, a, 0, 0)
    PROVE  Done(s, X, t, a)
  <1>1. /\ Good(s, X) /\ Good(t, X) /\ Leads(s, t)
        /\ \A j \in Inodes : t.ic[j].ref = s.ic[j].ref + Hit(j, a) + Hit(j, 0) + Hit(j, 0)
    BY DEF Holds
  <1>2. \A j \in Inodes : Hit(j, 0) = 0 /\ Hit(j, a) \in {0, 1} /\ s.ic[j].ref \in Nat
    BY <1>1, RefNat, Sizes DEF Hit
  <1> QED
    BY <1>1, <1>2 DEF Done, Up

LEMMA DoneHolds ==
    ASSUME NEW s, NEW X, NEW t, NEW a, Good(s, X), Done(s, X, t, a)
    PROVE  Holds(s, X, t, a, 0, 0)
  <1>1. \A j \in Inodes : Hit(j, 0) = 0 /\ Hit(j, a) \in {0, 1} /\ s.ic[j].ref \in Nat
    BY RefNat, Sizes DEF Hit
  <1>2. Good(t, X) /\ Leads(s, t) /\ Up(s, t, a)
    BY DEF Done
  <1>3. \A j \in Inodes : t.ic[j].ref = s.ic[j].ref + Hit(j, a) + Hit(j, 0) + Hit(j, 0)
    BY <1>1, <1>2 DEF Up
  <1> QED
    BY <1>2, <1>3 DEF Holds

\* A reference more.
LEMMA HoldsUp ==
    ASSUME NEW s, NEW X, NEW t, NEW a, NEW b, Holds(s, X, t, a, b, 0), NEW u, NEW c, Done(t, X, u, c)
    PROVE  Holds(s, X, u, a, b, c)
  <1>1. /\ Good(s, X) /\ Good(t, X) /\ Leads(s, t)
        /\ \A j \in Inodes : t.ic[j].ref = s.ic[j].ref + Hit(j, a) + Hit(j, b) + Hit(j, 0)
    BY DEF Holds
  <1>2. Good(u, X) /\ Leads(t, u) /\ Up(t, u, c)
    BY DEF Done
  <1>3. Leads(s, u)
    BY <1>1, <1>2, LeadsOn
  <1>4. \A j \in Inodes : u.ic[j].ref = s.ic[j].ref + Hit(j, a) + Hit(j, b) + Hit(j, c)
    <2>1. \A j \in Inodes : /\ Hit(j, 0) = 0 /\ Hit(j, a) \in {0, 1} /\ Hit(j, b) \in {0, 1}
                            /\ Hit(j, c) \in {0, 1} /\ s.ic[j].ref \in Nat
      BY <1>1, RefNat, Sizes DEF Hit
    <2> QED
      BY <1>1, <1>2, <2>1 DEF Up
  <1> QED
    BY <1>1, <1>2, <1>3, <1>4 DEF Holds

LEMMA HoldsRef ==
    ASSUME NEW s, NEW X, NEW t, NEW a, NEW b, NEW c, Holds(s, X, t, a, b, c)
    PROVE  /\ a \in Inodes => t.ic[a].ref > 0
           /\ b \in Inodes => t.ic[b].ref > 0
           /\ c \in Inodes => t.ic[c].ref > 0
  <1>1. \A j \in Inodes : t.ic[j].ref = s.ic[j].ref + Hit(j, a) + Hit(j, b) + Hit(j, c)
    BY DEF Holds
  <1>2. \A j, k : Hit(j, k) \in {0, 1}
    BY DEF Hit
  <1>3. \A k : Hit(k, k) = 1
    BY DEF Hit
  <1>4. \A j \in Inodes : s.ic[j].ref \in Nat
    BY RefNat DEF Holds
  <1> QED
    BY <1>1, <1>2, <1>3, <1>4

LEMMA HoldDone ==
    ASSUME NEW s, NEW X, Good(s, X), NEW i \in {0} \cup InUse(s)
    PROVE  Done(s, X, Hold(s, i), i) /\ Hold(s, i).d = s.d /\ InUse(Hold(s, i)) = InUse(s)
           /\ Put(Hold(s, i), i) = s /\ (i # 0 => i \in Inodes) /\ Kept(s, Hold(s, i))
  <1>1. /\ Good(Hold(s, i), X) /\ Hold(s, i).d = s.d /\ InUse(Hold(s, i)) = InUse(s)
        /\ Leads(s, Hold(s, i)) /\ Put(Hold(s, i), i) = s
        /\ i # 0 => i \in Inodes /\ Up(s, Hold(s, i), i)
        /\ i = 0 => Hold(s, i) = s
        /\ i # 0 => Hold(s, i) = fs_iget(s, i)
    BY HoldSound
  <1>2. i = 0 => Up(s, Hold(s, i), i)
    BY <1>1, DoneSelf DEF Done
  <1>3. Kept(s, Hold(s, i))
    BY <1>1, IgetKept, KeptSelf
  <1> QED
    BY <1>1, <1>2, <1>3 DEF Done

LEMMA HoldsStay ==
    ASSUME NEW s, NEW X, NEW t, NEW a, NEW b, NEW c, Holds(s, X, t, a, b, c),
           NEW u, Done(t, X, u, 0)
    PROVE  Holds(s, X, u, a, b, c)
  <1>1. /\ Good(s, X) /\ Good(t, X) /\ Leads(s, t)
        /\ \A j \in Inodes : t.ic[j].ref = s.ic[j].ref + Hit(j, a) + Hit(j, b) + Hit(j, c)
    BY DEF Holds
  <1>2. Good(u, X) /\ Leads(t, u) /\ Up(t, u, 0)
    BY DEF Done
  <1>3. Leads(s, u)
    BY <1>1, <1>2, LeadsOn
  <1>4. \A j \in Inodes : u.ic[j].ref = s.ic[j].ref + Hit(j, a) + Hit(j, b) + Hit(j, c)
    <2>1. \A j \in Inodes : Hit(j, 0) = 0 /\ t.ic[j].ref \in Nat
      BY <1>1, RefNat, Sizes DEF Hit
    <2> QED
      BY <1>1, <1>2, <2>1 DEF Up
  <1> QED
    BY <1>1, <1>2, <1>3, <1>4 DEF Holds

LEMMA SteadyDone ==
    ASSUME NEW s, NEW X, Good(s, X), NEW t, Steady(s, t), Good(t, X)
    PROVE  Done(s, X, t, 0)
  BY SteadyTidy DEF Done, Steady

\* An inode that was free has no name.
LEMMA FreeUnnamed ==
    ASSUME NEW s, NEW X, Sound(s, X), NEW i, i \notin InUse(s)
    PROVE  ~IsNamed(s.d, i)
  <1> SUFFICES ASSUME NEW w \in Inodes, NamesIt(s.d, w, i)
               PROVE  FALSE
    BY DEF IsNamed
  <1>1. PICK k \in Spots(s.d, w) : IsName(CellOf(s.d, w, k)) /\ CellOf(s.d, w, k).ino = i
    BY DEF NamesIt
  <1>2. w \in Dirs(s.d)
    BY DEF NamesIt
  <1>3. Proper(s.d, CellOf(s.d, w, k))
    BY <1>2, DirPlaces
  <1>4. i \in Live(s.d)
    BY <1>1, <1>3 DEF Proper, IsName
  <1> QED
    BY <1>4, SoundParts

\* fs_create()
Created(s, X, r) ==
    Done(s, X, r.s, r.i) /\ r.i \in {0} \cup Inodes /\ (~r.leak => Kept(s, r.s))

\* A new inode gets its name.
LEMMA NewFits ==
    ASSUME NEW s, NEW X, Good(s, X), NEW kind, NEW a, Alloced(s, X, kind, a), a.i # 0,
           NEW t, t = fs_iget(a.s, a.i), NEW p \in Dirs(s.d), NEW name \in Names
    PROVE  /\ Done(s, X, t, a.i) /\ Fits(t, p, Entry(name, a.i)) /\ a.i \in Inodes
           /\ Entry(name, a.i) \in Cell
  <1> DEFINE i == a.i
  <1>1. /\ Good(a.s, X) /\ Leads(s, a.s) /\ SameEntries(s.d, a.s.d) /\ a.s.ic = s.ic
        /\ i \in Inodes /\ i \notin InUse(s) /\ i \in Live(a.s.d)
    BY DEF Alloced
  <1>2. i \in InUse(a.s)
    BY <1>1, GoodParts
  <1>3. Got(a.s, X, i, t)
    BY <1>1, <1>2, IgetSound
  <1>4. /\ Good(t, X) /\ t.d = a.s.d /\ Leads(a.s, t) /\ Up(a.s, t, i)
        /\ t.ic[i].di = Kernel(a.s).ino[i]
    BY <1>3 DEF Got, Seems
  <1>5. Done(s, X, t, i)
    <2>1. Leads(s, t)
      BY <1>1, <1>4, LeadsOn
    <2>2. Up(s, t, i)
      BY <1>1, <1>4 DEF Up
    <2> QED
      BY <1>4, <2>1, <2>2 DEF Done
  <1>6. p \in Dirs(t.d)
    BY <1>1, <1>4 DEF SameEntries
  <1>7. /\ Entry(name, i) \in Cell /\ Entry(name, i).ino = i /\ Entry(name, i).name = name
    <2>1. i \in 0..NINODES /\ name \in Names \cup {".", ".."}
      BY <1>1, Sizes
    <2> HIDE DEF i
    <2> QED
      BY <2>1, Sizes
  <1>8. i # 1
    BY <1>1, GoodParts
  <1>9. ~IsNamed(t.d, i)
    <2>1. ~IsNamed(s.d, i)
      BY <1>1, FreeUnnamed DEF Good
    <2>2. \A w \in Inodes : NamesIt(a.s.d, w, i) <=> NamesIt(s.d, w, i)
      BY <1>1, SameNames
    <2> QED
      BY <1>4, <2>1, <2>2 DEF IsNamed
  <1>10. t.ic[i].di.nlink > 0
    <2>1. ~(a.s.ic[i].ref > 0)
      BY <1>1 DEF InUse
    <2>2. Kernel(a.s).ino[i] = a.s.d.inode[i]
      BY <1>1, <2>1, KernelIno
    <2> QED
      BY <1>1, <1>4, <2>2 DEF Live
  <1>11. i \in Live(t.d)
    BY <1>1, <1>4
  <1>12. Fits(t, p, Entry(name, i))
    BY <1>6, <1>7, <1>8, <1>9, <1>10, <1>11 DEF Fits, Proper
  <1> QED
    BY <1>1, <1>5, <1>7, <1>12

\* With its name, the new inode can be reached.
LEMMA NewKept ==
    ASSUME NEW t, NEW X, Good(t, X), NEW kind, NEW a, Alloced(t, X, kind, a), a.i # 0,
           NEW u, u = fs_iget(a.s, a.i), NEW p \in Dirs(t.d), p \in Inodes, p \in Reach(t.d),
           u.ic[p].ref > 0, NEW name \in Names, NEW link, link = dir_link(u, p, name, a.i), link.ok
    PROVE  Kept(t, link.s)
  <1>1. PICK i : i = a.i
    OBVIOUS
  <1>2. /\ Done(t, X, u, i) /\ Fits(u, p, Entry(name, i)) /\ i \in Inodes
        /\ Entry(name, i) \in Cell
    BY <1>1, NewFits
  <1>3. Good(a.s, X) /\ i \in Live(a.s.d) /\ SameEntries(t.d, a.s.d)
    BY <1>1 DEF Alloced
  <1>4. i \in InUse(a.s)
    BY <1>3, GoodParts
  <1>5. Good(u, X) /\ u.d = a.s.d /\ Kept(a.s, u)
    <2>1. Got(a.s, X, i, u)
      BY <1>1, <1>3, <1>4, IgetSound
    <2>2. Kept(a.s, u)
      BY <1>1, <1>3, <1>4, IgetKept
    <2> QED
      BY <2>1, <2>2 DEF Got, Seems
  <1>6. p \in Dirs(u.d) /\ Reach(t.d) \subseteq Reach(u.d)
    <2>1. Reach(t.d) \subseteq Reach(u.d)
      BY <1>3, <1>5, SameMore, ReachMore
    <2> QED
      BY <1>3, <1>5, <2>1 DEF SameEntries
  <1>7. i # 0
    BY <1>1
  <1>8. Linked(u, X, p, link) /\ NamesIt(link.s.d, p, i)
    <2>1. link = dir_link(u, p, name, i)
      BY <1>1
    <2> QED
      BY <1>2, <1>5, <1>6, <1>7, <2>1, LinkSound
  <1>9. Steady(u, link.s) /\ Reach(u.d) \subseteq Reach(link.s.d)
    BY <1>8, ReachMore DEF Linked
  <1>10. Kept(u, link.s)
    BY <1>5, <1>9, SteadyKept
  <1>11. i \in Reach(link.s.d)
    <2>1. p \in Reach(link.s.d)
      BY <1>6, <1>9
    <2> QED
      BY <1>2, <1>8, <2>1, ReachStep
  <1>12. ASSUME NEW E, Whole(t, E)
         PROVE  Whole(link.s, E)
    <2>1. Whole(a.s, E \cup {i})
      BY <1>1, <1>12, AllocKept
    <2>2. Whole(link.s, E \cup {i})
      BY <1>5, <1>10, <2>1 DEF Kept
    <2> QED
      BY <1>11, <2>2, NamedWhole
  <1> QED
    BY <1>12 DEF Kept

LEMMA FrontSeq ==
    ASSUME NEW T, NEW path \in Seq(T), path # <<>>
    PROVE  /\ Front(path) \in Seq(T) /\ Len(path) \in Nat \ {0} /\ Len(Front(path)) = Len(path) - 1
           /\ \A n \in 1..(Len(path) - 1) : Front(path)[n] = path[n]
           /\ Last(path) = path[Len(path)]
  <1>1. PICK N \in Nat : N = Len(path)
    OBVIOUS
  <1>2. N >= 1
    BY <1>1
  <1> QED
    BY <1>1, <1>2 DEF Front, Last

LEMMA CreateSound ==
    ASSUME NEW s, NEW X, Good(s, X), NEW path \in Seq(Names), path # <<>>,
           NEW kind \in {"FILE", "DIR", "DEV"}
    PROVE  Created(s, X, fs_create(s, path, kind))
  <1>1. PICK q : q = fs_namei_parent(s, path)
    OBVIOUS
  <1>2. q \in Stands(s) /\ (q.i # 0 => q.i \in Dirs(s.d) /\ Walks(s.d, Front(path), q.i))
    BY <1>1, ParentForm
  <1>3. q.s = Hold(s, q.i)
    BY <1>2, StandsParts
  <1>4. PICK r : r = fs_create(s, path, kind)
    OBVIOUS
  <1>5. CASE q.i = 0
    <2>1. r = [s |-> q.s, i |-> 0, leak |-> FALSE]
      BY <1>1, <1>4, <1>5 DEF fs_create
    <2>2. r.s = s /\ r.i = 0
      BY <1>3, <1>5, <2>1 DEF Hold
    <2> QED
      BY <1>4, <2>2, DoneSelf, KeptSelf DEF Created
  <1>6. CASE q.i # 0
    <2>1. PICK p : p = q.i
      OBVIOUS
    <2>2. p \in Dirs(s.d) /\ p \in InUse(s) /\ p \in Inodes /\ p # 0
      BY <1>2, <1>6, <2>1, GoodParts
    <2>3. PICK t : t = q.s
      OBVIOUS
    <2>4. t = fs_iget(s, p) /\ t = Hold(s, p)
      BY <1>3, <2>1, <2>2, <2>3 DEF Hold
    <2>5. /\ Done(s, X, t, p) /\ t.d = s.d /\ InUse(t) = InUse(s) /\ fs_iput(t, p) = s
          /\ Kept(s, t)
      BY <2>2, <2>4, HoldDone, IputIget, Zenon
    <2>6. Good(t, X) /\ Holds(s, X, t, p, 0, 0)
      BY <2>5, DoneHolds DEF Done
    <2>7. t.ic[p].ref > 0
      BY <2>2, <2>6, HoldsRef
    <2>8. PICK name \in Names : name = Last(path)
      <3>1. Len(path) \in 1..Len(path)
        OBVIOUS
      <3> QED
        BY <3>1 DEF Last
    <2>9. PICK v : v = NextIno(t.d, p, name)
      OBVIOUS
    <2>10. dir_lookup(t, p, name) = [s |-> Hold(t, v), i |-> v]
      BY <2>2, <2>6, <2>7, <2>9, LookupForm DEF Good
    <2>11. v \in {0} \cup InUse(t) /\ (v # 0 => v \in Inodes)
      BY <2>2, <2>6, <2>7, <2>9, NextLive DEF Good
    <2>12. CASE v # 0
      <3>1. r = [s |-> fs_iput(Hold(t, v), p), i |-> v, leak |-> FALSE]
        BY <1>1, <1>4, <1>6, <2>1, <2>3, <2>8, <2>10, <2>12 DEF fs_create
      <3>2. fs_iput(fs_iget(fs_iget(s, p), v), p) = fs_iget(s, v)
        BY <2>2, <2>5, <2>11, <2>12, IputFirst
      <3>3. r.s = Hold(s, v) /\ r.i = v
        BY <2>4, <2>12, <3>1, <3>2 DEF Hold
      <3>4. Done(s, X, Hold(s, v), v) /\ Kept(s, Hold(s, v))
        BY <2>5, <2>11, HoldDone
      <3> QED
        BY <1>4, <2>11, <3>3, <3>4 DEF Created
    <2>13. CASE v = 0
      <3>1. Hold(t, v) = t
        BY <2>13 DEF Hold
      <3>2. PICK a : a = ialloc(t, kind)
        OBVIOUS
      <3>6. r = IF a.i = 0 THEN [s |-> fs_iput(a.s, p), i |-> 0, leak |-> FALSE]
                ELSE LET link == dir_link(fs_iget(a.s, a.i), p, name, a.i)
                     IN  IF link.ok THEN [s |-> fs_iput(link.s, p), i |-> a.i, leak |-> FALSE]
                         ELSE [s |-> fs_iput(fs_iput(link.s, a.i), p), i |-> 0, leak |-> TRUE]
        <4>1. PICK look : look = dir_lookup(t, p, name)
          OBVIOUS
        <4>2. look.s = t /\ look.i = 0
          BY <2>10, <2>13, <3>1, <4>1
        <4>3. p # 0
          BY <2>2
        <4> QED
          BY <1>1, <1>4, <2>1, <2>3, <2>8, <3>2, <4>1, <4>2, <4>3 DEF fs_create
      <3>3. Alloced(t, X, kind, a)
        BY <2>6, <3>2, IallocSound
      <3>4. CASE a.i = 0
        <4>1. a.s = t
          BY <3>3, <3>4 DEF Alloced
        <4>2. r = [s |-> fs_iput(a.s, p), i |-> 0, leak |-> FALSE]
          BY <3>4, <3>6
        <4>3. r.s = s /\ r.i = 0
          BY <2>5, <4>1, <4>2
        <4> QED
          BY <1>4, <4>3, DoneSelf, KeptSelf DEF Created
      <3>5. CASE a.i # 0
        <4>1. PICK i : i = a.i
          OBVIOUS
        <4>2. PICK u : u = fs_iget(a.s, i)
          OBVIOUS
        <4>3. p \in Dirs(t.d)
          BY <2>2, <2>5
        <4>4. /\ Done(t, X, u, i) /\ Fits(u, p, Entry(name, i)) /\ i \in Inodes
              /\ Entry(name, i) \in Cell
          BY <2>6, <3>3, <3>5, <4>1, <4>2, <4>3, NewFits
        <4>5. Holds(s, X, u, p, 0, i)
          BY <2>6, <4>4, HoldsUp
        <4>6. Good(u, X) /\ u.ic[p].ref > 0
          <5>1. u.ic[p].ref > 0
            BY <2>2, <4>5, HoldsRef
          <5> QED
            BY <4>5, <5>1 DEF Holds
        <4>7. PICK link : link = dir_link(u, p, name, i)
          OBVIOUS
        <4>8. Linked(u, X, p, link)
          BY <2>2, <4>4, <4>6, <4>7, LinkSound
        <4>9. Done(u, X, link.s, 0)
          BY <4>6, <4>8, SteadyDone DEF Linked
        <4>10. Holds(s, X, link.s, p, 0, i)
          BY <4>5, <4>9, HoldsStay
        <4>11. CASE link.ok
          <5>1. r = [s |-> fs_iput(link.s, p), i |-> i, leak |-> FALSE]
            BY <3>5, <3>6, <4>1, <4>2, <4>7, <4>11
          <5>2. Holds(s, X, link.s, i, 0, p)
            BY <4>10, HoldsSwap
          <5>3. Holds(s, X, Put(link.s, p), i, 0, 0) /\ Kept(link.s, Put(link.s, p))
            BY <2>2, <5>2, HoldsPut
          <5>4. Done(s, X, Put(link.s, p), i)
            BY <5>3, HoldsDone
          <5>5. r.s = Put(link.s, p) /\ r.i = i
            BY <2>2, <5>1 DEF Put
          <5>6. p \in Reach(t.d)
            <6>1. TreeOK(s.d) /\ Front(path) \in Seq(Names) /\ Walks(s.d, Front(path), p)
              BY <1>2, <1>6, <2>1, GoodParts, FrontSeq
            <6> QED
              BY <2>2, <2>5, <6>1, WalkReach
          <5>7. Kept(t, link.s)
            BY <2>2, <2>5, <2>6, <3>3, <3>5, <4>1, <4>2, <4>3, <4>6, <4>7, <4>11, <5>6, NewKept
          <5>8. Kept(s, Put(link.s, p))
            <6>1. Kept(s, link.s)
              BY <2>5, <5>7, KeptOn
            <6> QED
              BY <5>3, <6>1, KeptOn
          <5> QED
            BY <1>4, <4>4, <5>4, <5>5, <5>8 DEF Created
        <4>12. CASE ~link.ok
          <5>1. r = [s |-> fs_iput(fs_iput(link.s, i), p), i |-> 0, leak |-> TRUE]
            BY <3>5, <3>6, <4>1, <4>2, <4>7, <4>12
          <5>2. PICK m : m = Put(link.s, i)
            OBVIOUS
          <5>3. Holds(s, X, m, p, 0, 0)
            BY <4>4, <4>10, <5>2, HoldsPut
          <5>4. Holds(s, X, m, 0, 0, p)
            BY <5>3, HoldsSwap
          <5>5. Holds(s, X, Put(m, p), 0, 0, 0)
            BY <2>2, <5>4, HoldsPut
          <5>6. Done(s, X, Put(m, p), 0)
            BY <5>5, HoldsDone
          <5>7. i # 0
            BY <3>5, <4>1
          <5>8. r.s = Put(m, p) /\ r.i = 0 /\ r.leak
            BY <2>2, <5>1, <5>2, <5>7 DEF Put
          <5> QED
            BY <1>4, <5>6, <5>8 DEF Created
        <4> QED
          BY <4>11, <4>12
      <3> QED
        BY <3>4, <3>5
    <2> QED
      BY <2>12, <2>13
  <1> QED
    BY <1>5, <1>6

\* What a name leads to has that name.
LEMMA NextNamed ==
    ASSUME NEW s, NEW X, Sound(s, X), NEW w \in Inodes, s.ic[w].ref > 0, NEW name \in Names,
           NextIno(s.d, w, name) # 0
    PROVE  IsNamed(s.d, NextIno(s.d, w, name)) /\ w \in Dirs(s.d)
  <1>1. w \in Dirs(s.d) /\ Hits(s.d, w, name) # {}
    BY DEF NextIno
  <1>2. PICK k : k = Find(s, w, name)
    OBVIOUS
  <1>3. /\ k \in Spots(s.d, w) /\ NextIno(s.d, w, name) = CellOf(s.d, w, k).ino
        /\ CellOf(s.d, w, k).name = name
    BY <1>1, <1>2, FindIs
  <1>4. IsName(CellOf(s.d, w, k))
    BY <1>3, MiniFsAssumption DEF IsName
  <1> QED
    BY <1>1, <1>3, <1>4 DEF IsNamed, NamesIt

LEMMA LastName ==
    ASSUME NEW path \in Seq(Names), path # <<>>
    PROVE  Last(path) \in Names
  <1>1. Len(path) \in 1..Len(path)
    OBVIOUS
  <1> QED
    BY <1>1 DEF Last

\* A directory is looked up in its parent: t holds the parent p.
LEMMA InParent ==
    ASSUME NEW s, NEW X, Good(s, X), NEW path \in Seq(Names), path # <<>>,
           NEW q, q = fs_namei_parent(s, path), q.i # 0
    PROVE  /\ q.i \in Dirs(s.d) /\ q.i \in InUse(s) /\ q.i \in Inodes
           /\ q.s = Hold(s, q.i) /\ q.s = fs_iget(s, q.i)
           /\ q.s.d = s.d /\ InUse(q.s) = InUse(s) /\ fs_iput(q.s, q.i) = s
           /\ Good(q.s, X) /\ Holds(s, X, q.s, q.i, 0, 0) /\ q.s.ic[q.i].ref > 0
           /\ Walks(s.d, Front(path), q.i) /\ Kept(s, q.s)
  <1>1. q \in Stands(s) /\ q.i \in Dirs(s.d) /\ Walks(s.d, Front(path), q.i)
    BY ParentForm
  <1>2. q.s = Hold(s, q.i)
    BY <1>1, StandsParts
  <1>3. PICK p : p = q.i
    OBVIOUS
  <1>4. p \in Dirs(s.d) /\ p \in InUse(s) /\ p \in Inodes /\ p # 0
    BY <1>1, <1>3, GoodParts
  <1>5. PICK t : t = Hold(s, p)
    OBVIOUS
  <1>6. t = fs_iget(s, p)
    BY <1>4, <1>5 DEF Hold
  <1>7. Done(s, X, t, p) /\ t.d = s.d /\ InUse(t) = InUse(s) /\ Kept(s, t)
    BY <1>4, <1>5, HoldDone
  <1>8. fs_iput(t, p) = s
    BY <1>4, <1>6, IputIget
  <1>9. Holds(s, X, t, p, 0, 0)
    BY <1>7, DoneHolds
  <1>10. t.ic[p].ref > 0
    BY <1>4, <1>9, HoldsRef
  <1>11. Good(t, X)
    BY <1>7 DEF Done
  <1> QED
    BY <1>1, <1>2, <1>3, <1>4, <1>5, <1>6, <1>7, <1>8, <1>9, <1>10, <1>11

\* Without its names, what is no directory takes only itself away.
LEMMA ReachLess ==
    ASSUME NEW d, NEW e, NEW v, v \notin Dirs(d),
           \A a, b \in Inodes : NamesIt(d, a, b) /\ b # v => NamesIt(e, a, b)
    PROVE  Reach(d) \subseteq (Reach(e) \cup {v})
  <1>1. ASSUME NEW j \in Reach(d), j # v, NEW R \in SUBSET Inodes, Follows(e, R)
        PROVE  j \in R
    <2>1. PICK Q : Q = {k \in Inodes : k \in R \/ k = v}
      OBVIOUS
    <2>2. Follows(d, Q)
      <3>1. 1 \in Q
        BY <1>1, <2>1, Sizes DEF Follows
      <3>2. ASSUME NEW a \in Q, NEW b \in Inodes, NamesIt(d, a, b)
            PROVE  b \in Q
        <4>1. a \in Dirs(d) /\ a \in Inodes
          BY <2>1, <3>2 DEF NamesIt
        <4>2. a \in R
          BY <2>1, <4>1
        <4>3. b # v => NamesIt(e, a, b)
          BY <3>2, <4>1
        <4> QED
          BY <1>1, <2>1, <4>2, <4>3 DEF Follows
      <3> QED
        BY <3>1, <3>2 DEF Follows
    <2>3. j \in Q
      BY <2>1, <2>2 DEF Reach
    <2> QED
      BY <1>1, <2>1, <2>3
  <1>2. Reach(d) \subseteq Inodes
    BY DEF Reach
  <1> QED
    BY <1>1, <1>2 DEF Reach

\* fs_unlink() takes off the name and the link of what is not a directory.
LEMMA DropSoundly ==
    ASSUME NEW s, NEW X, NEW t, NEW p, NEW v \in Inodes, Holds(s, X, t, p, v, 0), NEW name \in Names,
           p \in Dirs(t.d), v = NextIno(t.d, p, name), t.ic[v].di.type # "DIR",
           NEW u, u = dir_unlink(t, p, name),
           NEW x, x = Modify(u, v, [u.ic[v].di EXCEPT !.nlink = @ - 1])
    PROVE  Holds(s, X, x, p, v, 0) /\ Kept(t, x)
  <1>1. Good(t, X) /\ Sound(t, X)
    BY DEF Holds, Good
  <1>2. p \in Inodes
    BY <1>1, GoodParts
  <1>3. t.ic[p].ref > 0 /\ t.ic[v].ref > 0
    BY <1>2, HoldsRef
  <1>4. Unnamed(t, X, p, name, u)
    BY <1>1, <1>3, UnnameSound
  <1>5. v # 0
    BY Sizes
  <1>6. /\ Good(u, X) /\ Steady(t, u) /\ ~IsNamed(u.d, v)
    BY <1>4, <1>5 DEF Unnamed
  <1>7. IsNamed(t.d, v)
    BY <1>1, <1>2, <1>3, <1>5, NextNamed
  <1>8. t.ic[v].di.nlink > 0
    BY <1>1, <1>3, <1>7, SoundParts DEF Cached
  <1>9. u.ic[v].ref > 0 /\ u.ic[v].di.type # "DIR" /\ u.ic[v].di.nlink > 0
    BY <1>3, <1>6, <1>8 DEF Steady
  <1>10. /\ Good(x, X) /\ Leads(u, x) /\ Up(u, x, 0)
         /\ \A E : Whole(u, E \cup {v}) => Whole(x, E)
    BY <1>6, <1>9, UnlinkSound
  <1>11. Done(t, X, u, 0)
    BY <1>1, <1>6, SteadyDone
  <1>12. Done(u, X, x, 0)
    BY <1>10 DEF Done
  <1>13. Reach(t.d) \subseteq (Reach(u.d) \cup {v})
    BY <1>1, <1>3, <1>4, <1>5, CachedDir, ReachLess DEF Unnamed
  <1>14. Kept(t, x)
    <2>1. ASSUME NEW E, Whole(t, E)
          PROVE  Whole(u, E \cup {v})
      BY <1>1, <1>6, <1>13, <2>1, SteadyWhole
    <2> QED
      BY <1>10, <2>1 DEF Kept
  <1>15. Holds(s, X, x, p, v, 0)
    BY <1>11, <1>12, HoldsStay
  <1> QED
    BY <1>14, <1>15

LEMMA UnlinkCall ==
    ASSUME NEW s, NEW X, Good(s, X), NEW path \in Seq(Names), path # <<>>
    PROVE  Done(s, X, fs_unlink(s, path).s, 0) /\ Kept(s, fs_unlink(s, path).s)
  <1>1. PICK q : q = fs_namei_parent(s, path)
    OBVIOUS
  <1>2. PICK r : r = fs_unlink(s, path)
    OBVIOUS
  <1>3. CASE q.i = 0
    <2>1. q.s = s
      BY <1>1, <1>3, ParentForm, StandsParts DEF Hold
    <2>2. r = [s |-> q.s, ok |-> FALSE]
      BY <1>1, <1>2, <1>3 DEF fs_unlink
    <2> QED
      BY <1>2, <2>1, <2>2, DoneSelf, KeptSelf
  <1>4. CASE q.i # 0
    <2>1. PICK p : p = q.i
      OBVIOUS
    <2>2. PICK t : t = q.s
      OBVIOUS
    <2>3. /\ p \in Dirs(s.d) /\ p \in InUse(s) /\ p \in Inodes /\ p # 0
          /\ t = fs_iget(s, p) /\ t.d = s.d /\ InUse(t) = InUse(s) /\ fs_iput(t, p) = s
          /\ Good(t, X) /\ Holds(s, X, t, p, 0, 0) /\ t.ic[p].ref > 0 /\ Kept(s, t)
      BY <1>1, <1>4, <2>1, <2>2, InParent
    <2>4. PICK name \in Names : name = Last(path)
      BY LastName
    <2>5. PICK v : v = NextIno(t.d, p, name)
      OBVIOUS
    <2>6. dir_lookup(t, p, name) = [s |-> Hold(t, v), i |-> v]
      BY <2>3, <2>5, LookupForm DEF Good
    <2>7. v \in {0} \cup InUse(t) /\ (v # 0 => v \in Inodes)
      BY <2>3, <2>5, NextLive DEF Good
    <2>8. PICK look : look = dir_lookup(t, p, name)
      OBVIOUS
    <2>9. look.s = Hold(t, v) /\ look.i = v
      BY <2>6, <2>8
    <2>10. PICK z : z = look.s
      OBVIOUS
    <2>11. PICK u : u = dir_unlink(z, p, name)
      OBVIOUS
    <2>12. PICK x : x = Modify(u, v, [u.ic[v].di EXCEPT !.nlink = @ - 1])
      OBVIOUS
    <2>13. r.s = IF v = 0 THEN fs_iput(z, p)
                 ELSE IF z.ic[v].di.type = "DIR" THEN fs_iput(fs_iput(z, v), p)
                 ELSE fs_iput(fs_iput(x, v), p)
      <3>1. r = IF v = 0 THEN [s |-> fs_iput(z, p), ok |-> FALSE]
                 ELSE IF z.ic[v].di.type = "DIR" THEN [s |-> fs_iput(fs_iput(z, v), p), ok |-> FALSE]
                 ELSE [s |-> fs_iput(fs_iput(x, v), p), ok |-> TRUE]
        BY <1>1, <1>2, <1>4, <2>1, <2>2, <2>4, <2>8, <2>9, <2>10, <2>11, <2>12 DEF fs_unlink
      <3> QED
        BY <3>1
    <2>14. CASE v = 0
      <3>1. z = t
        BY <2>9, <2>10, <2>14 DEF Hold
      <3> QED
        BY <1>2, <2>3, <2>13, <2>14, <3>1, DoneSelf, KeptSelf
    <2>15. CASE v # 0
      <3>1. z = fs_iget(t, v)
        BY <2>9, <2>10, <2>15 DEF Hold
      <3>2. fs_iput(z, v) = t
        BY <2>3, <2>7, <2>15, <3>1, IputIget
      <3>3. CASE z.ic[v].di.type = "DIR"
        BY <1>2, <2>3, <2>13, <2>15, <3>2, <3>3, DoneSelf, KeptSelf
      <3>4. CASE z.ic[v].di.type # "DIR"
        <4>1. Done(t, X, z, v) /\ z.d = t.d /\ Kept(t, z)
          BY <2>3, <2>7, <2>9, <2>10, HoldDone
        <4>2. Holds(s, X, z, p, 0, v)
          BY <2>3, <4>1, HoldsUp
        <4>3. Holds(s, X, z, p, v, 0)
          BY <4>2, HoldsSwap
        <4>4. p \in Dirs(z.d) /\ v = NextIno(z.d, p, name) /\ v \in Inodes
          BY <2>3, <2>5, <2>7, <2>15, <4>1
        <4>5. Holds(s, X, x, p, v, 0) /\ Kept(z, x)
          BY <2>11, <2>12, <3>4, <4>3, <4>4, DropSoundly
        <4>6. Holds(s, X, x, p, 0, v)
          BY <4>5, HoldsSwap
        <4>7. PICK y : y = Put(x, v)
          OBVIOUS
        <4>8. Holds(s, X, y, p, 0, 0) /\ Kept(x, y)
          BY <2>7, <2>15, <4>6, <4>7, HoldsPut
        <4>9. Holds(s, X, y, 0, 0, p)
          BY <4>8, HoldsSwap
        <4>10. Holds(s, X, Put(y, p), 0, 0, 0) /\ Kept(y, Put(y, p))
          BY <2>3, <4>9, HoldsPut
        <4>11. Done(s, X, Put(y, p), 0)
          BY <4>10, HoldsDone
        <4>12. r.s = Put(y, p)
          BY <2>3, <2>13, <2>15, <3>4, <4>7 DEF Put
        <4>13. Kept(s, Put(y, p))
          <5>1. Kept(s, z)
            BY <2>3, <4>1, KeptOn
          <5>2. Kept(s, x)
            BY <4>5, <5>1, KeptOn
          <5>3. Kept(s, y)
            BY <4>8, <5>2, KeptOn
          <5> QED
            BY <4>10, <5>3, KeptOn
        <4> QED
          BY <1>2, <4>11, <4>12, <4>13
      <3> QED
        BY <3>3, <3>4
    <2> QED
      BY <2>14, <2>15
  <1> QED
    BY <1>3, <1>4

\* fs_namei()
LEMMA NameiHolds ==
    ASSUME NEW s, NEW X, Good(s, X), NEW path \in Seq(Names),
           NEW q, q = fs_namei(s, path)
    PROVE  /\ q.i \in {0} \cup Live(s.d) /\ q.i \in {0} \cup Inodes /\ q.s = Hold(s, q.i)
           /\ Done(s, X, q.s, q.i) /\ q.s.d = s.d /\ Put(q.s, q.i) = s
           /\ q.i # 0 => fs_iput(q.s, q.i) = s
           /\ q.i = 0 => q.s = s
           /\ Walks(s.d, path, q.i) /\ Kept(s, q.s)
  <1>1. Len(path) \in Nat
    OBVIOUS
  <1>2. q \in Stands(s) /\ Walks(s.d, path, q.i)
    BY <1>1, NameiForm
  <1>3. q.i \in {0} \cup Live(s.d) /\ q.s = Hold(s, q.i)
    BY <1>2, StandsParts
  <1>4. PICK i : i = q.i
    OBVIOUS
  <1>5. i \in {0} \cup InUse(s) /\ i \in {0} \cup Inodes
    BY <1>3, <1>4, GoodParts
  <1>6. /\ Done(s, X, Hold(s, i), i) /\ Hold(s, i).d = s.d /\ Put(Hold(s, i), i) = s
        /\ Kept(s, Hold(s, i))
    BY <1>5, HoldDone
  <1> QED
    BY <1>2, <1>3, <1>4, <1>5, <1>6 DEF Put, Hold

\* fs_rmdir()
LEMMA RmdirCall ==
    ASSUME NEW s, NEW X, Good(s, X), NEW path \in Seq(Names), path # <<>>
    PROVE  Done(s, X, fs_rmdir(s, path).s, 0) /\ Kept(s, fs_rmdir(s, path).s)
  <1>1. PICK q : q = fs_namei(s, path)
    OBVIOUS
  <1>2. (q.i # 0 => fs_iput(q.s, q.i) = s) /\ (q.i = 0 => q.s = s)
    BY <1>1, NameiHolds
  <1>3. PICK z : z = fs_unlink(s, path)
    OBVIOUS
  <1>4. Done(s, X, z.s, 0) /\ Done(s, X, s, 0) /\ Kept(s, z.s) /\ Kept(s, s)
    BY <1>3, UnlinkCall, DoneSelf, KeptSelf
  <1>5. PICK r : r = fs_rmdir(s, path)
    OBVIOUS
  <1>6. r.s = s \/ r.s = z.s
    <2>1. CASE q.i = 0
      <3>1. r = [s |-> q.s, refused |-> FALSE]
        BY <1>1, <1>5, <2>1 DEF fs_rmdir
      <3> QED
        BY <1>2, <2>1, <3>1
    <2>2. CASE q.i # 0
      <3>1. r = [s |-> z.s, refused |-> ~z.ok] \/ r = [s |-> s, refused |-> FALSE]
        BY <1>1, <1>2, <1>3, <1>5, <2>2 DEF fs_rmdir
      <3> QED
        BY <3>1
    <2> QED
      BY <2>1, <2>2
  <1> QED
    BY <1>4, <1>5, <1>6

\* The entries . and .. fit into any directory.
LEMMA DotFits ==
    ASSUME NEW s, NEW X, Good(s, X), NEW i \in Dirs(s.d), NEW j \in Dirs(s.d),
           NEW name \in {".", ".."}
    PROVE  Fits(s, i, Entry(name, j))
  <1>1. j \in 0..NINODES /\ name \in Names \cup {".", ".."}
    BY GoodParts, Sizes
  <1>2. Entry(name, j) \in Cell /\ Entry(name, j).ino = j /\ Entry(name, j).name = name
    BY <1>1, Sizes
  <1> QED
    BY <1>2 DEF Fits, Proper, IsName

LEMMA LinkDot ==
    ASSUME NEW s, NEW X, Good(s, X), NEW i \in Inodes, s.ic[i].ref > 0, NEW j \in Dirs(s.d),
           NEW name \in {".", ".."}, NEW t, t = dir_link(s, i, name, j).s
    PROVE  /\ Done(s, X, t, 0) /\ Good(t, X) /\ t.ic[i].ref > 0 /\ Kept(s, t)
           /\ i \in Dirs(s.d) => Dirs(t.d) = Dirs(s.d)
           /\ i \notin Dirs(s.d) => i \notin Dirs(t.d)
  <1>1. j \in 0..NINODES /\ name \in Names \cup {".", ".."}
    BY GoodParts, Sizes
  <1>2. Entry(name, j) \in Cell
    BY <1>1, Sizes
  <1>3. i \in Dirs(s.d) => Fits(s, i, Entry(name, j))
    BY DotFits
  <1>4. PICK r : r = dir_link(s, i, name, j)
    OBVIOUS
  <1>5. Linked(s, X, i, r)
    BY <1>2, <1>3, <1>4, LinkSound
  <1>6. Good(r.s, X) /\ Steady(s, r.s) /\ MoreNames(s.d, r.s.d)
    BY <1>5 DEF Linked
  <1>10. Kept(s, r.s)
    BY <1>6, ReachMore, SteadyKept
  <1>7. Done(s, X, r.s, 0)
    BY <1>6, SteadyDone
  <1>8. r.s.ic[i].ref > 0
    BY <1>6 DEF Steady
  <1>9. /\ i \in Dirs(s.d) => Dirs(r.s.d) = Dirs(s.d)
        /\ i \notin Dirs(s.d) => i \notin Dirs(r.s.d)
    BY <1>5 DEF Linked
  <1> QED
    BY <1>4, <1>6, <1>7, <1>8, <1>9, <1>10

\* Where i is no directory, any inode may be given.
LEMMA LinkOdd ==
    ASSUME NEW s, NEW X, Good(s, X), NEW i \in Inodes, s.ic[i].ref > 0, i \notin Dirs(s.d),
           NEW j \in Inodes, NEW name \in {".", ".."}, NEW t, t = dir_link(s, i, name, j).s
    PROVE  /\ Done(s, X, t, 0) /\ Good(t, X) /\ t.ic[i].ref > 0 /\ i \notin Dirs(t.d) /\ Kept(s, t)
  <1>1. j \in 0..NINODES /\ name \in Names \cup {".", ".."}
    BY Sizes
  <1>2. Entry(name, j) \in Cell
    BY <1>1, Sizes
  <1>4. PICK r : r = dir_link(s, i, name, j)
    OBVIOUS
  <1>5. Linked(s, X, i, r)
    BY <1>2, <1>4, LinkSound
  <1>6. Good(r.s, X) /\ Steady(s, r.s) /\ MoreNames(s.d, r.s.d)
    BY <1>5 DEF Linked
  <1>10. Kept(s, r.s)
    BY <1>6, ReachMore, SteadyKept
  <1>7. Done(s, X, r.s, 0)
    BY <1>6, SteadyDone
  <1>8. r.s.ic[i].ref > 0
    BY <1>6 DEF Steady
  <1>9. i \notin Dirs(r.s.d)
    BY <1>5 DEF Linked
  <1> QED
    BY <1>4, <1>6, <1>7, <1>8, <1>9, <1>10

\* fs_create() that returns an inode has named it.
LEMMA LostNothing ==
    ASSUME NEW s, NEW path, NEW kind, NEW c, c = fs_create(s, path, kind), c.i # 0
    PROVE  ~c.leak
  BY DEF fs_create

\* fs_mkdir()
LEMMA MkdirCall ==
    ASSUME NEW s, NEW X, Good(s, X), NEW path \in Seq(Names), path # <<>>
    PROVE  LET r == fs_mkdir(s, path)
           IN  Done(s, X, r.s, 0) /\ (~r.leak => Kept(s, r.s))
  <1>1. PICK c : c = fs_create(s, path, "DIR")
    OBVIOUS
  <1>2. Created(s, X, c)
    BY <1>1, CreateSound
  <1>3. Done(s, X, c.s, c.i) /\ c.i \in {0} \cup Inodes /\ (~c.leak => Kept(s, c.s))
    BY <1>2 DEF Created
  <1>4. PICK r : r = fs_mkdir(s, path)
    OBVIOUS
  <1>5. CASE c.i = 0
    <2>1. r = [s |-> c.s, leak |-> c.leak]
      BY <1>1, <1>4, <1>5 DEF fs_mkdir
    <2>2. r.s = c.s /\ r.leak = c.leak
      BY <2>1
    <2> QED
      BY <1>3, <1>4, <1>5, <2>2
  <1>6. CASE c.i # 0
    <2>1. PICK i \in Inodes : i = c.i
      BY <1>3, <1>6
    <2>2. PICK u : u = c.s
      OBVIOUS
    <2>3. Good(u, X) /\ Holds(s, X, u, i, 0, 0)
      BY <1>3, <2>1, <2>2, DoneHolds DEF Done
    <2>4. u.ic[i].ref > 0
      BY <2>3, HoldsRef
    <2>5. PICK q : q = fs_namei_parent(u, path)
      OBVIOUS
    <2>6. Put(q.s, q.i) = u /\ (q.i # 0 => q.i \in Dirs(u.d))
      <3>1. CASE q.i = 0
        <4>1. q.s = u
          BY <2>3, <2>5, <3>1, ParentForm, StandsParts DEF Hold
        <4> QED
          BY <3>1, <4>1 DEF Put
      <3>2. CASE q.i # 0
        <4>1. q.i \in Dirs(u.d) /\ fs_iput(q.s, q.i) = u
          BY <2>3, <2>5, <3>2, InParent
        <4> QED
          BY <3>2, <4>1 DEF Put
      <3> QED
        BY <3>1, <3>2
    <2>7. PICK a : a = IF q.i = 0 THEN 1 ELSE q.i
      OBVIOUS
    <2>8. a \in Dirs(u.d) /\ a \in Inodes
      BY <2>3, <2>6, <2>7, GoodParts
    <2>9. PICK v : v = dir_link(u, i, ".", i).s
      OBVIOUS
    <2>10. PICK w : w = dir_link(v, i, "..", a).s
      OBVIOUS
    <2>11. r = [s |-> fs_iput(w, i), leak |-> FALSE]
      BY <1>1, <1>4, <1>6, <2>1, <2>2, <2>5, <2>6, <2>7, <2>9, <2>10 DEF fs_mkdir
    <2>12. Done(u, X, v, 0) /\ Done(v, X, w, 0) /\ Kept(u, v) /\ Kept(v, w)
      <3>1. CASE i \in Dirs(u.d)
        <4>1. Done(u, X, v, 0) /\ Good(v, X) /\ v.ic[i].ref > 0 /\ Dirs(v.d) = Dirs(u.d) /\ Kept(u, v)
          BY <2>3, <2>4, <2>9, <3>1, LinkDot
        <4>2. a \in Dirs(v.d)
          BY <2>8, <4>1
        <4>3. Done(v, X, w, 0) /\ Kept(v, w)
          BY <2>10, <4>1, <4>2, LinkDot
        <4> QED
          BY <4>1, <4>3
      <3>2. CASE i \notin Dirs(u.d)
        <4>1. Done(u, X, v, 0) /\ Good(v, X) /\ v.ic[i].ref > 0 /\ i \notin Dirs(v.d) /\ Kept(u, v)
          BY <2>3, <2>4, <2>9, <3>2, LinkOdd
        <4>2. Done(v, X, w, 0) /\ Kept(v, w)
          BY <2>8, <2>10, <4>1, LinkOdd
        <4> QED
          BY <4>1, <4>2
      <3> QED
        BY <3>1, <3>2
    <2>13. Holds(s, X, w, i, 0, 0)
      BY <2>3, <2>12, HoldsStay
    <2>14. Holds(s, X, w, 0, 0, i)
      BY <2>13, HoldsSwap
    <2>15. Holds(s, X, Put(w, i), 0, 0, 0) /\ Kept(w, Put(w, i))
      BY <2>14, HoldsPut
    <2>16. Done(s, X, Put(w, i), 0)
      BY <2>15, HoldsDone
    <2>17. r.s = Put(w, i)
      BY <2>11, Sizes DEF Put
    <2>18. ~c.leak => Kept(s, Put(w, i))
      <3>1. Kept(u, w)
        BY <2>12, KeptOn
      <3>2. Kept(u, Put(w, i))
        BY <2>15, <3>1, KeptOn
      <3> QED
        BY <1>3, <2>2, <3>2, KeptOn
    <2>19. ~c.leak
      BY <1>1, <1>6, LostNothing
    <2> QED
      BY <1>4, <2>16, <2>17, <2>18, <2>19
  <1> QED
    BY <1>5, <1>6

\* The end of fs_rename()
LEMMA ReleaseDone ==
    ASSUME NEW s, NEW X, NEW t, NEW i \in {0} \cup Inodes, NEW o \in {0} \cup Inodes,
           NEW n \in {0} \cup Inodes, Holds(s, X, t, i, o, n)
    PROVE  LET u == Put(Put(Put(t, o), n), i)
           IN  Done(s, X, u, 0) /\ Kept(t, u)
  <1>1. Holds(s, X, t, i, n, o)
    BY HoldsSwap
  <1>2. PICK a : a = Put(t, o)
    OBVIOUS
  <1>3. Holds(s, X, a, i, n, 0) /\ Kept(t, a)
    BY <1>1, <1>2, HoldsPut
  <1>4. Holds(s, X, a, i, 0, n)
    BY <1>3, HoldsSwap
  <1>5. PICK b : b = Put(a, n)
    OBVIOUS
  <1>6. Holds(s, X, b, i, 0, 0) /\ Kept(a, b)
    BY <1>4, <1>5, HoldsPut
  <1>7. Holds(s, X, b, 0, i, 0)
    BY <1>6, HoldsSwap
  <1>8. Holds(s, X, b, 0, 0, i)
    BY <1>7, HoldsSwap
  <1>9. Holds(s, X, Put(b, i), 0, 0, 0) /\ Kept(b, Put(b, i))
    BY <1>8, HoldsPut
  <1>10. Kept(t, Put(b, i))
    BY <1>3, <1>6, <1>9, KeptOn
  <1> QED
    BY <1>2, <1>5, <1>9, <1>10, HoldsDone

\* Every inode has one name: two ways to it end alike.
LEMMA OneName ==
    ASSUME NEW d, TreeOK(d), NEW v, NEW w, NEW a \in Names, NEW b \in Names,
           NextIno(d, v, a) = NextIno(d, w, b), NextIno(d, v, a) # 0
    PROVE  v = w /\ a = b /\ v \in Inodes /\ NextIno(d, v, a) # 1
  <1>1. PICK x : x = NextIno(d, v, a)
    OBVIOUS
  <1>2. v \in Dirs(d) /\ x \in Live(d) \ {1}
    BY <1>1, NextNames
  <1>3. PICK k \in Spots(d, v) : /\ IsName(CellOf(d, v, k)) /\ CellOf(d, v, k).ino = x
                                 /\ CellOf(d, v, k).name = a
    BY <1>1, NextNames
  <1>4. w \in Dirs(d)
    BY <1>1, NextNames
  <1>5. PICK l \in Spots(d, w) : /\ IsName(CellOf(d, w, l)) /\ CellOf(d, w, l).ino = x
                                 /\ CellOf(d, w, l).name = b
    BY <1>1, NextNames
  <1>6. v = w /\ k = l
    BY <1>2, <1>3, <1>4, <1>5 DEF TreeOK
  <1> QED
    BY <1>1, <1>2, <1>3, <1>5, <1>6 DEF Dirs, Live

\* The inodes that a path passes.
Passes(d, path, q) ==
    q[0] = 1 /\ \A n \in 1..Len(path) : q[n] = NextIno(d, q[n - 1], path[n])

\* A path that passes what another leads to begins with that other.
LEMMA OneWay ==
    ASSUME NEW d, TreeOK(d), NEW a \in Seq(Names), NEW b \in Seq(Names), NEW p, NEW q,
           Passes(d, a, p), Passes(d, b, q), NEW K \in 0..Len(b),
           p[Len(a)] = q[K], q[K] \in Inodes
    PROVE  IsPrefix(a, b)
  <1>1. PICK L \in Nat : L = Len(a)
    OBVIOUS
  <1>2. K \in Nat /\ Len(b) \in Nat /\ K <= Len(b)
    OBVIOUS
  <1>3. /\ p[0] = 1 /\ \A n \in 1..L : p[n] = NextIno(d, p[n - 1], a[n]) /\ a[n] \in Names
        /\ q[0] = 1 /\ \A n \in 1..K : q[n] = NextIno(d, q[n - 1], b[n]) /\ b[n] \in Names
    BY <1>1, <1>2 DEF Passes
  <1>4. PICK M \in Nat : M <= L /\ M <= K /\ (M = L \/ M = K)
    BY <1>1, <1>2
  <1>5. PICK g : g = [m \in 0..M |-> <<p[L - m], q[K - m]>>]
    OBVIOUS
  <1>6. PICK V : V = [m \in 0..M |-> {<<x, x>> : x \in Inodes}]
    OBVIOUS
  <1>7. g[0] \in V[0]
    <2>1. g[0] = <<p[L], q[K]>>
      BY <1>2, <1>4, <1>5
    <2> QED
      BY <1>1, <1>6, <2>1
  <1>8. ASSUME NEW m \in 1..M, g[m - 1] \in V[m - 1]
        PROVE  g[m] \in V[m]
    <2>1. /\ L - (m - 1) = (L - m) + 1 /\ K - (m - 1) = (K - m) + 1
          /\ (L - m) + 1 \in 1..L /\ (K - m) + 1 \in 1..K /\ m - 1 \in 0..M /\ m \in 0..M
      BY <1>2, <1>4
    <2>2. PICK u \in Nat : u = L - m
      BY <1>4
    <2>3. PICK w \in Nat : w = K - m
      BY <1>2, <1>4
    <2>4. g[m - 1] = <<p[u + 1], q[w + 1]>> /\ g[m] = <<p[u], q[w]>>
      BY <1>5, <2>1, <2>2, <2>3
    <2>5. p[u + 1] = q[w + 1] /\ p[u + 1] \in Inodes
      BY <1>6, <1>8, <2>1, <2>4
    <2>6. u + 1 \in 1..L /\ w + 1 \in 1..K /\ (u + 1) - 1 = u /\ (w + 1) - 1 = w
      BY <2>1, <2>2, <2>3
    <2>7. /\ p[u + 1] = NextIno(d, p[u], a[u + 1]) /\ a[u + 1] \in Names
          /\ q[w + 1] = NextIno(d, q[w], b[w + 1]) /\ b[w + 1] \in Names
      BY <1>3, <2>6
    <2>8. p[u + 1] # 0
      BY <2>5, Sizes
    <2>9. p[u] = q[w] /\ p[u] \in Inodes
      <3>1. PICK x, y, e, f : x = p[u] /\ y = q[w] /\ e = a[u + 1] /\ f = b[w + 1]
        OBVIOUS
      <3>2. NextIno(d, x, e) = NextIno(d, y, f) /\ NextIno(d, x, e) # 0 /\ e \in Names /\ f \in Names
        BY <2>5, <2>7, <2>8, <3>1
      <3>3. x = y /\ x \in Inodes
        BY <3>2, OneName
      <3> QED
        BY <3>1, <3>3
    <2> QED
      BY <1>6, <2>1, <2>4, <2>9
  <1>9. \A m \in 0..M : g[m] \in V[m]
    BY <1>7, <1>8, Induct
  <1>10. ASSUME NEW m \in 0..M
         PROVE  p[L - m] = q[K - m] /\ p[L - m] \in Inodes
    BY <1>5, <1>6, <1>9
  <1>11. L = K
    <2>1. CASE M = L /\ L < K
      <3>1. PICK n \in 1..K : n = K - L
        BY <1>2, <2>1
      <3>2. q[n] = 1
        <4>1. M \in 0..M /\ L - M = 0 /\ K - M = n
          BY <2>1, <3>1
        <4> QED
          BY <1>3, <1>10, <4>1
      <3>3. q[n] = NextIno(d, q[n - 1], b[n]) /\ b[n] \in Names
        BY <1>3
      <3> QED
        BY <3>2, <3>3, OneName
    <2>2. CASE M = K /\ K < L
      <3>1. PICK n \in 1..L : n = L - K
        BY <1>2, <2>2
      <3>2. p[n] = 1
        <4>1. M \in 0..M /\ K - M = 0 /\ L - M = n
          BY <2>2, <3>1
        <4> QED
          BY <1>3, <1>10, <4>1
      <3>3. p[n] = NextIno(d, p[n - 1], a[n]) /\ a[n] \in Names
        BY <1>3
      <3> QED
        BY <3>2, <3>3, OneName
    <2> QED
      BY <1>2, <1>4, <2>1, <2>2
  <1>12. ASSUME NEW n \in 1..L
         PROVE  a[n] = b[n]
    <2>1. PICK m \in 0..M : m = L - n
      BY <1>4, <1>11
    <2>2. L - m = n /\ K - m = n
      BY <1>11, <2>1
    <2>3. p[n] = q[n] /\ p[n] \in Inodes
      BY <1>10, <2>2
    <2>4. /\ p[n] = NextIno(d, p[n - 1], a[n]) /\ a[n] \in Names
          /\ q[n] = NextIno(d, q[n - 1], b[n]) /\ b[n] \in Names
      BY <1>3, <1>11
    <2>5. p[n] # 0
      BY <2>3, Sizes
    <2>6. PICK x, y, e, f : x = p[n - 1] /\ y = q[n - 1] /\ e = a[n] /\ f = b[n]
      OBVIOUS
    <2>7. NextIno(d, x, e) = NextIno(d, y, f) /\ NextIno(d, x, e) # 0 /\ e \in Names /\ f \in Names
      BY <2>3, <2>4, <2>5, <2>6
    <2>8. e = f
      BY <2>7, OneName
    <2> QED
      BY <2>6, <2>8
  <1>13. SubSeq(a, 1, L) = SubSeq(b, 1, L)
    <2>1. SubSeq(a, 1, L) = [n \in 1..L |-> a[n]] /\ SubSeq(b, 1, L) = [n \in 1..L |-> b[n]]
      BY <1>1, <1>2, <1>11
    <2> QED
      BY <1>12, <2>1
  <1> QED
    BY <1>1, <1>2, <1>11, <1>13 DEF IsPrefix

\* What is moved, but not below itself, can still be reached, and so can all below it.
LEMMA MovedReach ==
    ASSUME NEW d, TreeOK(d), NEW e, NEW old \in Seq(Names), NEW into \in Seq(Names),
           NEW i \in Inodes, Walks(d, old, i), NEW n \in Inodes, Walks(d, into, n),
           ~IsPrefix(old, into), NamesIt(e, n, i),
           \A a, b \in Inodes : NamesIt(d, a, b) /\ b # i => NamesIt(e, a, b)
    PROVE  Reach(d) \subseteq Reach(e)
  <1>1. PICK p : Passes(d, old, p) /\ p[Len(old)] = i
    BY DEF Walks, Passes
  <1>2. PICK q : Passes(d, into, q) /\ q[Len(into)] = n
    BY DEF Walks, Passes
  <1>3. PICK N \in Nat : N = Len(into)
    OBVIOUS
  <1>4. \A k \in 0..N : q[k] # i
    BY <1>1, <1>2, <1>3, OneWay
  <1>5. PICK V : V = [k \in 0..N |-> {0} \cup Reach(e)]
    OBVIOUS
  <1>6. q[0] \in V[0]
    BY <1>2, <1>5, ReachRoot DEF Passes
  <1>7. ASSUME NEW k \in 1..N, q[k - 1] \in V[k - 1]
        PROVE  q[k] \in V[k]
    <2>1. q[k] = NextIno(d, q[k - 1], into[k]) /\ into[k] \in Names /\ V[k] = {0} \cup Reach(e)
          /\ V[k - 1] = {0} \cup Reach(e)
      BY <1>2, <1>3, <1>5 DEF Passes
    <2>2. CASE q[k] = 0
      BY <2>1, <2>2
    <2>3. CASE q[k] # 0
      <3>1. NamesIt(d, q[k - 1], q[k]) /\ q[k - 1] \in Dirs(d) /\ q[k] \in Inodes
        BY <2>1, <2>3, NextNames
      <3>2. q[k - 1] \in Reach(e) /\ q[k - 1] \in Inodes
        BY <1>7, <2>1, <3>1, Sizes DEF Dirs, Live
      <3>3. q[k] # i
        BY <1>4
      <3>4. NamesIt(e, q[k - 1], q[k])
        BY <3>1, <3>2, <3>3
      <3> QED
        BY <2>1, <3>1, <3>2, <3>4, ReachStep
    <2> QED
      BY <2>2, <2>3
  <1>8. \A k \in 0..N : q[k] \in V[k]
    BY <1>6, <1>7, Induct
  <1>9. n \in Reach(e)
    BY <1>2, <1>3, <1>5, <1>8, Sizes
  <1>10. ASSUME NEW R \in SUBSET Inodes, Follows(e, R)
         PROVE  Follows(d, R)
    <2>1. i \in R
      BY <1>9, <1>10 DEF Reach, Follows
    <2> QED
      BY <1>10, <2>1 DEF Follows
  <1> QED
    BY <1>10 DEF Reach

\* fs_rename() takes off the old name and gives the new one.
LEMMA MoveSoundly ==
    ASSUME NEW s, NEW X, NEW t, NEW i \in Inodes, NEW o, NEW n, Holds(s, X, t, i, o, n),
           o \in Dirs(t.d), n \in Dirs(t.d), NEW old \in Names, NEW new \in Names,
           i = NextIno(t.d, o, old), NEW u, u = dir_unlink(t, o, old),
           NEW link, link = dir_link(u, n, new, i)
    PROVE  /\ Holds(s, X, link.s, i, o, n)
           /\ \A from, into \in Seq(Names) :
                 Walks(t.d, from, i) /\ Walks(t.d, into, n) /\ ~IsPrefix(from, into) /\ link.ok =>
                    Kept(t, link.s)
  <1>1. Good(t, X) /\ Sound(t, X)
    BY DEF Holds, Good
  <1>2. o \in Inodes /\ n \in Inodes /\ i # 0
    BY <1>1, GoodParts, Sizes
  <1>3. t.ic[o].ref > 0 /\ t.ic[i].ref > 0 /\ t.ic[n].ref > 0
    BY <1>2, HoldsRef
  <1>4. Unnamed(t, X, o, old, u)
    BY <1>1, <1>3, UnnameSound
  <1>5. /\ Good(u, X) /\ Steady(t, u) /\ ~IsNamed(u.d, i)
        /\ Live(u.d) = Live(t.d) /\ Dirs(u.d) = Dirs(t.d)
        /\ \A a, b \in Inodes : NamesIt(t.d, a, b) /\ b # i => NamesIt(u.d, a, b)
    BY <1>2, <1>4 DEF Unnamed
  <1>6. IsNamed(t.d, i)
    BY <1>1, <1>2, <1>3, NextNamed
  <1>7. t.ic[i].di.nlink > 0
    BY <1>1, <1>3, <1>6, SoundParts DEF Cached
  <1>8. u.ic[i].di.nlink > 0 /\ u.ic[n].ref > 0
    BY <1>2, <1>3, <1>5, <1>7 DEF Steady
  <1>9. i \in Live(u.d) /\ i # 1
    BY <1>1, <1>2, <1>3, <1>5, NextLive
  <1>10. i \in 0..NINODES /\ new \in Names \cup {".", ".."}
    BY Sizes
  <1>11. Entry(new, i) \in Cell /\ Entry(new, i).ino = i /\ Entry(new, i).name = new
    BY <1>10, Sizes
  <1>12. Fits(u, n, Entry(new, i))
    BY <1>5, <1>8, <1>9, <1>11 DEF Fits, Proper
  <1>13. Linked(u, X, n, link)
    BY <1>2, <1>5, <1>8, <1>11, <1>12, LinkSound
  <1>14. Done(t, X, u, 0) /\ Done(u, X, link.s, 0)
    BY <1>1, <1>5, <1>13, SteadyDone DEF Linked
  <1>15. Holds(s, X, link.s, i, o, n)
    BY <1>14, HoldsStay
  <1>16. ASSUME NEW from \in Seq(Names), NEW into \in Seq(Names), Walks(t.d, from, i),
                Walks(t.d, into, n), ~IsPrefix(from, into), link.ok
         PROVE  Kept(t, link.s)
    <2>1. NamesIt(link.s.d, n, i)
      BY <1>2, <1>5, <1>8, <1>11, <1>12, <1>16, LinkSound
    <2>2. MoreNames(u.d, link.s.d) /\ Steady(u, link.s)
      BY <1>13 DEF Linked
    <2>3. \A a, b \in Inodes : NamesIt(t.d, a, b) /\ b # i => NamesIt(link.s.d, a, b)
      BY <1>5, <2>2 DEF MoreNames
    <2>4. TreeOK(t.d)
      BY <1>1, GoodParts
    <2>5. Reach(t.d) \subseteq Reach(link.s.d)
      BY <1>2, <1>16, <2>1, <2>3, <2>4, MovedReach
    <2>6. Steady(t, link.s)
      BY <1>5, <2>2, SteadyOn
    <2> QED
      BY <1>1, <2>5, <2>6, SteadyKept
  <1> QED
    BY <1>15, <1>16

LEMMA RenameCall ==
    ASSUME NEW s, NEW X, Good(s, X), NEW old \in Seq(Names), old # <<>>,
           NEW new \in Seq(Names), new # <<>>
    PROVE  LET r == fs_rename(s, old, new)
           IN  Done(s, X, r.s, 0) /\ (~r.leak => Kept(s, r.s))
  <1>1. PICK ip : ip = fs_namei(s, old)
    OBVIOUS
  <1>2. /\ ip.i \in {0} \cup Live(s.d) /\ ip.i \in {0} \cup Inodes
        /\ Done(s, X, ip.s, ip.i) /\ ip.s.d = s.d /\ Walks(s.d, old, ip.i)
        /\ ip.i = 0 => ip.s = s
        /\ Kept(s, ip.s)
    BY <1>1, NameiHolds
  <1>3. PICK r : r = fs_rename(s, old, new)
    OBVIOUS
  <1>4. CASE ip.i = 0
    <2>1. r = [s |-> ip.s, leak |-> FALSE]
      BY <1>1, <1>3, <1>4 DEF fs_rename
    <2> QED
      BY <1>2, <1>3, <1>4, <2>1, DoneSelf, KeptSelf
  <1>5. CASE ip.i # 0
    <2>1. PICK i \in Inodes : i = ip.i
      BY <1>2, <1>5
    <2>2. Good(ip.s, X) /\ Holds(s, X, ip.s, i, 0, 0)
      BY <1>2, <2>1, DoneHolds DEF Done
    <2>3. PICK odp : odp = fs_namei_parent(ip.s, old)
      OBVIOUS
    <2>4. /\ odp.i \in {0} \cup Inodes /\ Done(ip.s, X, odp.s, odp.i) /\ odp.s.d = s.d
          /\ Kept(ip.s, odp.s)
          /\ odp.i # 0 => odp.i \in Dirs(s.d) /\ Walks(s.d, Front(old), odp.i)
      <3>1. CASE odp.i = 0
        <4>1. odp.s = ip.s
          BY <2>2, <2>3, <3>1, ParentForm, StandsParts DEF Hold
        <4> QED
          BY <1>2, <2>2, <3>1, <4>1, DoneSelf, KeptSelf
      <3>2. CASE odp.i # 0
        <4>1. PICK o : o = odp.i
          OBVIOUS
        <4>2. /\ o \in Dirs(ip.s.d) /\ o \in InUse(ip.s) /\ o \in Inodes
              /\ odp.s = Hold(ip.s, o) /\ odp.s.d = ip.s.d /\ Walks(ip.s.d, Front(old), o)
              /\ Kept(ip.s, odp.s)
          BY <2>2, <2>3, <3>2, <4>1, InParent
        <4>3. Done(ip.s, X, odp.s, o)
          BY <2>2, <4>2, HoldDone
        <4> QED
          BY <1>2, <4>1, <4>2, <4>3
      <3> QED
        BY <3>1, <3>2
    <2>5. PICK o \in {0} \cup Inodes : o = odp.i
      BY <2>4
    <2>6. Holds(s, X, odp.s, i, 0, o)
      BY <2>2, <2>4, <2>5, HoldsUp
    <2>7. Holds(s, X, odp.s, i, o, 0) /\ Good(odp.s, X)
      <3>1. Holds(s, X, odp.s, i, o, 0)
        BY <2>6, HoldsSwap
      <3> QED
        BY <3>1 DEF Holds
    <2>8. PICK ndp : ndp = fs_namei_parent(odp.s, new)
      OBVIOUS
    <2>9. /\ ndp.i \in {0} \cup Inodes /\ Done(odp.s, X, ndp.s, ndp.i) /\ ndp.s.d = s.d
          /\ ndp.i # 0 => ndp.i \in Dirs(s.d) /\ Walks(s.d, Front(new), ndp.i)
          /\ Kept(odp.s, ndp.s)
      <3>1. CASE ndp.i = 0
        <4>1. ndp.s = odp.s
          BY <2>7, <2>8, <3>1, ParentForm, StandsParts DEF Hold
        <4> QED
          BY <2>4, <2>7, <3>1, <4>1, DoneSelf, KeptSelf
      <3>2. CASE ndp.i # 0
        <4>1. PICK n : n = ndp.i
          OBVIOUS
        <4>2. /\ n \in Dirs(odp.s.d) /\ n \in InUse(odp.s) /\ n \in Inodes
              /\ ndp.s = Hold(odp.s, n) /\ ndp.s.d = odp.s.d /\ Walks(odp.s.d, Front(new), n)
              /\ Kept(odp.s, ndp.s)
          BY <2>7, <2>8, <3>2, <4>1, InParent
        <4>3. Done(odp.s, X, ndp.s, n)
          BY <2>7, <4>2, HoldDone
        <4> QED
          BY <2>4, <4>1, <4>2, <4>3
      <3> QED
        BY <3>1, <3>2
    <2>10. PICK n \in {0} \cup Inodes : n = ndp.i
      BY <2>9
    <2>11. PICK t : t = ndp.s
      OBVIOUS
    <2>12. Holds(s, X, t, i, o, n)
      BY <2>7, <2>9, <2>10, <2>11, HoldsUp
    <2>15. Kept(s, t)
      <3>1. Kept(s, odp.s)
        BY <1>2, <2>4, KeptOn
      <3> QED
        BY <2>9, <2>11, <3>1, KeptOn
    <2>13. CASE o = 0 \/ n = 0
      <3>1. r = [s |-> Put(Put(Put(t, o), n), i), leak |-> FALSE]
        BY <1>1, <1>3, <1>5, <2>1, <2>3, <2>5, <2>8, <2>10, <2>11, <2>13 DEF fs_rename
      <3>2. Done(s, X, Put(Put(Put(t, o), n), i), 0) /\ Kept(t, Put(Put(Put(t, o), n), i))
        BY <2>12, ReleaseDone
      <3>3. Kept(s, Put(Put(Put(t, o), n), i))
        BY <2>15, <3>2, KeptOn
      <3> QED
        BY <1>3, <3>1, <3>2, <3>3
    <2>14. CASE o # 0 /\ n # 0
      <3>1. PICK u : u = dir_unlink(t, o, Last(old))
        OBVIOUS
      <3>2. PICK link : link = dir_link(u, n, Last(new), i)
        OBVIOUS
      <3>3. /\ r.s = Put(Put(Put(link.s, o), n), i)
            /\ ~r.leak => link.ok /\ ~IsPrefix(old, Front(new))
        <4>1. r = [s |-> Put(Put(Put(link.s, o), n), i),
                   leak |-> ~link.ok \/ IsPrefix(old, Front(new))]
          BY <1>1, <1>3, <1>5, <2>1, <2>3, <2>5, <2>8, <2>10, <2>11, <2>14, <3>1, <3>2 DEF fs_rename
        <4> QED
          BY <4>1
      <3>4. i = NextIno(t.d, o, Last(old))
        <4>1. Walks(s.d, old, i) /\ Walks(s.d, Front(old), o) /\ t.d = s.d
          BY <1>2, <2>1, <2>4, <2>5, <2>9, <2>11, <2>14
        <4> QED
          BY <4>1, WalksFront
      <3>5. Last(old) \in Names /\ Last(new) \in Names
        BY LastName
      <3>6. o \in Dirs(t.d) /\ n \in Dirs(t.d)
        BY <2>4, <2>5, <2>9, <2>10, <2>11, <2>14
      <3>7. /\ Holds(s, X, link.s, i, o, n)
            /\ \A from, into \in Seq(Names) :
                  Walks(t.d, from, i) /\ Walks(t.d, into, n) /\ ~IsPrefix(from, into) /\ link.ok =>
                     Kept(t, link.s)
        BY <2>12, <3>1, <3>2, <3>4, <3>5, <3>6, MoveSoundly
      <3>8. PICK z : z = Put(Put(Put(link.s, o), n), i)
        OBVIOUS
      <3>9. Done(s, X, z, 0) /\ Kept(link.s, z)
        BY <3>7, <3>8, ReleaseDone
      <3>10. ~r.leak => Kept(s, z)
        <4>1. Walks(t.d, old, i) /\ Walks(t.d, Front(new), n) /\ Front(new) \in Seq(Names)
          BY <1>2, <2>1, <2>9, <2>10, <2>11, <2>14, FrontSeq
        <4>2. ~r.leak => Kept(t, link.s)
          BY <3>3, <3>7, <4>1
        <4> QED
          BY <2>15, <3>9, <4>2, KeptOn
      <3> QED
        BY <1>3, <3>3, <3>8, <3>9, <3>10
    <2> QED
      BY <2>13, <2>14
  <1> QED
    BY <1>4, <1>5

LEMMA FlushDone ==
    ASSUME NEW s, NEW X, Good(s, X), NEW i, NEW di, NEW t, Flushes(s, X, i, di, t),
           di.type # "DIR" \/ di.size = s.ic[i].di.size
    PROVE  Done(s, X, t, 0) /\ Kept(s, t)
  <1>1. Sound(t, X) /\ Keeps(s, t)
    BY FlushSound
  <1>2. Steady(s, t)
    BY <1>1 DEF Keeps
  <1>3. Tidy(t)
    BY <1>2, SteadyTidy
  <1>4. Kept(s, t)
    BY <1>1, KeepsKept
  <1> QED
    BY <1>1, <1>2, <1>3, <1>4, SteadyDone DEF Good

\* sys_open() with O_TRUNC
LEMMA TruncateDone ==
    ASSUME NEW s, NEW X, Good(s, X), NEW i \in Inodes, s.ic[i].ref > 0, s.ic[i].di.type = "FILE"
    PROVE  LET t == fs_iupdate([s EXCEPT !.ic[i].di.size = 0], i)
           IN  Done(s, X, t, 0) /\ Kept(s, t)
  <1> DEFINE di == Resized(s, i, 0)
             t == fs_iupdate(Pick(s, i, di), i)
  <1>1. Sound(s, X) /\ s \in State
    BY GoodParts
  <1>2. Flushes(s, X, i, di, t) /\ di.size = 0
    BY <1>1, ResizeFlushes
  <1>3. [s EXCEPT !.ic[i].di.size = 0] = Pick(s, i, di)
    <2>1. s.ic \in [Inodes -> CacheSlot] /\ s.ic[i] \in CacheSlot
      BY <1>1, StateParts
    <2> QED
      BY <1>1, <2>1 DEF Pick, Resized, State, CacheSlot, DiskInode
  <1>4. t = fs_iupdate([s EXCEPT !.ic[i].di.size = 0], i)
    BY <1>3
  <1> HIDE DEF t, di
  <1>5. di.type # "DIR"
    BY <1>2 DEF Flushes
  <1> QED
    BY <1>2, <1>4, <1>5, FlushDone

LEMMA IupdateDone ==
    ASSUME NEW s, NEW X, Good(s, X), NEW i \in Inodes, s.ic[i].ref > 0
    PROVE  Done(s, X, fs_iupdate(s, i), 0) /\ Kept(s, fs_iupdate(s, i))
  <1>1. PICK di : di = s.ic[i].di
    OBVIOUS
  <1>2. Sound(s, X) /\ s \in State /\ di \in DiskInode
    BY <1>1, GoodParts, StateParts
  <1>3. PICK t : t = fs_iupdate(s, i)
    OBVIOUS
  <1>4. Flushed(s, t, i, di)
    BY <1>1, <1>2, <1>3, PickOwn
  <1>5. Flushes(s, X, i, di, t)
    BY <1>1, <1>2, <1>4 DEF Flushes
  <1> QED
    BY <1>1, <1>3, <1>5, FlushDone

LEMMA WriteDone ==
    ASSUME NEW s, NEW X, Good(s, X), NEW i \in Inodes, s.ic[i].ref > 0, s.ic[i].di.type # "DIR",
           NEW off \in Nat, NEW cells \in Seq(Cell), cells # <<>>
    PROVE  LET r == fs_write(s, i, off, cells)
           IN  Done(s, X, r.s, 0) /\ Kept(s, r.s)
  <1>1. PICK r : r = fs_write(s, i, off, cells)
    OBVIOUS
  <1>2. r \in Wrote(s, X)
    BY <1>1, WriteSound DEF Good
  <1>3. Sound(r.s, X) /\ Steady(s, r.s) /\ Keeps(s, r.s)
    BY <1>2 DEF Wrote, Keeps
  <1>5. Kept(s, r.s)
    BY <1>3, KeepsKept
  <1>4. Tidy(r.s)
    BY <1>3, SteadyTidy
  <1> QED
    BY <1>1, <1>3, <1>4, <1>5, SteadyDone DEF Good

LEMMA PutDone ==
    ASSUME NEW s, NEW X, NEW t, NEW i \in {0} \cup Inodes, Good(s, X), Done(s, X, t, i)
    PROVE  Done(s, X, Put(t, i), 0) /\ (i # 0 => Put(t, i) = fs_iput(t, i)) /\ Kept(t, Put(t, i))
  <1>1. Holds(s, X, t, i, 0, 0)
    BY DoneHolds
  <1>2. Holds(s, X, t, 0, i, 0)
    BY <1>1, HoldsSwap
  <1>3. Holds(s, X, t, 0, 0, i)
    BY <1>2, HoldsSwap
  <1>4. Holds(s, X, Put(t, i), 0, 0, 0) /\ Kept(t, Put(t, i))
    BY <1>3, HoldsPut
  <1> QED
    BY <1>4, HoldsDone DEF Put

-----------------------------------------------------------------------------
(* Boot                                                                    *)

\* dev_create_nodes() has made r of s.
Makes(s, X) ==
    {r \in [s : State, leak : BOOLEAN] : Done(s, X, r.s, 0) /\ (~r.leak => Kept(s, r.s))}

LEMMA MakeNodeSound ==
    ASSUME NEW s, NEW X, Good(s, X), NEW r \in Makes(s, X), NEW path \in Seq(Names), path # <<>>
    PROVE  LET z == MakeNode(r, path)
           IN  Done(s, X, z.s, 0) /\ (~z.leak => Kept(s, z.s))
  <1>1. r.s \in State /\ r.leak \in BOOLEAN /\ Done(s, X, r.s, 0) /\ Good(r.s, X)
        /\ r = [s |-> r.s, leak |-> r.leak] /\ (~r.leak => Kept(s, r.s))
    BY DEF Makes, Done
  <1>2. PICK q : q = fs_namei(r.s, path)
    OBVIOUS
  <1>3. /\ q.i # 0 => fs_iput(q.s, q.i) = r.s
        /\ q.i = 0 => q.s = r.s
    BY <1>1, <1>2, NameiHolds
  <1>4. PICK z : z = MakeNode(r, path)
    OBVIOUS
  <1>5. PICK c : c = fs_create(q.s, path, "DEV")
    OBVIOUS
  <1>6. CASE q.i # 0
    <2>1. z = [r EXCEPT !.s = fs_iput(q.s, q.i)]
      BY <1>2, <1>4, <1>6 DEF MakeNode
    <2>2. z.s = r.s /\ z.leak = r.leak
      BY <1>1, <1>3, <1>6, <2>1
    <2> QED
      BY <1>1, <1>4, <2>2
  <1>7. CASE q.i = 0
    <2>1. Created(r.s, X, c)
      BY <1>1, <1>3, <1>5, <1>7, CreateSound
    <2>2. Done(r.s, X, c.s, c.i) /\ c.i \in {0} \cup Inodes /\ (~c.leak => Kept(r.s, c.s))
      BY <2>1 DEF Created
    <2>3. CASE c.i = 0
      <3>1. z = [s |-> c.s, leak |-> r.leak \/ c.leak]
        BY <1>2, <1>4, <1>5, <1>7, <2>3 DEF MakeNode
      <3>2. z.s = c.s /\ (~z.leak => ~r.leak /\ ~c.leak)
        BY <3>1
      <3>4. ~z.leak => Kept(s, c.s)
        BY <1>1, <2>2, <3>2, KeptOn
      <3>3. Done(s, X, c.s, 0)
        BY <1>1, <2>2, <2>3, DoneOn
      <3> QED
        BY <1>4, <3>2, <3>3, <3>4
    <2>4. CASE c.i # 0
      <3>1. PICK i \in Inodes : i = c.i
        BY <2>2, <2>4
      <3>2. Holds(r.s, X, c.s, i, 0, 0)
        BY <1>1, <2>2, <3>1, DoneHolds
      <3>3. c.s.ic[i].ref > 0 /\ Good(c.s, X)
        BY <2>2, <3>1, <3>2, HoldsRef DEF Done
      <3>4. PICK u : u = fs_iupdate(c.s, i)
        OBVIOUS
      <3>5. Done(c.s, X, u, 0) /\ Kept(c.s, u)
        BY <3>3, <3>4, IupdateDone
      <3>6. Holds(r.s, X, u, i, 0, 0)
        BY <3>2, <3>5, HoldsStay
      <3>7. Done(r.s, X, u, i)
        BY <3>6, HoldsDone
      <3>8. Done(r.s, X, Put(u, i), 0) /\ Put(u, i) = fs_iput(u, i) /\ Kept(u, Put(u, i))
        BY <1>1, <3>1, <3>7, <2>4, PutDone
      <3>9. z = [r EXCEPT !.s = fs_iput(u, i)]
        BY <1>2, <1>4, <1>5, <1>7, <2>4, <3>1, <3>4 DEF MakeNode
      <3>10. z.s = Put(u, i) /\ z.leak = r.leak
        BY <1>1, <3>8, <3>9
      <3>12. ~c.leak
        BY <1>5, <2>4, LostNothing
      <3>13. ~r.leak => Kept(s, Put(u, i))
        <4>1. Kept(r.s, u)
          BY <2>2, <3>5, <3>12, KeptOn
        <4>2. Kept(r.s, Put(u, i))
          BY <3>8, <4>1, KeptOn
        <4> QED
          BY <1>1, <4>2, KeptOn
      <3>11. Done(s, X, Put(u, i), 0)
        BY <1>1, <3>8, DoneOn
      <3> QED
        BY <1>4, <3>10, <3>11, <3>13
    <2> QED
      BY <2>3, <2>4
  <1> QED
    BY <1>6, <1>7

\* Did a call say truly whether it left something behind?
LEMMA CreateLeak ==
    ASSUME NEW s, NEW path, NEW kind
    PROVE  fs_create(s, path, kind).leak \in BOOLEAN
  <1>1. PICK q : q = fs_namei_parent(s, path)
    OBVIOUS
  <1>2. PICK look : look = dir_lookup(q.s, q.i, Last(path))
    OBVIOUS
  <1>3. PICK a : a = ialloc(look.s, kind)
    OBVIOUS
  <1>4. PICK link : link = dir_link(fs_iget(a.s, a.i), q.i, Last(path), a.i)
    OBVIOUS
  <1>5. PICK r : r = fs_create(s, path, kind)
    OBVIOUS
  <1>6. r = IF q.i = 0 THEN [s |-> q.s, i |-> 0, leak |-> FALSE]
            ELSE IF look.i # 0 THEN [s |-> fs_iput(look.s, q.i), i |-> look.i, leak |-> FALSE]
            ELSE IF a.i = 0 THEN [s |-> fs_iput(a.s, q.i), i |-> 0, leak |-> FALSE]
            ELSE IF link.ok THEN [s |-> fs_iput(link.s, q.i), i |-> a.i, leak |-> FALSE]
            ELSE [s |-> fs_iput(fs_iput(link.s, a.i), q.i), i |-> 0, leak |-> TRUE]
    BY <1>1, <1>2, <1>3, <1>4, <1>5 DEF fs_create
  <1>7. r.leak = TRUE \/ r.leak = FALSE
    BY <1>6
  <1> QED
    BY <1>5, <1>7

LEMMA MkdirLeak ==
    ASSUME NEW s, NEW path
    PROVE  fs_mkdir(s, path).leak \in BOOLEAN
  <1>1. PICK c : c = fs_create(s, path, "DIR")
    OBVIOUS
  <1>2. PICK r : r = fs_mkdir(s, path)
    OBVIOUS
  <1>3. CASE c.i = 0
    <2>1. r = [s |-> c.s, leak |-> c.leak]
      BY <1>1, <1>2, <1>3 DEF fs_mkdir
    <2>2. r.leak = c.leak
      BY <2>1
    <2> QED
      BY <1>1, <1>2, <2>2, CreateLeak
  <1>4. CASE c.i # 0
    <2>1. PICK z : r = [s |-> z, leak |-> FALSE]
      BY <1>1, <1>2, <1>4 DEF fs_mkdir
    <2>2. r.leak = FALSE
      BY <2>1
    <2> QED
      BY <1>2, <2>2
  <1> QED
    BY <1>3, <1>4

LEMMA DoneState ==
    ASSUME NEW s, NEW X, NEW t, NEW i, Done(s, X, t, i)
    PROVE  t \in State /\ Good(t, X)
  BY GoodParts DEF Done

LEMMA MakeNodeMakes ==
    ASSUME NEW s, NEW X, Good(s, X), NEW r \in Makes(s, X), NEW path \in Seq(Names), path # <<>>
    PROVE  MakeNode(r, path) \in Makes(s, X)
  <1>1. PICK z : z = MakeNode(r, path)
    OBVIOUS
  <1>2. Done(s, X, z.s, 0) /\ (~z.leak => Kept(s, z.s))
    BY <1>1, MakeNodeSound
  <1>3. z.s \in State
    BY <1>2, DoneState
  <1>4. r.leak \in BOOLEAN /\ r = [s |-> r.s, leak |-> r.leak]
    BY DEF Makes
  <1>5. \E t : \E b \in BOOLEAN : z = [s |-> t, leak |-> b]
    <2>1. PICK q : q = fs_namei(r.s, path)
      OBVIOUS
    <2>2. PICK c : c = fs_create(q.s, path, "DEV")
      OBVIOUS
    <2>3. CASE q.i # 0
      <3>1. z = [r EXCEPT !.s = fs_iput(q.s, q.i)]
        BY <1>1, <2>1, <2>3 DEF MakeNode
      <3>2. z = [s |-> fs_iput(q.s, q.i), leak |-> r.leak]
        BY <1>4, <3>1
      <3> QED
        BY <1>4, <3>2
    <2>4. CASE q.i = 0 /\ c.i = 0
      <3>1. z = [s |-> c.s, leak |-> r.leak \/ c.leak]
        BY <1>1, <2>1, <2>2, <2>4 DEF MakeNode
      <3>2. PICK b \in BOOLEAN : b = (r.leak \/ c.leak)
        OBVIOUS
      <3>3. z = [s |-> c.s, leak |-> b]
        BY <3>1, <3>2
      <3> QED
        BY <3>3
    <2>5. CASE q.i = 0 /\ c.i # 0
      <3>1. PICK u : u = fs_iput(fs_iupdate(c.s, c.i), c.i)
        OBVIOUS
      <3>2. z = [r EXCEPT !.s = u]
        BY <1>1, <2>1, <2>2, <2>5, <3>1 DEF MakeNode
      <3>3. z = [s |-> u, leak |-> r.leak]
        BY <1>4, <3>2
      <3> QED
        BY <1>4, <3>3
    <2> QED
      BY <2>3, <2>4, <2>5
  <1>6. PICK t : \E b \in BOOLEAN : z = [s |-> t, leak |-> b]
    BY <1>5
  <1>7. z \in [s : State, leak : BOOLEAN]
    BY <1>3, <1>6
  <1> QED
    BY <1>1, <1>2, <1>7 DEF Makes

\* dev_create_nodes()
LEMMA NodesSound ==
    ASSUME NEW s, NEW X, Good(s, X)
    PROVE  dev_create_nodes(s) \in Makes(s, X)
  <1>1. PICK N \in Nat : N = Len(DevNodes)
    <2>1. DevNodes \in Seq(Seq(Names) \ {<<>>})
      BY MiniFsAssumption
    <2>2. Len(DevNodes) \in Nat
      BY <2>1
    <2> QED
      BY <2>2
  <1>2. PICK q : q = fs_namei(s, DevDir)
    OBVIOUS
  <1>3. PICK r0 : r0 = IF q.i = 0 THEN fs_mkdir(q.s, DevDir)
                       ELSE [s |-> fs_iput(q.s, q.i), leak |-> FALSE]
    OBVIOUS
  <1>4. DevDir \in Seq(Names) /\ DevDir # <<>>
    BY MiniFsAssumption
  <1>5. r0 \in Makes(s, X)
    <2>1. /\ q.i # 0 => fs_iput(q.s, q.i) = s
          /\ q.i = 0 => q.s = s
      BY <1>2, <1>4, NameiHolds
    <2>2. CASE q.i # 0
      <3>1. r0 = [s |-> s, leak |-> FALSE]
        BY <1>3, <2>1, <2>2
      <3>2. Done(s, X, s, 0) /\ s \in State /\ Kept(s, s)
        BY DoneSelf, KeptSelf, GoodParts
      <3> QED
        BY <3>1, <3>2 DEF Makes
    <2>3. CASE q.i = 0
      <3>1. PICK r : r = fs_mkdir(s, DevDir)
        OBVIOUS
      <3>2. r0 = r
        BY <1>3, <2>1, <2>3, <3>1
      <3>3. Done(s, X, r.s, 0) /\ r.leak \in BOOLEAN /\ (~r.leak => Kept(s, r.s))
        BY <1>4, <3>1, MkdirCall, MkdirLeak
      <3>4. r.s \in State
        BY <3>3, DoneState
      <3>5. \E t, b : r = [s |-> t, leak |-> b]
        BY <3>1 DEF fs_mkdir
      <3>6. r \in [s : State, leak : BOOLEAN]
        BY <3>3, <3>4, <3>5
      <3> QED
        BY <3>2, <3>3, <3>6 DEF Makes
    <2> QED
      BY <2>2, <2>3
  <1> DEFINE U == Makes(s, X)
             V == [k \in 0..N |-> U]
             F == [k \in 1..N |-> [r \in U |-> MakeNode(r, DevNodes[k])]]
             G(f) == [n \in 0..N |-> IF n = 0 THEN r0 ELSE MakeNode(f[n - 1], DevNodes[n])]
             g == CHOOSE f : f = G(f)
  <1>6. r0 \in U
    BY <1>5
  <1>7. \A k \in 1..N : \A r \in U : MakeNode(r, DevNodes[k]) \in U
    <2> SUFFICES ASSUME NEW k \in 1..N, NEW r \in U
                 PROVE  MakeNode(r, DevNodes[k]) \in U
      OBVIOUS
    <2>1. DevNodes[k] \in Seq(Names) /\ DevNodes[k] # <<>>
      <3>1. DevNodes \in Seq(Seq(Names) \ {<<>>}) /\ k \in 1..Len(DevNodes)
        BY <1>1, MiniFsAssumption
      <3>2. DevNodes[k] \in Seq(Names) \ {<<>>}
        BY <3>1
      <3> QED
        BY <3>2
    <2> QED
      BY <2>1, MakeNodeMakes
  <1> HIDE DEF U
  <1>8. \E f : f = G(f)
    <2>1. \A k \in 1..N : k \in 0..N /\ k - 1 \in 0..N
      OBVIOUS
    <2>2. 0 \in 0..N
      OBVIOUS
    <2>3. r0 \in V[0]
      BY <1>6, <2>2
    <2>4. Remains(N, V, F)
      BY <1>7, <2>1 DEF Remains
    <2>5. PICK f : Iterates(f, N, r0, F) /\ Within(f, N, V)
      <3> HIDE DEF F, V
      <3> QED
        BY <2>3, <2>4, Recursion
    <2>6. \A k \in 0..N : f[k] \in U
      BY <2>5 DEF Within
    <2>7. \A k \in 0..N : k # 0 => F[k][f[k - 1]] = MakeNode(f[k - 1], DevNodes[k])
      <3>1. \A k \in 0..N : k # 0 => k \in 1..N
        OBVIOUS
      <3> QED
        BY <2>1, <2>6, <3>1
    <2> HIDE DEF F
    <2>8. f = G(f)
      BY <2>5, <2>7 DEF Iterates
    <2> HIDE DEF G
    <2> QED
      BY <2>8
  <1>9. g = G(g)
    BY <1>8
  <1>10. dev_create_nodes(s) = g[N]
    BY <1>1, <1>2, <1>3 DEF dev_create_nodes
  <1> HIDE DEF g
  <1>11. /\ g[0] = r0
         /\ \A k \in 1..N : g[k] = MakeNode(g[k - 1], DevNodes[k])
    <2>1. 0 \in 0..N /\ \A k \in 1..N : k \in 0..N /\ k # 0
      OBVIOUS
    <2> QED
      BY <1>9, <2>1
  <1>12. \A k \in 0..N : g[k] \in V[k]
    <2>1. \A k \in 1..N : k \in 0..N /\ k - 1 \in 0..N
      OBVIOUS
    <2>2. 0 \in 0..N
      OBVIOUS
    <2>3. g[0] \in V[0]
      BY <1>6, <1>11, <2>2
    <2>4. \A k \in 1..N : g[k - 1] \in V[k - 1] => g[k] \in V[k]
      BY <1>7, <1>11, <2>1
    <2> HIDE DEF V
    <2> QED
      BY <2>3, <2>4, Induct
  <1>13. g[N] \in U
    BY <1>12
  <1> QED
    BY <1>10, <1>13 DEF U

-----------------------------------------------------------------------------
(* The inductive invariant                                                 *)

\* The kernel's memory, when the writes it has passed on lead to disk d.
Memory(d) == [fl |-> free_list, ic |-> icache, d |-> d, log |-> todo, buf |-> "kept"]
\* A kernel that has just booted sees what is on the disk.
Booted(d) ==
    [fl |-> d.free_list, ic |-> [i \in Inodes |-> NoSlot], d |-> d, log |-> <<>>,
     buf |-> "kept"]
\* Until a crash, a failed create or a rename below itself, no inode is lost.
Complete(s) == crashes = 0 /\ ~leaked => Whole(s, {})
\* A running kernel has no blocks in its hands; after a crash some may be lost.
Runs ==
    /\ \A i \in Inodes : icache[i].ref = fds[i]
    /\ \E d, X : /\ Good(Memory(d), X) /\ Trail(disk, todo, d) /\ (crashes = 0 => X = {})
                 /\ Complete(Memory(d))
Stopped ==
    /\ free_list = 0 /\ todo = <<>>
    /\ icache = [i \in Inodes |-> NoSlot] /\ fds = [i \in Inodes |-> 0]
    /\ crashes = 0 => Owned(OnDisk(disk), Have(Live(disk)), {})
    /\ Complete(Booted(disk))
Counters ==
    /\ up \in BOOLEAN /\ leaked \in BOOLEAN /\ refused \in BOOLEAN
    /\ fds \in [Inodes -> 0..MAXOPEN]
    /\ crashes \in 0..MaxCrashes /\ writes \in 0..MaxWrites
FsInv ==
    /\ Counters /\ Safe(disk)
    /\ up => Runs
    /\ ~up => Stopped
\* Until a buffer that was reused has been used.
IInv == stolen \in BOOLEAN /\ (~stolen => FsInv)

LEMMA NoTrail ==
    ASSUME NEW d0, NEW d, Trail(d0, <<>>, d)
    PROVE  d = d0
  <1>1. Len(<<>>) = 0
    OBVIOUS
  <1> QED
    BY <1>1 DEF Trail

LEMMA EmptyTrail ==
    ASSUME NEW d \in Disk
    PROVE  Trail(d, <<>>, d)
  <1> DEFINE ds == [k \in 0..0 |-> d]
  <1>1. Len(<<>>) = 0 /\ 1..0 = {} /\ 0 \in 0..0
    OBVIOUS
  <1>2. ds \in [0..0 -> Disk] /\ ds[0] = d
    OBVIOUS
  <1> HIDE DEF ds
  <1> QED
    BY <1>1, <1>2 DEF Trail

\* What a call starts from.
LEMMA CallFrom ==
    ASSUME FsInv, Idle
    PROVE  \E X : /\ Good(Mem(FALSE), X) /\ (crashes = 0 => X = {}) /\ Complete(Mem(FALSE))
                  /\ \A i \in Inodes : Mem(FALSE).ic[i].ref = fds[i]
  <1>1. Runs /\ todo = <<>>
    BY DEF FsInv, Idle
  <1>2. PICK d, X : /\ Good(Memory(d), X) /\ Trail(disk, todo, d) /\ (crashes = 0 => X = {})
                    /\ Complete(Memory(d))
    BY <1>1 DEF Runs
  <1>3. d = disk
    BY <1>1, <1>2, NoTrail
  <1>4. Memory(d) = Mem(FALSE)
    BY <1>1, <1>3 DEF Memory, Mem
  <1>5. Mem(FALSE).ic = icache
    BY DEF Mem
  <1> QED
    BY <1>1, <1>2, <1>4, <1>5 DEF Runs

\* What a call leaves.
LEMMA CallTo ==
    ASSUME FsInv, NEW s, NEW X, s.log = <<>>, s.d = disk, crashes = 0 => X = {},
           NEW t, Good(t, X), Leads(s, t), \A i \in Inodes : t.ic[i].ref = fds'[i],
           free_list' = t.fl, icache' = t.ic, todo' = t.log, up', disk' = disk,
           crashes' = crashes, Counters', crashes = 0 /\ ~leaked' => Whole(t, {})
    PROVE  FsInv'
  <1>1. disk \in Disk
    BY DEF FsInv, Safe
  <1>2. Trail(disk, s.log, s.d)
    BY <1>1, EmptyTrail
  <1>3. Trail(disk, t.log, t.d)
    BY <1>1, <1>2 DEF Leads
  <1>4. t = [fl |-> t.fl, ic |-> t.ic, d |-> t.d, log |-> t.log, buf |-> "kept"]
    BY GoodParts, StateParts
  <1>5. t = [fl |-> free_list', ic |-> icache', d |-> t.d, log |-> todo', buf |-> "kept"]
    BY <1>4
  <1>6. /\ Good([fl |-> free_list', ic |-> icache', d |-> t.d, log |-> todo', buf |-> "kept"], X)
        /\ crashes' = 0 /\ ~leaked' => Whole([fl |-> free_list', ic |-> icache', d |-> t.d, log |-> todo', buf |-> "kept"], {})
    BY <1>5
  <1>7. Trail(disk', todo', t.d)
    BY <1>3
  <1>8. \A i \in Inodes : icache'[i].ref = fds'[i]
    OBVIOUS
  <1>9. Runs'
    BY <1>6, <1>7, <1>8 DEF Runs, Memory, Complete
  <1>10. Safe(disk')
    BY DEF FsInv
  <1> QED
    BY <1>9, <1>10 DEF FsInv

LEMMA MemParts ==
    Mem(FALSE).fl = free_list /\ Mem(FALSE).ic = icache /\ Mem(FALSE).d = disk /\ Mem(FALSE).log = <<>>
  BY DEF Mem

LEMMA ReturnTo ==
    ASSUME FsInv, Idle, NEW X, Good(Mem(FALSE), X), crashes = 0 => X = {},
           NEW t, Good(t, X), Leads(Mem(FALSE), t), \A i \in Inodes : t.ic[i].ref = fds'[i],
           fds' \in [Inodes -> 0..MAXOPEN], leaked' \in BOOLEAN, refused' \in BOOLEAN,
           crashes' = crashes, Return(FALSE, t), crashes = 0 /\ ~leaked' => Whole(t, {})
    PROVE  FsInv'
  <1>1. /\ free_list' = t.fl /\ icache' = t.ic /\ todo' = t.log /\ disk' = disk /\ up' = up
        /\ writes' = writes + (IF t.log = <<>> THEN 0 ELSE 1) /\ writes' <= MaxWrites
    BY DEF Return
  <1>2. up'
    BY <1>1 DEF Idle
  <1>3. Counters'
    <2>1. writes' \in 0..MaxWrites
      <3>1. PICK m \in Nat : m = MaxWrites
        BY MiniFsAssumption
      <3>2. PICK w \in 0..m : w = writes
        BY <3>1 DEF FsInv, Counters
      <3>3. PICK n \in {0, 1} : writes' = w + n /\ w + n <= m
        BY <1>1, <3>1, <3>2
      <3>4. w + n \in 0..m
        BY <3>3
      <3> QED
        BY <3>1, <3>3, <3>4
    <2> QED
      BY <1>1, <1>2, <2>1 DEF FsInv, Counters
  <1> QED
    BY <1>1, <1>2, <1>3, MemParts, CallTo

\* A call that loses no inode, unless it says so.
LEMMA StaysComplete ==
    ASSUME Complete(Mem(FALSE)), NEW b, leaked' = (leaked \/ b), NEW t, ~b => Kept(Mem(FALSE), t)
    PROVE  crashes = 0 /\ ~leaked' => Whole(t, {})
  BY DEF Complete, Kept

LEMMA KeptComplete ==
    ASSUME Complete(Mem(FALSE)), leaked' = leaked, NEW t, Kept(Mem(FALSE), t)
    PROVE  crashes = 0 /\ ~leaked' => Whole(t, {})
  BY DEF Complete, Kept

\* A call that opens and closes nothing.
LEMMA DoneReturns ==
    ASSUME FsInv, Idle, NEW X, Good(Mem(FALSE), X), crashes = 0 => X = {},
           \A i \in Inodes : Mem(FALSE).ic[i].ref = fds[i],
           NEW t, Done(Mem(FALSE), X, t, 0), UNCHANGED <<fds, crashes>>,
           leaked' \in BOOLEAN, refused' \in BOOLEAN, Return(FALSE, t),
           crashes = 0 /\ ~leaked' => Whole(t, {})
    PROVE  FsInv'
  <1>1. Good(t, X) /\ Leads(Mem(FALSE), t) /\ Up(Mem(FALSE), t, 0)
    BY DEF Done
  <1>2. \A i \in Inodes : t.ic[i].ref = fds'[i]
    <2>1. PICK m : m = Mem(FALSE)
      OBVIOUS
    <2>2. \A i \in Inodes : m.ic[i].ref = fds[i] /\ m.ic[i].ref \in Nat /\ i # 0
      BY <2>1, RefNat
    <2>3. Up(m, t, 0)
      BY <1>1, <2>1
    <2>4. \A i \in Inodes : t.ic[i].ref = m.ic[i].ref
      BY <2>2, <2>3 DEF Up, Hit
    <2> QED
      BY <2>2, <2>4
  <1>3. fds' \in [Inodes -> 0..MAXOPEN]
    BY DEF FsInv, Counters
  <1> QED
    BY <1>1, <1>2, <1>3, ReturnTo

LEMMA OpenFilesBound ==
    ASSUME fds \in [Inodes -> Nat]
    PROVE  OpenFiles \in Nat /\ \A i \in Inodes : fds[i] <= OpenFiles
  <1>1. PICK N \in Nat : N = NINODES
    BY Sizes
  <1> DEFINE U(k) == {v \in Nat : \A i \in 1..k : fds[i] <= v}
             V == [k \in 0..N |-> U(k)]
             F == [k \in 1..N |-> [v \in U(k - 1) |-> v + fds[k]]]
             G(f) == [k \in 0..N |-> IF k = 0 THEN 0 ELSE f[k - 1] + fds[k]]
             g == CHOOSE f : f = G(f)
  <1>2. 0 \in U(0)
    OBVIOUS
  <1>3. ASSUME NEW k \in 1..N, NEW v \in U(k - 1)
        PROVE  v + fds[k] \in U(k)
    <2>1. fds[k] \in Nat /\ \A i \in 1..N : fds[i] \in Nat
      BY <1>1 DEF Inodes
    <2>2. \A i \in 1..k : i \in 1..N /\ (i = k \/ i \in 1..(k - 1))
      OBVIOUS
    <2>3. v \in Nat /\ \A i \in 1..(k - 1) : fds[i] <= v
      OBVIOUS
    <2>4. \A i \in 1..k : fds[i] <= v + fds[k]
      BY <2>1, <2>2, <2>3
    <2> QED
      BY <2>1, <2>3, <2>4
  <1> HIDE DEF U
  <1>4. \E f : f = G(f)
    <2>1. \A k \in 1..N : k \in 0..N /\ k - 1 \in 0..N
      OBVIOUS
    <2>2. 0 \in 0..N
      OBVIOUS
    <2>3. 0 \in V[0]
      BY <1>2, <2>2
    <2>4. Remains(N, V, F)
      BY <1>3, <2>1 DEF Remains
    <2>5. PICK f : Iterates(f, N, 0, F) /\ Within(f, N, V)
      <3> HIDE DEF F, V
      <3> QED
        BY <2>3, <2>4, Recursion
    <2>6. \A k \in 0..N : f[k] \in U(k)
      BY <2>5 DEF Within
    <2>7. \A k \in 0..N : k # 0 => F[k][f[k - 1]] = f[k - 1] + fds[k]
      <3>1. \A k \in 0..N : k # 0 => k \in 1..N
        OBVIOUS
      <3> QED
        BY <2>1, <2>6, <3>1
    <2> HIDE DEF F
    <2>8. f = G(f)
      BY <2>5, <2>7 DEF Iterates
    <2> HIDE DEF G
    <2> QED
      BY <2>8
  <1>5. g = G(g)
    BY <1>4
  <1>6. OpenFiles = g[N]
    BY <1>1 DEF OpenFiles
  <1> HIDE DEF g
  <1>7. /\ g[0] = 0
        /\ \A k \in 1..N : g[k] = g[k - 1] + fds[k]
    <2>1. 0 \in 0..N /\ \A k \in 1..N : k \in 0..N /\ k # 0
      OBVIOUS
    <2> QED
      BY <1>5, <2>1
  <1>8. \A k \in 0..N : g[k] \in V[k]
    <2>1. \A k \in 1..N : k \in 0..N /\ k - 1 \in 0..N
      OBVIOUS
    <2>2. 0 \in 0..N
      OBVIOUS
    <2>3. g[0] \in V[0]
      BY <1>2, <1>7, <2>2
    <2>4. \A k \in 1..N : g[k - 1] \in V[k - 1] => g[k] \in V[k]
      BY <1>3, <1>7, <2>1
    <2> HIDE DEF V
    <2> QED
      BY <2>3, <2>4, Induct
  <1>9. g[N] \in U(N)
    BY <1>8
  <1> QED
    BY <1>1, <1>6, <1>9 DEF U, Inodes

-----------------------------------------------------------------------------
(* The calls                                                               *)

LEMMA PathParts ==
    ASSUME NEW path \in Paths
    PROVE  path \in Seq(Names) /\ path # <<>>
  BY MiniFsAssumption

LEMMA RenameLeak ==
    ASSUME NEW s, NEW old, NEW new
    PROVE  fs_rename(s, old, new).leak \in BOOLEAN
  <1> DEFINE ip == fs_namei(s, old)
             odp == fs_namei_parent(ip.s, old)
             ndp == fs_namei_parent(odp.s, new)
             link == dir_link(dir_unlink(ndp.s, odp.i, Last(old)), ndp.i, Last(new), ip.i)
  <1>1. fs_rename(s, old, new).leak =
          IF ip.i = 0 THEN FALSE ELSE IF odp.i = 0 \/ ndp.i = 0 THEN FALSE
          ELSE (~link.ok \/ IsPrefix(old, Front(new)))
    BY DEF fs_rename
  <1> HIDE DEF ip, odp, ndp, link
  <1>2. (~link.ok \/ IsPrefix(old, Front(new))) \in BOOLEAN
    OBVIOUS
  <1> QED
    BY <1>1, <1>2

LEMMA RmdirRefuses ==
    ASSUME NEW s, NEW path
    PROVE  fs_rmdir(s, path).refused \in BOOLEAN
  <1> DEFINE ip == fs_namei(s, path)
             r == fs_unlink(fs_iput(ip.s, ip.i), path)
  <1>1. fs_rmdir(s, path).refused =
          IF ip.i = 0 THEN FALSE
          ELSE IF ip.s.ic[ip.i].di.type = "DIR" /\ EntryCount(ip.s, ip.i) = 0 THEN ~r.ok
          ELSE FALSE
    BY DEF fs_rmdir
  <1> HIDE DEF ip, r
  <1>2. (~r.ok) \in BOOLEAN
    OBVIOUS
  <1> QED
    BY <1>1, <1>2

LEMMA UnlinkKeeps ==
    ASSUME FsInv, NEW path \in Paths, Unlink(FALSE, path)
    PROVE  FsInv'
  <1>1. /\ Idle /\ Return(FALSE, fs_unlink(Mem(FALSE), path).s) /\ refused' = FALSE
        /\ UNCHANGED <<fds, crashes>> /\ leaked' = leaked
    BY DEF Unlink, Completes
  <1>2. PICK X : /\ Good(Mem(FALSE), X) /\ (crashes = 0 => X = {}) /\ Complete(Mem(FALSE))
                 /\ \A i \in Inodes : Mem(FALSE).ic[i].ref = fds[i]
    BY <1>1, CallFrom
  <1>3. PICK t : t = fs_unlink(Mem(FALSE), path).s
    OBVIOUS
  <1>4. Done(Mem(FALSE), X, t, 0) /\ Kept(Mem(FALSE), t)
    BY <1>2, <1>3, PathParts, UnlinkCall
  <1>6. crashes = 0 /\ ~leaked' => Whole(t, {})
    BY <1>1, <1>2, <1>4, KeptComplete
  <1>5. leaked' \in BOOLEAN /\ refused' \in BOOLEAN
    BY <1>1 DEF FsInv, Counters
  <1> QED
    BY <1>1, <1>2, <1>3, <1>4, <1>5, <1>6, DoneReturns

LEMMA RenameKeeps ==
    ASSUME FsInv, NEW old \in Paths, NEW new \in Paths, Rename(FALSE, old, new)
    PROVE  FsInv'
  <1>1. /\ Idle /\ refused' = FALSE /\ UNCHANGED <<fds, crashes>>
        /\ \E r \in {fs_rename(Mem(FALSE), old, new)} : Return(FALSE, r.s) /\ leaked' = (leaked \/ r.leak)
    BY DEF Rename, Completes
  <1>2. PICK X : /\ Good(Mem(FALSE), X) /\ (crashes = 0 => X = {}) /\ Complete(Mem(FALSE))
                 /\ \A i \in Inodes : Mem(FALSE).ic[i].ref = fds[i]
    BY <1>1, CallFrom
  <1>3. PICK r : r = fs_rename(Mem(FALSE), old, new)
    OBVIOUS
  <1>4. Done(Mem(FALSE), X, r.s, 0) /\ (~r.leak => Kept(Mem(FALSE), r.s))
    BY <1>2, <1>3, PathParts, RenameCall
  <1>5. Return(FALSE, r.s) /\ leaked' = (leaked \/ r.leak)
    BY <1>1, <1>3
  <1>6. leaked' \in BOOLEAN /\ refused' \in BOOLEAN
    BY <1>1, <1>5
  <1>7. crashes = 0 /\ ~leaked' => Whole(r.s, {})
    BY <1>2, <1>4, <1>5, StaysComplete
  <1> QED
    BY <1>1, <1>2, <1>4, <1>5, <1>6, <1>7, DoneReturns

LEMMA MkdirKeeps ==
    ASSUME FsInv, NEW path \in Paths, Mkdir(FALSE, path)
    PROVE  FsInv'
  <1>1. /\ Idle /\ refused' = FALSE /\ UNCHANGED <<fds, crashes>>
        /\ \E r \in {fs_mkdir(Mem(FALSE), path)} : Return(FALSE, r.s) /\ leaked' = (leaked \/ r.leak)
    BY DEF Mkdir, Completes
  <1>2. PICK X : /\ Good(Mem(FALSE), X) /\ (crashes = 0 => X = {}) /\ Complete(Mem(FALSE))
                 /\ \A i \in Inodes : Mem(FALSE).ic[i].ref = fds[i]
    BY <1>1, CallFrom
  <1>3. PICK r : r = fs_mkdir(Mem(FALSE), path)
    OBVIOUS
  <1>4. Done(Mem(FALSE), X, r.s, 0) /\ (~r.leak => Kept(Mem(FALSE), r.s))
    BY <1>2, <1>3, PathParts, MkdirCall
  <1>5. Return(FALSE, r.s) /\ leaked' = (leaked \/ r.leak)
    BY <1>1, <1>3
  <1>6. leaked' \in BOOLEAN /\ refused' \in BOOLEAN
    BY <1>1, <1>5
  <1>7. crashes = 0 /\ ~leaked' => Whole(r.s, {})
    BY <1>2, <1>4, <1>5, StaysComplete
  <1> QED
    BY <1>1, <1>2, <1>4, <1>5, <1>6, <1>7, DoneReturns

LEMMA RmdirKeeps ==
    ASSUME FsInv, NEW path \in Paths, Rmdir(FALSE, path)
    PROVE  FsInv'
  <1>1. /\ Idle /\ UNCHANGED <<fds, crashes>> /\ leaked' = leaked
        /\ \E r \in {fs_rmdir(Mem(FALSE), path)} : Return(FALSE, r.s) /\ refused' = r.refused
    BY DEF Rmdir
  <1>2. PICK X : /\ Good(Mem(FALSE), X) /\ (crashes = 0 => X = {}) /\ Complete(Mem(FALSE))
                 /\ \A i \in Inodes : Mem(FALSE).ic[i].ref = fds[i]
    BY <1>1, CallFrom
  <1>3. PICK r : r = fs_rmdir(Mem(FALSE), path)
    OBVIOUS
  <1>4. Done(Mem(FALSE), X, r.s, 0) /\ Kept(Mem(FALSE), r.s)
    BY <1>2, <1>3, PathParts, RmdirCall
  <1>5. Return(FALSE, r.s) /\ refused' = r.refused
    BY <1>1, <1>3
  <1>6. leaked' \in BOOLEAN
    BY <1>1 DEF FsInv, Counters
  <1>7. refused' \in BOOLEAN
    BY <1>3, <1>5, RmdirRefuses
  <1>8. crashes = 0 /\ ~leaked' => Whole(r.s, {})
    BY <1>1, <1>2, <1>4, KeptComplete
  <1> QED
    BY <1>1, <1>2, <1>4, <1>5, <1>6, <1>7, <1>8, DoneReturns

LEMMA WriteFileKeeps ==
    ASSUME FsInv, ~WriteDirs, NEW i \in Inodes, NEW n \in Lengths,
           NEW off \in Offsets \cup {icache[i].di.size}, WriteFile(FALSE, i, off, n)
    PROVE  FsInv'
  <1>1. /\ Idle /\ refused' = FALSE /\ UNCHANGED <<fds, crashes>> /\ leaked' = leaked
        /\ fds[i] > 0 /\ icache[i].di.type = "FILE"
        /\ Return(FALSE, fs_write(Mem(FALSE), i, off, [k \in 1..n |-> Data]).s)
    BY DEF WriteFile, Completes
  <1>2. PICK X : /\ Good(Mem(FALSE), X) /\ (crashes = 0 => X = {}) /\ Complete(Mem(FALSE))
                 /\ \A j \in Inodes : Mem(FALSE).ic[j].ref = fds[j]
    BY <1>1, CallFrom
  <1>3. n \in Nat /\ n > 0
    <2>1. n \in Nat /\ n # 0
      BY MiniFsAssumption
    <2> QED
      BY <2>1
  <1>4. PICK cells : cells = [k \in 1..n |-> Data]
    OBVIOUS
  <1>5. cells \in Seq(Cell) /\ cells # <<>>
    <2>1. cells \in [1..n -> Cell]
      BY <1>4, Sizes
    <2>2. cells \in Seq(Cell)
      BY <1>3, <2>1
    <2>3. Len(cells) = n
      <3>1. DOMAIN cells = 1..n
        BY <1>4
      <3> QED
        BY <1>3, <2>2, <3>1
    <2> QED
      BY <1>3, <2>2, <2>3
  <1>6. off \in Nat
    <2>1. Mem(FALSE) \in State /\ Mem(FALSE).ic = icache
      BY <1>2, GoodParts, MemParts
    <2>2. icache[i].di \in DiskInode
      BY <2>1, StateParts
    <2>3. icache[i].di.size \in Nat
      BY <2>2, InodeParts
    <2>4. Offsets \subseteq Nat
      BY MiniFsAssumption
    <2> QED
      BY <2>3, <2>4
  <1>7. Mem(FALSE).ic[i].ref > 0 /\ Mem(FALSE).ic[i].di.type # "DIR"
    <2>1. Mem(FALSE).ic[i].ref > 0
      BY <1>1, <1>2
    <2>2. Mem(FALSE).ic[i].di.type = "FILE"
      BY <1>1, MemParts
    <2> QED
      BY <2>1, <2>2
  <1>8. PICK t : t = fs_write(Mem(FALSE), i, off, cells).s
    OBVIOUS
  <1>9. Done(Mem(FALSE), X, t, 0) /\ Kept(Mem(FALSE), t)
    BY <1>2, <1>5, <1>6, <1>7, <1>8, WriteDone
  <1>10. Return(FALSE, t)
    BY <1>1, <1>4, <1>8
  <1>11. leaked' \in BOOLEAN /\ refused' \in BOOLEAN
    BY <1>1 DEF FsInv, Counters
  <1>12. crashes = 0 /\ ~leaked' => Whole(t, {})
    BY <1>1, <1>2, <1>9, KeptComplete
  <1> QED
    BY <1>1, <1>2, <1>9, <1>10, <1>11, <1>12, DoneReturns

LEMMA CloseKeeps ==
    ASSUME FsInv, NEW i \in Inodes, Close(FALSE, i)
    PROVE  FsInv'
  <1>1. /\ Idle /\ refused' = FALSE /\ crashes' = crashes /\ leaked' = leaked
        /\ fds[i] > 0 /\ fds' = [fds EXCEPT ![i] = @ - 1]
        /\ Return(FALSE, fs_iput(Mem(FALSE), i))
    BY DEF Close, Completes
  <1>2. PICK X : /\ Good(Mem(FALSE), X) /\ (crashes = 0 => X = {}) /\ Complete(Mem(FALSE))
                 /\ \A j \in Inodes : Mem(FALSE).ic[j].ref = fds[j]
    BY <1>1, CallFrom
  <1>3. PICK t : t = fs_iput(Mem(FALSE), i)
    OBVIOUS
  <1>4. Good(t, X) /\ Leads(Mem(FALSE), t) /\ Down(Mem(FALSE), t, i)
    BY <1>1, <1>2, <1>3, IputSound DEF Putted
  <1>5. PICK M \in Nat : M = MAXOPEN
    BY MiniFsAssumption
  <1>6. fds \in [Inodes -> 0..M]
    BY <1>5 DEF FsInv, Counters
  <1>7. fds' \in [Inodes -> 0..M]
    <2>1. fds[i] - 1 \in 0..M
      BY <1>1, <1>6
    <2> QED
      BY <1>1, <1>6, <2>1
  <1>8. \A j \in Inodes : t.ic[j].ref = fds'[j]
    <2>1. \A j \in Inodes : fds[j] \in Nat
      BY <1>6
    <2>2. PICK m : m = Mem(FALSE)
      OBVIOUS
    <2>3. \A j \in Inodes : m.ic[j].ref = fds[j]
      BY <1>2, <2>2
    <2>4. Down(m, t, i)
      BY <1>4, <2>2
    <2>5. \A j \in Inodes : t.ic[j].ref = fds[j] - Hit(j, i)
      BY <2>3, <2>4 DEF Down
    <2>6. fds' = [fds EXCEPT ![i] = fds[i] - 1]
      BY <1>1
    <2> QED
      BY <1>6, <2>1, <2>5, <2>6 DEF Hit
  <1>9. leaked' \in BOOLEAN /\ refused' \in BOOLEAN
    BY <1>1 DEF FsInv, Counters
  <1>10. crashes = 0 /\ ~leaked' => Whole(t, {})
    <2>1. Kept(Mem(FALSE), t)
      BY <1>1, <1>2, <1>3, IputKept
    <2> QED
      BY <1>1, <1>2, <2>1, KeptComplete
  <1> QED
    BY <1>1, <1>2, <1>3, <1>4, <1>5, <1>7, <1>8, <1>9, <1>10, ReturnTo

LEMMA OpenKeeps ==
    ASSUME FsInv, NEW path \in Paths, NEW create \in BOOLEAN, NEW trunc \in BOOLEAN,
           Open(FALSE, path, create, trunc)
    PROVE  FsInv'
  <1>1. PICK q : q = fs_namei(Mem(FALSE), path)
    OBVIOUS
  <1>2. PICK c : c = IF q.i = 0 /\ create THEN fs_create(q.s, path, "FILE")
                     ELSE [s |-> q.s, i |-> q.i, leak |-> FALSE]
    OBVIOUS
  <1>3. PICK u : u = IF trunc /\ c.s.ic[c.i].di.type = "FILE"
                     THEN fs_iupdate([c.s EXCEPT !.ic[c.i].di.size = 0], c.i) ELSE c.s
    OBVIOUS
  <1>4. /\ Idle /\ refused' = FALSE /\ crashes' = crashes
        /\ leaked' = (leaked \/ c.leak)
        /\ \/ c.i = 0 /\ Return(FALSE, c.s) /\ UNCHANGED fds
           \/ c.i # 0 /\ Return(FALSE, fs_iput(u, c.i)) /\ UNCHANGED fds
           \/ /\ c.i # 0 /\ OpenFiles < MAXOPEN /\ Return(FALSE, u)
              /\ fds' = [fds EXCEPT ![c.i] = @ + 1]
    BY <1>1, <1>2, <1>3, Zenon DEF Open, Completes
  <1>5. PICK X : /\ Good(Mem(FALSE), X) /\ (crashes = 0 => X = {}) /\ Complete(Mem(FALSE))
                 /\ \A j \in Inodes : Mem(FALSE).ic[j].ref = fds[j]
    BY <1>4, CallFrom
  <1>6. path \in Seq(Names) /\ path # <<>>
    BY PathParts
  <1>7. /\ q.i \in {0} \cup Inodes /\ Done(Mem(FALSE), X, q.s, q.i) /\ (q.i = 0 => q.s = Mem(FALSE))
        /\ Kept(Mem(FALSE), q.s)
    <2>1. PICK m : m = Mem(FALSE)
      OBVIOUS
    <2>2. Good(m, X) /\ q = fs_namei(m, path)
      BY <1>1, <1>5, <2>1
    <2>3. /\ q.i \in {0} \cup Inodes /\ Done(m, X, q.s, q.i) /\ (q.i = 0 => q.s = m)
          /\ Kept(m, q.s)
      BY <1>6, <2>2, NameiHolds
    <2> QED
      BY <2>1, <2>3
  <1>8. Created(Mem(FALSE), X, c)
    <2>1. CASE q.i = 0 /\ create
      <3>1. c = fs_create(Mem(FALSE), path, "FILE")
        BY <1>2, <1>7, <2>1
      <3> QED
        BY <1>5, <1>6, <3>1, CreateSound
    <2>2. CASE ~(q.i = 0 /\ create)
      <3>1. c.s = q.s /\ c.i = q.i
        BY <1>2, <2>2
      <3> QED
        BY <1>7, <3>1 DEF Created
    <2> QED
      BY <2>1, <2>2
  <1>9. Done(Mem(FALSE), X, c.s, c.i) /\ c.i \in {0} \cup Inodes /\ (~c.leak => Kept(Mem(FALSE), c.s))
    BY <1>8 DEF Created
  <1>10. leaked' \in BOOLEAN /\ refused' \in BOOLEAN
    BY <1>4
  <1>11. CASE c.i = 0
    <2>1. Return(FALSE, c.s) /\ UNCHANGED <<fds, crashes>> /\ Done(Mem(FALSE), X, c.s, 0)
      BY <1>4, <1>9, <1>11
    <2>2. crashes = 0 /\ ~leaked' => Whole(c.s, {})
      BY <1>4, <1>5, <1>9, StaysComplete
    <2> QED
      BY <1>4, <1>5, <1>10, <2>1, <2>2, DoneReturns
  <1>12. ASSUME c.i # 0
         PROVE  Done(Mem(FALSE), X, u, c.i) /\ (~c.leak => Kept(Mem(FALSE), u))
    <2>1. PICK i \in Inodes : i = c.i
      BY <1>9, <1>12
    <2>2. Holds(Mem(FALSE), X, c.s, i, 0, 0)
      BY <1>5, <1>9, <2>1, DoneHolds
    <2>3. c.s.ic[i].ref > 0
      BY <2>2, HoldsRef
    <2>4. Good(c.s, X)
      BY <2>2 DEF Holds
    <2>5. Done(c.s, X, u, 0) /\ Kept(c.s, u)
      <3>1. CASE trunc /\ c.s.ic[c.i].di.type = "FILE"
        <4>1. c.s.ic[i].di.type = "FILE" /\ u = fs_iupdate([c.s EXCEPT !.ic[i].di.size = 0], i)
          BY <1>3, <2>1, <3>1
        <4> QED
          BY <2>3, <2>4, <4>1, TruncateDone
      <3>2. CASE ~(trunc /\ c.s.ic[c.i].di.type = "FILE")
        <4>1. u = c.s
          BY <1>3, <3>2
        <4> QED
          BY <2>4, <4>1, DoneSelf, KeptSelf
      <3> QED
        BY <3>1, <3>2
    <2>6. Holds(Mem(FALSE), X, u, i, 0, 0)
      BY <2>2, <2>5, HoldsStay
    <2>7. ~c.leak => Kept(Mem(FALSE), u)
      BY <1>9, <2>5, KeptOn
    <2> QED
      BY <2>1, <2>6, <2>7, HoldsDone
  <1>13. CASE c.i # 0 /\ Return(FALSE, fs_iput(u, c.i)) /\ UNCHANGED fds
    <2>1. PICK t : t = fs_iput(u, c.i)
      OBVIOUS
    <2>2. Done(Mem(FALSE), X, t, 0) /\ (~c.leak => Kept(Mem(FALSE), t))
      <3>1. Done(Mem(FALSE), X, u, c.i) /\ (~c.leak => Kept(Mem(FALSE), u))
        BY <1>12, <1>13
      <3>2. PICK i \in {0} \cup Inodes : i = c.i
        BY <1>9
      <3>3. Done(Mem(FALSE), X, u, i) /\ i # 0 /\ t = fs_iput(u, i)
        BY <1>13, <2>1, <3>1, <3>2
      <3>4. Done(Mem(FALSE), X, t, 0) /\ Kept(u, t)
        BY <1>5, <3>3, PutDone
      <3> QED
        BY <3>1, <3>4, KeptOn
    <2>3. Return(FALSE, t) /\ UNCHANGED <<fds, crashes>>
      BY <1>4, <1>13, <2>1
    <2>4. crashes = 0 /\ ~leaked' => Whole(t, {})
      BY <1>4, <1>5, <2>2, StaysComplete
    <2> QED
      BY <1>4, <1>5, <1>10, <2>2, <2>3, <2>4, DoneReturns
  <1>14. CASE /\ c.i # 0 /\ OpenFiles < MAXOPEN /\ Return(FALSE, u)
              /\ fds' = [fds EXCEPT ![c.i] = @ + 1]
    <2>1. Good(u, X) /\ Leads(Mem(FALSE), u) /\ Up(Mem(FALSE), u, c.i) /\ (~c.leak => Kept(Mem(FALSE), u))
      BY <1>12, <1>14 DEF Done
    <2>2. PICK M \in Nat : M = MAXOPEN
      BY MiniFsAssumption
    <2>3. fds \in [Inodes -> 0..M]
      BY <2>2 DEF FsInv, Counters
    <2>4. PICK i \in Inodes : i = c.i
      BY <1>9, <1>14
    <2>5. fds[i] + 1 \in 0..M
      <3>1. fds \in [Inodes -> Nat]
        BY <2>3
      <3>2. OpenFiles \in Nat /\ fds[i] <= OpenFiles
        BY <3>1, OpenFilesBound
      <3>3. fds[i] \in 0..M /\ OpenFiles < M
        BY <1>14, <2>2, <2>3
      <3> QED
        BY <3>2, <3>3
    <2>6. fds' = [fds EXCEPT ![i] = fds[i] + 1]
      BY <1>14, <2>4
    <2>7. fds' \in [Inodes -> 0..M]
      BY <2>3, <2>5, <2>6
    <2>8. \A j \in Inodes : u.ic[j].ref = fds'[j]
      <3>1. \A j \in Inodes : fds[j] \in Nat
        BY <2>3
      <3>2. \A j \in Inodes : u.ic[j].ref = fds[j] + Hit(j, i)
        BY <1>5, <2>1, <2>4 DEF Up
      <3>3. \A j \in Inodes : fds'[j] = IF j = i THEN fds[j] + 1 ELSE fds[j]
        BY <2>3, <2>6
      <3> QED
        BY <3>1, <3>2, <3>3 DEF Hit
    <2>9. Return(FALSE, u) /\ crashes' = crashes /\ fds' \in [Inodes -> 0..MAXOPEN]
      BY <1>4, <1>14, <2>2, <2>7
    <2>10. crashes = 0 /\ ~leaked' => Whole(u, {})
      BY <1>4, <1>5, <2>1, StaysComplete
    <2> QED
      BY <1>4, <1>5, <1>10, <2>1, <2>8, <2>9, <2>10, ReturnTo
  <1> QED
    BY <1>4, <1>11, <1>13, <1>14

-----------------------------------------------------------------------------
(* The disk, crashes and boot                                              *)

LEMMA FlushKeeps ==
    ASSUME FsInv, Flush
    PROVE  FsInv'
  <1>1. /\ up /\ todo # <<>> /\ disk' = Perform(disk, Head(todo)) /\ todo' = Tail(todo)
        /\ UNCHANGED <<up, free_list, icache, fds, crashes, leaked, writes, stolen, refused>>
    BY DEF Flush
  <1>2. Counters /\ Runs
    BY <1>1 DEF FsInv
  <1>3. PICK d, X : /\ Good(Memory(d), X) /\ Trail(disk, todo, d) /\ (crashes = 0 => X = {})
                    /\ Complete(Memory(d))
    BY <1>2 DEF Runs
  <1>4. Memory(d) \in State
    BY <1>3, GoodParts
  <1>5. todo \in Seq(Writes)
    BY <1>4, StateParts DEF Memory
  <1>6. Safe(disk') /\ Trail(disk', todo', d)
    BY <1>1, <1>3, <1>5, TrailShift
  <1>7. Good([fl |-> free_list', ic |-> icache', d |-> d, log |-> todo', buf |-> "kept"], X)
    <2>1. PICK s : s = Memory(d)
      OBVIOUS
    <2>2. PICK t : t = [fl |-> free_list', ic |-> icache', d |-> d, log |-> todo', buf |-> "kept"]
      OBVIOUS
    <2>3. t.fl = s.fl /\ t.ic = s.ic /\ t.d = s.d
      BY <1>1, <2>1, <2>2 DEF Memory
    <2>4. s \in State /\ t.log = todo'
      BY <1>4, <2>1, <2>2
    <2>5. t \in State
      <3>1. todo' \in Seq(Writes)
        BY <1>1, <1>5
      <3>2. s.fl \in 0..NBLOCKS /\ s.ic \in [Inodes -> CacheSlot] /\ s.d \in Disk
        BY <2>4, StateParts
      <3> QED
        BY <2>2, <2>3, <3>1, <3>2 DEF State
    <2>6. Sound(s, X) /\ Tidy(s)
      BY <1>3, <2>1 DEF Good
    <2>7. Kernel(t) = Kernel(s) /\ InUse(t) = InUse(s)
      BY <2>3 DEF Kernel, InUse
    <2>8. Agree(t) /\ Cached(t) /\ Tidy(t)
      BY <2>3, <2>6, <2>7 DEF Agree, Cached, Tidy, Sound
    <2>9. Sound(t, X)
      BY <2>3, <2>5, <2>6, <2>7, <2>8 DEF Sound
    <2> QED
      BY <2>2, <2>8, <2>9 DEF Good
  <1>10. crashes' = 0 /\ ~leaked' =>
            Whole([fl |-> free_list', ic |-> icache', d |-> d, log |-> todo', buf |-> "kept"], {})
    <2>1. PICK s : s = Memory(d)
      OBVIOUS
    <2>2. PICK t : t = [fl |-> free_list', ic |-> icache', d |-> d, log |-> todo', buf |-> "kept"]
      OBVIOUS
    <2>3. t.ic = s.ic /\ t.d = s.d
      BY <1>1, <2>1, <2>2 DEF Memory
    <2>4. crashes = 0 /\ ~leaked => Whole(s, {})
      BY <1>3, <2>1 DEF Complete
    <2>5. Whole(s, {}) => Whole(t, {})
      BY <2>3 DEF Whole, Unlinked
    <2> QED
      BY <1>1, <2>2, <2>4, <2>5
  <1>8. Runs'
    <2>1. Complete(Memory(d))'
      BY <1>10 DEF Complete, Memory
    <2>2. Good(Memory(d), X)' /\ Trail(disk', todo', d) /\ (crashes' = 0 => X = {})
      BY <1>1, <1>3, <1>6, <1>7 DEF Memory
    <2>3. \A i \in Inodes : icache'[i].ref = fds'[i]
      BY <1>1, <1>2 DEF Runs
    <2> QED
      BY <2>1, <2>2, <2>3 DEF Runs
  <1>9. Counters'
    BY <1>1, <1>2 DEF Counters
  <1> QED
    BY <1>1, <1>6, <1>8, <1>9 DEF FsInv

LEMMA CrashKeeps ==
    ASSUME FsInv, Crash
    PROVE  FsInv'
  <1>1. /\ up' = FALSE /\ crashes < MaxCrashes /\ crashes' = crashes + 1
        /\ free_list' = 0 /\ icache' = [i \in Inodes |-> NoSlot] /\ todo' = <<>>
        /\ fds' = [i \in Inodes |-> 0] /\ refused' = FALSE
        /\ UNCHANGED <<disk, leaked, writes, stolen>>
    BY DEF Crash
  <1>2. Counters
    BY DEF FsInv
  <1>3. PICK n \in Nat : n = crashes
    BY <1>2 DEF Counters
  <1>4. PICK m \in Nat : m = MaxCrashes
    BY MiniFsAssumption
  <1>5. crashes' \in 0..MaxCrashes /\ crashes' # 0
    BY <1>1, <1>3, <1>4
  <1>6. fds' \in [Inodes -> 0..MAXOPEN]
    <2>1. PICK M \in Nat : M = MAXOPEN
      BY MiniFsAssumption
    <2>2. 0 \in 0..M
      OBVIOUS
    <2> QED
      BY <1>1, <2>1, <2>2
  <1>7. Counters'
    BY <1>1, <1>2, <1>5, <1>6 DEF Counters
  <1>8. Safe(disk')
    BY <1>1 DEF FsInv
  <1>9. Stopped'
    BY <1>1, <1>5 DEF Stopped, Complete
  <1> QED
    BY <1>1, <1>7, <1>8, <1>9 DEF FsInv

LEMMA BootedGood ==
    ASSUME NEW d \in Disk, TreeOK(d), NEW X, Owned(OnDisk(d), Have(Live(d)), X)
    PROVE  Good(Booted(d), X) /\ InUse(Booted(d)) = Live(d)
           /\ Kernel(Booted(d)) = OnDisk(d) /\ Booted(d).d = d
  <1>1. PICK s : s = Booted(d)
    OBVIOUS
  <1>2. s.fl = d.free_list /\ s.ic = [i \in Inodes |-> NoSlot] /\ s.d = d /\ s.log = <<>>
        /\ s = [fl |-> s.fl, ic |-> s.ic, d |-> s.d, log |-> s.log, buf |-> "kept"]
    BY <1>1 DEF Booted
  <1>3. \A i \in Inodes : s.ic[i] = NoSlot
    BY <1>2
  <1>4. s \in State
    <2>1. s.ic \in [Inodes -> CacheSlot]
      BY <1>2, NoSlotType
    <2>2. s.fl \in 0..NBLOCKS
      BY <1>2, DiskParts
    <2>3. s.log \in Seq(Writes) /\ s.d \in Disk
      BY <1>2
    <2>4. PICK fl, ic, e, log : /\ fl = s.fl /\ ic = s.ic /\ e = s.d /\ log = s.log
                                /\ s = [fl |-> fl, ic |-> ic, d |-> e, log |-> log, buf |-> "kept"]
      BY <1>2
    <2> QED
      BY <2>1, <2>2, <2>3, <2>4 DEF State
  <1>5. \A i \in Inodes : s.ic[i].ref = 0 /\ ~(s.ic[i].ref > 0)
    BY <1>3, NoSlotType
  <1>6. InUse(s) = Live(d)
    BY <1>2, <1>5 DEF InUse
  <1>7. Kernel(s) = OnDisk(d)
    <2>1. [i \in Inodes |-> IF s.ic[i].ref > 0 THEN s.ic[i].di ELSE s.d.inode[i]] = d.inode
      <3>1. d.inode \in [Inodes -> DiskInode]
        BY DiskParts
      <3> QED
        BY <1>2, <1>5, <3>1
    <2> QED
      BY <1>2, <2>1 DEF Kernel, OnDisk
  <1>8. Agree(s)
    BY <1>2, <1>7 DEF Agree, OnDisk
  <1>9. Cached(s)
    BY <1>5 DEF Cached
  <1>10. Tidy(s)
    BY <1>3 DEF Tidy
  <1>11. Good(s, X)
    BY <1>2, <1>4, <1>6, <1>7, <1>8, <1>9, <1>10 DEF Good, Sound
  <1> QED
    BY <1>1, <1>2, <1>6, <1>7, <1>11

LEMMA BootGood ==
    ASSUME Safe(disk), Stopped
    PROVE  /\ \E X : Good([Mem(FALSE) EXCEPT !.fl = disk.free_list], X) /\ (crashes = 0 => X = {})
           /\ Complete([Mem(FALSE) EXCEPT !.fl = disk.free_list])
  <1>1. PICK X : Owned(OnDisk(disk), Have(Live(disk)), X) /\ (crashes = 0 => X = {})
    BY DEF Safe, Stopped
  <1>2. [Mem(FALSE) EXCEPT !.fl = disk.free_list] = Booted(disk)
    BY DEF Mem, Booted, Stopped
  <1>3. Good(Booted(disk), X)
    BY <1>1, BootedGood DEF Safe
  <1>4. Complete(Booted(disk))
    BY DEF Stopped
  <1> QED
    BY <1>1, <1>2, <1>3, <1>4

LEMMA BootKeeps ==
    ASSUME FsInv, Boot(FALSE)
    PROVE  FsInv'
  <1>1. PICK s : s = [Mem(FALSE) EXCEPT !.fl = disk.free_list]
    OBVIOUS
  <1>2. PICK r : r = dev_create_nodes(s)
    OBVIOUS
  <1>3. /\ ~up /\ up' = TRUE
        /\ free_list' = r.s.fl /\ icache' = r.s.ic /\ todo' = r.s.log
        /\ leaked' = (leaked \/ r.leak)
        /\ UNCHANGED <<disk, fds, crashes, writes, refused>>
    BY <1>1, <1>2 DEF Boot
  <1>4. Safe(disk) /\ Stopped /\ Counters
    BY <1>3 DEF FsInv
  <1>5. PICK X : Good(s, X) /\ (crashes = 0 => X = {}) /\ Complete(s)
    BY <1>1, <1>4, BootGood
  <1>6. r \in Makes(s, X)
    BY <1>2, <1>5, NodesSound
  <1>7. Good(r.s, X) /\ Leads(s, r.s) /\ Up(s, r.s, 0) /\ (~r.leak => Kept(s, r.s))
    BY <1>6 DEF Makes, Done
  <1>12. crashes = 0 /\ ~leaked' => Whole(r.s, {})
    BY <1>3, <1>5, <1>7 DEF Complete, Kept
  <1>8. s.log = <<>> /\ s.d = disk /\ s.ic = icache
    BY <1>1 DEF Mem
  <1>9. \A i \in Inodes : r.s.ic[i].ref = fds'[i]
    <2>1. \A i \in Inodes : s.ic[i].ref = 0 /\ fds[i] = 0 /\ i # 0
      BY <1>4, <1>5, <1>8, NoSlotType, RefNat DEF Stopped
    <2> QED
      BY <1>3, <1>7, <2>1 DEF Up, Hit
  <1>10. Counters'
    <2>1. leaked' \in BOOLEAN /\ up' \in BOOLEAN
      BY <1>3
    <2> QED
      BY <1>3, <1>4, <2>1 DEF Counters
  <1>11. up' /\ disk' = disk /\ crashes' = crashes
    BY <1>3
  <1> QED
    BY <1>3, <1>5, <1>7, <1>8, <1>9, <1>10, <1>11, <1>12, CallTo

LEMMA StutterKeeps ==
    ASSUME FsInv, UNCHANGED vars
    PROVE  FsInv'
  <1>1. UNCHANGED <<disk, up, free_list, icache, todo, fds, crashes, leaked, writes, stolen, refused>>
    BY DEF vars
  <1>2. Counters' = Counters /\ Runs' = Runs /\ Stopped' = Stopped
    BY <1>1 DEF Counters, Runs, Stopped, Memory, Complete
  <1> QED
    BY <1>1, <1>2 DEF FsInv

\* A call or a boot after which no buffer is stolen found none reused.
LEMMA StealsNothing ==
    ASSUME NEW warm \in BOOLEAN, NEW s, Steals(warm, s)
    PROVE  ~stolen /\ stolen' \in BOOLEAN /\ (~stolen' => warm = FALSE)
  BY DEF Steals

LEMMA CallSteals ==
    ASSUME NEW warm \in BOOLEAN, Call(warm) \/ Boot(warm)
    PROVE  ~stolen /\ stolen' \in BOOLEAN /\ (~stolen' => warm = FALSE)
  <1>1. ASSUME NEW s, Return(warm, s)
        PROVE  ~stolen /\ stolen' \in BOOLEAN /\ (~stolen' => warm = FALSE)
    BY <1>1, StealsNothing DEF Return
  <1>2. CASE Boot(warm)
    BY <1>2, StealsNothing DEF Boot
  <1>3. CASE \E path \in Paths, create, trunc \in BOOLEAN : Open(warm, path, create, trunc)
    BY <1>1, <1>3 DEF Open
  <1>4. CASE \E i \in Inodes : Close(warm, i)
    BY <1>1, <1>4 DEF Close
  <1>5. CASE \E i \in Inodes, n \in Lengths :
                \E off \in Offsets \cup {icache[i].di.size} : WriteFile(warm, i, off, n)
    BY <1>1, <1>5 DEF WriteFile
  <1>6. CASE \E path \in Paths : Unlink(warm, path) \/ Mkdir(warm, path) \/ Rmdir(warm, path)
    BY <1>1, <1>6 DEF Unlink, Mkdir, Rmdir
  <1>7. CASE \E old, new \in Paths : Rename(warm, old, new)
    BY <1>1, <1>7 DEF Rename
  <1> QED
    BY <1>2, <1>3, <1>4, <1>5, <1>6, <1>7 DEF Call

LEMMA CallKeeps ==
    ASSUME ~WriteDirs, FsInv, Call(FALSE)
    PROVE  FsInv'
  BY OpenKeeps, CloseKeeps, WriteFileKeeps, UnlinkKeeps, MkdirKeeps, RmdirKeeps,
     RenameKeeps DEF Call

LEMMA IInvKept ==
    ASSUME ~WriteDirs, IInv, [Next]_vars
    PROVE  IInv'
  <1>1. CASE \E warm \in BOOLEAN : Call(warm) \/ Boot(warm)
    <2>1. PICK warm \in BOOLEAN : Call(warm) \/ Boot(warm)
      BY <1>1
    <2>2. ~stolen /\ stolen' \in BOOLEAN /\ (~stolen' => warm = FALSE)
      BY <2>1, CallSteals
    <2>3. FsInv
      BY <2>2 DEF IInv
    <2>4. ~stolen' => FsInv'
      BY <2>1, <2>2, <2>3, CallKeeps, BootKeeps
    <2> QED
      BY <2>2, <2>4 DEF IInv
  <1>2. CASE Flush \/ Crash \/ Stop \/ UNCHANGED vars
    <2>1. stolen' = stolen
      BY <1>2 DEF Flush, Crash, Stop, vars
    <2>2. FsInv => FsInv'
      BY <1>2, FlushKeeps, CrashKeeps, StutterKeeps DEF Stop
    <2> QED
      BY <2>1, <2>2 DEF IInv
  <1> QED
    BY <1>1, <1>2 DEF Next

-----------------------------------------------------------------------------
(* The image of mkfs                                                       *)

\* The first block of the file.
FirstBlock == FirstFree - FileBlocks

LEMMA ImageSizes ==
    /\ ImageSize \in Nat
    /\ FileBlocks \in Nat /\ FileBlocks <= Final
    /\ FirstFree \in Nat /\ FirstFree <= NBLOCKS + 1
    /\ FirstBlock = 2 + (IF FileBlocks > NDIRECT THEN 1 ELSE 0)
    /\ FirstFree = FirstBlock + FileBlocks
    /\ ImageSize = 0 <=> FileBlocks = 0
    /\ ImageSize > 0 => NINODES >= 2 /\ CPB >= 3
    /\ ImageName \in Names
  <1>1. PICK C \in Nat : C = CPB /\ C >= 2
    BY Sizes
  <1>2. PICK D \in Nat : D = NDIRECT
    BY Sizes
  <1>3. PICK S \in Nat : S = ImageSize /\ S <= (D + C) * C
    <2>1. ImageSize \in 0..(D + C) * C
      BY <1>1, <1>2, MiniFsAssumption
    <2>2. PICK P \in Nat : P = (D + C) * C
      OBVIOUS
    <2>3. ImageSize \in 0..P
      BY <2>1, <2>2
    <2> QED
      BY <2>2, <2>3
  <1>4. PICK k \in Nat : k = S + C - 1
    BY <1>1
  <1>5. PICK q \in Nat : q = k \div C
    BY <1>1, <1>4, Division
  <1>6. PICK r \in 0..(C - 1) : k = C * q + r
    BY <1>1, <1>5, Division
  <1>7. q <= D + C
    <2>1. SUFFICES ASSUME q >= D + C + 1
                   PROVE  FALSE
      OBVIOUS
    <2>2. PICK e \in Nat : q = D + C + 1 + e
      <3>1. q - (D + C + 1) \in Nat
        BY <2>1
      <3> QED
        BY <3>1
    <2>3. C * q = (D + C) * C + C + C * e
      BY <2>2
    <2>4. C * e \in Nat /\ (D + C) * C \in Nat
      OBVIOUS
    <2> QED
      BY <1>3, <1>4, <1>6, <2>3, <2>4
  <1>8. S = 0 <=> q = 0
    <2>1. ASSUME q # 0
          PROVE  C * q >= C
      <3>1. PICK e \in Nat : q = e + 1
        <4>1. q - 1 \in Nat
          BY <2>1
        <4> QED
          BY <4>1
      <3>2. C * q = C * e + C /\ C * e \in Nat
        BY <3>1
      <3> QED
        BY <3>2
    <2>2. q = 0 => C * q = 0
      OBVIOUS
    <2>3. C * q \in Nat
      OBVIOUS
    <2>4. S = 0 => q = 0
      BY <1>4, <1>6, <2>1, <2>3
    <2>5. q = 0 => S = 0
      BY <1>1, <1>4, <1>6, <2>2
    <2> QED
      BY <2>4, <2>5
  <1>9. FileBlocks = q
    BY <1>1, <1>3, <1>4, <1>5 DEF FileBlocks
  <1>10. PICK x \in {0, 1} : x = IF FileBlocks > NDIRECT THEN 1 ELSE 0
    OBVIOUS
  <1>11. FirstFree = 2 + q + x
    BY <1>9, <1>10 DEF FirstFree
  <1>12. FirstBlock = 2 + x
    BY <1>9, <1>11 DEF FirstBlock
  <1>13. FirstFree <= NBLOCKS + 1 /\ (ImageSize > 0 => NINODES >= 2)
    BY ImageFits
  <1>14. ImageName \in Names /\ (ImageSize > 0 => CPB >= 3)
    BY MiniFsAssumption
  <1> QED
    BY <1>1, <1>2, <1>3, <1>7, <1>8, <1>9, <1>10, <1>11, <1>12, <1>13, <1>14 DEF Final

LEMMA RootFields ==
    /\ RootInode \in DiskInode /\ RootInode.type = "DIR" /\ RootInode.nlink = 2
    /\ RootInode.indirect = 0
    /\ RootInode.size = IF ImageSize > 0 THEN 3 ELSE 2
    /\ \A n \in Direct : RootInode.direct[n] = IF n = 0 THEN 1 ELSE 0
  <1> DEFINE f == [[k \in Direct |-> 0] EXCEPT ![0] = 1]
             z == IF ImageSize > 0 THEN 3 ELSE 2
  <1>1. RootInode = [type |-> "DIR", nlink |-> 2, size |-> z, direct |-> f, indirect |-> 0]
    <2>1. PICK g : g = [k \in Direct |-> 0]
      OBVIOUS
    <2>2. PICK x : x = [g EXCEPT ![0] = 1]
      OBVIOUS
    <2>3. f = x
      BY <2>1, <2>2
    <2>4. PICK y : y = z
      OBVIOUS
    <2>5. PICK e0 : e0 = EmptyInode
      OBVIOUS
    <2>6. e0 = [type |-> "FREE", nlink |-> 0, size |-> 0, direct |-> g, indirect |-> 0]
      BY <2>1, <2>5 DEF EmptyInode
    <2>7. PICK e1 : e1 = [e0 EXCEPT !.type = "DIR"]
      OBVIOUS
    <2>8. PICK e2 : e2 = [e1 EXCEPT !.nlink = 2]
      OBVIOUS
    <2>9. PICK e3 : e3 = [e2 EXCEPT !.direct[0] = 1]
      OBVIOUS
    <2>10. PICK e4 : e4 = [e3 EXCEPT !.size = y]
      OBVIOUS
    <2>11. RootInode = e4
      BY <2>4, <2>5, <2>7, <2>8, <2>9, <2>10 DEF RootInode
    <2> HIDE DEF f, z
    <2>12. e1 = [type |-> "DIR", nlink |-> 0, size |-> 0, direct |-> g, indirect |-> 0]
      BY <2>6, <2>7
    <2>13. e2 = [type |-> "DIR", nlink |-> 2, size |-> 0, direct |-> g, indirect |-> 0]
      BY <2>8, <2>12
    <2>14. e3 = [type |-> "DIR", nlink |-> 2, size |-> 0, direct |-> x, indirect |-> 0]
      BY <2>2, <2>9, <2>13
    <2>15. e4 = [type |-> "DIR", nlink |-> 2, size |-> y, direct |-> x, indirect |-> 0]
      BY <2>10, <2>14
    <2> QED
      BY <2>3, <2>4, <2>11, <2>15
  <1>2. f \in [Direct -> 0..NBLOCKS] /\ \A n \in Direct : f[n] = IF n = 0 THEN 1 ELSE 0
    <2>1. 1 \in 0..NBLOCKS /\ 0 \in 0..NBLOCKS
      BY Sizes
    <2> QED
      BY <2>1
  <1>3. z \in Nat
    OBVIOUS
  <1>4. 0 \in 0..NBLOCKS
    BY Sizes
  <1> HIDE DEF f, z
  <1>5. RootInode \in DiskInode
    BY <1>1, <1>2, <1>3, <1>4 DEF DiskInode
  <1>6. z = IF ImageSize > 0 THEN 3 ELSE 2
    BY DEF z
  <1> QED
    BY <1>1, <1>2, <1>5, <1>6

LEMMA FileFields ==
    /\ FileInode \in DiskInode /\ FileInode.type = "FILE" /\ FileInode.nlink = 1
    /\ FileInode.size = ImageSize
    /\ FileInode.indirect = IF FileBlocks > NDIRECT THEN 2 ELSE 0
    /\ \A n \in Direct : FileInode.direct[n] = IF n < FileBlocks THEN FirstBlock + n ELSE 0
  <1> DEFINE f == [k \in Direct |-> IF k < FileBlocks THEN FileBlock(k) ELSE 0]
             ib == IF FileBlocks > NDIRECT THEN 2 ELSE 0
  <1>1. FileInode = [type |-> "FILE", nlink |-> 1, size |-> ImageSize, direct |-> f, indirect |-> ib]
    <2>1. PICK g : g = [k \in Direct |-> 0]
      OBVIOUS
    <2>2. PICK x, y : x = f /\ y = ib
      OBVIOUS
    <2>3. PICK z : z = ImageSize
      OBVIOUS
    <2>5. PICK e0 : e0 = EmptyInode
      OBVIOUS
    <2>6. e0 = [type |-> "FREE", nlink |-> 0, size |-> 0, direct |-> g, indirect |-> 0]
      BY <2>1, <2>5 DEF EmptyInode
    <2>7. PICK e1 : e1 = [e0 EXCEPT !.type = "FILE"]
      OBVIOUS
    <2>8. PICK e2 : e2 = [e1 EXCEPT !.nlink = 1]
      OBVIOUS
    <2>9. PICK e3 : e3 = [e2 EXCEPT !.size = z]
      OBVIOUS
    <2>10. PICK e4 : e4 = [e3 EXCEPT !.direct = x]
      OBVIOUS
    <2>11. PICK e5 : e5 = [e4 EXCEPT !.indirect = y]
      OBVIOUS
    <2>12. FileInode = e5
      BY <2>2, <2>3, <2>5, <2>7, <2>8, <2>9, <2>10, <2>11 DEF FileInode
    <2> HIDE DEF f, ib
    <2>13. e1 = [type |-> "FILE", nlink |-> 0, size |-> 0, direct |-> g, indirect |-> 0]
      BY <2>6, <2>7
    <2>14. e2 = [type |-> "FILE", nlink |-> 1, size |-> 0, direct |-> g, indirect |-> 0]
      BY <2>8, <2>13
    <2>15. e3 = [type |-> "FILE", nlink |-> 1, size |-> z, direct |-> g, indirect |-> 0]
      BY <2>9, <2>14
    <2>16. e4 = [type |-> "FILE", nlink |-> 1, size |-> z, direct |-> x, indirect |-> 0]
      BY <2>10, <2>15
    <2>17. e5 = [type |-> "FILE", nlink |-> 1, size |-> z, direct |-> x, indirect |-> y]
      BY <2>11, <2>16
    <2> QED
      BY <2>2, <2>3, <2>12, <2>17
  <1>2. PICK N \in Nat : N = NBLOCKS
    BY Sizes
  <1>3. PICK F \in Nat : F = FileBlocks
    BY ImageSizes
  <1>4. PICK B \in Nat : B = FirstBlock /\ B + F <= N + 1
    BY <1>2, <1>3, ImageSizes
  <1>5. \A n \in Direct : n \in Nat
    BY Sizes DEF Direct
  <1>6. \A n \in Direct : f[n] = IF n < F THEN B + n ELSE 0
    BY <1>3, <1>4 DEF FileBlock, FirstBlock
  <1>7. f \in [Direct -> 0..N]
    <2>1. \A n \in Direct : f[n] \in 0..N
      BY <1>4, <1>5, <1>6
    <2> QED
      BY <2>1
  <1>8. ib \in 0..N
    <2>1. PICK D \in Nat : D = NDIRECT
      BY Sizes
    <2>2. F > D => B = 3
      BY <1>3, <1>4, <2>1, ImageSizes
    <2> QED
      BY <1>3, <1>4, <2>1, <2>2
  <1>9. ImageSize \in Nat
    BY ImageSizes
  <1>10. ib = IF FileBlocks > NDIRECT THEN 2 ELSE 0
    OBVIOUS
  <1> HIDE DEF f, ib
  <1>11. FileInode \in DiskInode
    BY <1>1, <1>2, <1>7, <1>8, <1>9 DEF DiskInode
  <1> QED
    BY <1>1, <1>3, <1>4, <1>6, <1>10, <1>11

LEMMA RootCells ==
    /\ RootBlock \in [1..CPB -> Cell]
    /\ RootBlock[1] = Entry(".", 1) /\ RootBlock[2] = Entry("..", 1)
    /\ ImageSize > 0 => RootBlock[3] = Entry(ImageName, 2)
  <1>1. PICK C \in Nat : C = CPB /\ C >= 2 /\ (ImageSize > 0 => C >= 3)
    BY Sizes, ImageSizes
  <1>2. RootBlock = [c \in 1..C |-> CASE c = 1 -> Entry(".", 1) [] c = 2 -> Entry("..", 1)
                        [] c = 3 /\ ImageSize > 0 -> Entry(ImageName, 2)
                        [] OTHER -> ZeroCell]
    BY <1>1 DEF RootBlock
  <1>3. /\ Entry(".", 1) \in Cell /\ Entry("..", 1) \in Cell /\ ZeroCell \in Cell
        /\ ImageSize > 0 => Entry(ImageName, 2) \in Cell
    <2>1. 1 \in 0..NINODES /\ (ImageSize > 0 => 2 \in 0..NINODES)
      BY Sizes, ImageSizes
    <2>2. "." \in Names \cup {".", ".."} /\ ".." \in Names \cup {".", ".."}
          /\ ImageName \in Names \cup {".", ".."}
      BY ImageSizes
    <2> QED
      BY <2>1, <2>2, Sizes
  <1>4. 1 \in 1..C /\ 2 \in 1..C /\ (ImageSize > 0 => 3 \in 1..C)
    BY <1>1
  <1>5. \A c \in 1..C : RootBlock[c] \in Cell
    BY <1>2, <1>3
  <1>6. RootBlock \in [1..C -> Cell]
    BY <1>2, <1>5
  <1>7. RootBlock[1] = Entry(".", 1)
    BY <1>2, <1>4
  <1>8. RootBlock[2] = Entry("..", 1)
    BY <1>2, <1>4
  <1>9. ImageSize > 0 => RootBlock[3] = Entry(ImageName, 2)
    BY <1>2, <1>4
  <1> QED
    BY <1>1, <1>6, <1>7, <1>8, <1>9

LEMMA IndirectCells ==
    /\ IndirectBlock \in [1..CPB -> Cell]
    /\ \A c \in 1..CPB : IndirectBlock[c].ino =
          IF NDIRECT + c - 1 < FileBlocks THEN FirstBlock + (NDIRECT + c - 1) ELSE 0
  <1>1. PICK C \in Nat : C = CPB
    BY Sizes
  <1>2. PICK D \in Nat : D = NDIRECT
    BY Sizes
  <1>3. PICK F \in Nat : F = FileBlocks
    BY ImageSizes
  <1>4. PICK N \in Nat : N = NBLOCKS
    BY Sizes
  <1>5. PICK B \in Nat : B = FirstBlock /\ B + F <= N + 1
    BY <1>3, <1>4, ImageSizes
  <1>6. ASSUME NEW c \in 1..C
        PROVE  /\ IndirectBlock[c] \in Cell
               /\ IndirectBlock[c].ino = IF D + c - 1 < F THEN B + (D + c - 1) ELSE 0
    <2>1. PICK bn \in Nat : bn = D + c - 1
      OBVIOUS
    <2>2. IndirectBlock[c] = IF bn < F THEN Link(B + bn) ELSE ZeroCell
      BY <1>1, <1>2, <1>3, <1>5, <2>1 DEF IndirectBlock, FileBlock, FirstBlock
    <2>3. CASE bn < F
      <3>1. B + bn \in 0..N
        BY <1>5, <2>3
      <3>2. Link(B + bn) \in Cell /\ Link(B + bn).ino = B + bn
        BY <1>4, <3>1, Sizes
      <3> QED
        BY <2>1, <2>2, <2>3, <3>2
    <2>4. CASE ~(bn < F)
      <3>1. IndirectBlock[c] = ZeroCell
        BY <2>2, <2>4
      <3>2. ZeroCell \in Cell /\ ZeroCell.ino = 0
        BY Sizes
      <3> QED
        BY <2>1, <2>4, <3>1, <3>2
    <2> QED
      BY <2>3, <2>4
  <1>7. DOMAIN IndirectBlock = 1..C /\ IndirectBlock = [c \in 1..C |-> IndirectBlock[c]]
    BY <1>1 DEF IndirectBlock
  <1>8. IndirectBlock \in [1..C -> Cell]
    BY <1>6, <1>7
  <1> QED
    BY <1>1, <1>2, <1>3, <1>5, <1>6, <1>8

LEMMA ImageInodes ==
    /\ Image.inode \in [Inodes -> DiskInode]
    /\ Image.inode[1] = RootInode
    /\ ImageSize > 0 => 2 \in Inodes /\ Image.inode[2] = FileInode
    /\ \A i \in Inodes : i = 1 \/ (i = 2 /\ ImageSize > 0) \/ Image.inode[i] = EmptyInode
  <1>1. Image.inode = [i \in Inodes |-> CASE i = 1 -> RootInode
                                   [] i = 2 /\ ImageSize > 0 -> FileInode
                                   [] OTHER -> EmptyInode]
    BY DEF Image
  <1>2. RootInode \in DiskInode /\ FileInode \in DiskInode /\ EmptyInode \in DiskInode
    BY RootFields, FileFields, NoSlotType
  <1>3. 1 \in Inodes /\ (ImageSize > 0 => 2 \in Inodes)
    <2>1. PICK n \in Nat : n = NINODES
      BY Sizes
    <2> QED
      BY <2>1, Sizes, ImageSizes DEF Inodes
  <1>4. \A i \in Inodes : Image.inode[i] \in DiskInode
    BY <1>1, <1>2
  <1>5. Image.inode \in [Inodes -> DiskInode]
    BY <1>1, <1>4
  <1> QED
    BY <1>1, <1>3, <1>5

LEMMA LinkCells ==
    ASSUME NEW n \in 0..NBLOCKS
    PROVE  /\ [ZeroBlock EXCEPT ![1] = Link(n)] \in [1..CPB -> Cell]
           /\ [ZeroBlock EXCEPT ![1] = Link(n)][1].ino = n
  <1>1. ZeroBlock \in [1..CPB -> Cell] /\ 1 \in 1..CPB /\ Link(n) \in Cell /\ Link(n).ino = n
    BY Sizes
  <1> QED
    BY <1>1

LEMMA ImageBlocks ==
    /\ Image.block \in [Blocks -> [1..CPB -> Cell]]
    /\ 1 \in Blocks /\ Image.block[1] = RootBlock
    /\ FileBlocks > NDIRECT => 2 \in Blocks /\ Image.block[2] = IndirectBlock
    /\ \A b \in Blocks : b >= FirstFree =>
          Image.block[b][1].ino = IF b < NBLOCKS THEN b + 1 ELSE 0
  <1>1. PICK N \in Nat : N = NBLOCKS
    BY Sizes
  <1>2. PICK F \in Nat : F = FileBlocks
    BY ImageSizes
  <1>3. PICK D \in Nat : D = NDIRECT
    BY Sizes
  <1>4. PICK B \in Nat : B = FirstBlock /\ B = 2 + (IF F > D THEN 1 ELSE 0)
    BY <1>2, <1>3, ImageSizes
  <1>5. PICK G \in Nat : G = FirstFree /\ G = B + F /\ G <= N + 1
    BY <1>1, <1>2, <1>4, ImageSizes
  <1>6. FileBlock(0) = B
    BY <1>2, <1>4, <1>5 DEF FileBlock, FirstBlock
  <1>7. PICK R : R = RootBlock
    OBVIOUS
  <1>8. PICK I : I = IndirectBlock
    OBVIOUS
  <1>9. PICK Q : Q = [c \in 1..CPB |-> Data]
    OBVIOUS
  <1> DEFINE L(b) == [ZeroBlock EXCEPT ![1] = Link(IF b < N THEN b + 1 ELSE 0)]
  <1>10. Image.block = [b \in 1..N |->
            CASE b = 1 -> R
              [] b = 2 /\ F > D -> I
              [] b \in B..(G - 1) -> Q
              [] b >= G -> L(b)]
    <2>1. Image.block = [b \in Blocks |->
            CASE b = 1 -> RootBlock
              [] b = 2 /\ FileBlocks > NDIRECT -> IndirectBlock
              [] b \in FileBlock(0)..(FirstFree - 1) -> [c \in 1..CPB |-> Data]
              [] b >= FirstFree ->
                   [ZeroBlock EXCEPT ![1] = Link(IF b < NBLOCKS THEN b + 1 ELSE 0)]]
      BY DEF Image
    <2> HIDE DEF L
    <2>2. \A b \in Blocks :
            L(b) = [ZeroBlock EXCEPT ![1] = Link(IF b < NBLOCKS THEN b + 1 ELSE 0)]
      BY <1>1 DEF L
    <2>3. Image.block = [b \in Blocks |->
            CASE b = 1 -> R
              [] b = 2 /\ FileBlocks > NDIRECT -> I
              [] b \in FileBlock(0)..(FirstFree - 1) -> Q
              [] b >= FirstFree -> L(b)]
      BY <1>7, <1>8, <1>9, <2>1, <2>2
    <2> QED
      BY <1>1, <1>2, <1>3, <1>5, <1>6, <2>3 DEF Blocks
  <1>11. ASSUME NEW b \in 1..N
         PROVE  L(b) \in [1..CPB -> Cell] /\ L(b)[1].ino = IF b < N THEN b + 1 ELSE 0
    <2>1. PICK n \in 0..N : n = IF b < N THEN b + 1 ELSE 0
      OBVIOUS
    <2> QED
      BY <1>1, <2>1, LinkCells
  <1>12. R \in [1..CPB -> Cell] /\ I \in [1..CPB -> Cell] /\ Q \in [1..CPB -> Cell]
    <2>1. Data \in Cell
      BY Sizes
    <2> QED
      BY <1>7, <1>8, <1>9, <2>1, RootCells, IndirectCells
  <1>13. ASSUME NEW b \in 1..N
         PROVE  Image.block[b] \in [1..CPB -> Cell]
    <2>1. Image.block[b] = CASE b = 1 -> R
              [] b = 2 /\ F > D -> I
              [] b \in B..(G - 1) -> Q
              [] b >= G -> L(b)
      BY <1>10
    <2>2. b = 1 \/ (b = 2 /\ F > D) \/ b \in B..(G - 1) \/ b >= G
      BY <1>4, <1>5
    <2>3. L(b) \in [1..CPB -> Cell]
      BY <1>11
    <2> HIDE DEF L
    <2> QED
      BY <1>12, <2>1, <2>2, <2>3
  <1>14. 1 \in 1..N /\ ~(1 >= G) /\ ~(1 \in B..(G - 1)) /\ 1 # 2
    BY <1>1, <1>4, <1>5, Sizes
  <1>15. Image.block[1] = R
    BY <1>10, <1>14
  <1>16. F > D => 2 \in 1..N /\ Image.block[2] = I
    <2>1. SUFFICES ASSUME F > D
                   PROVE  2 \in 1..N /\ Image.block[2] = I
      OBVIOUS
    <2>2. B = 3 /\ 2 \in 1..N /\ ~(2 >= G) /\ ~(2 \in B..(G - 1)) /\ 2 # 1
      BY <1>4, <1>5, <2>1
    <2> QED
      BY <1>10, <2>1, <2>2
  <1>17. ASSUME NEW b \in 1..N, b >= G
         PROVE  Image.block[b] = L(b)
    <2>1. b # 1 /\ ~(b = 2 /\ F > D) /\ ~(b \in B..(G - 1))
      BY <1>4, <1>5, <1>17
    <2> QED
      BY <1>10, <1>17, <2>1
  <1>18. Image.block \in [1..N -> [1..CPB -> Cell]]
    <2>1. Image.block = [b \in 1..N |-> Image.block[b]]
      BY <1>10
    <2> QED
      BY <1>13, <2>1
  <1>19. \A b \in 1..N : b >= G => Image.block[b][1].ino = IF b < N THEN b + 1 ELSE 0
    BY <1>11, <1>17
  <1> HIDE DEF L
  <1>20. Blocks = 1..N
    BY <1>1 DEF Blocks
  <1> QED
    BY <1>1, <1>2, <1>3, <1>5, <1>7, <1>8, <1>14, <1>15, <1>16, <1>18, <1>19, <1>20

LEMMA ImageDisk ==
    /\ Image \in Disk
    /\ Image.free_list = IF FirstFree <= NBLOCKS THEN FirstFree ELSE 0
    /\ Live(Image) = {1} \cup (IF ImageSize > 0 THEN {2} ELSE {})
    /\ Dirs(Image) = {1}
  <1>1. PICK f \in 0..NBLOCKS : f = IF FirstFree <= NBLOCKS THEN FirstFree ELSE 0
    <2>1. PICK N \in Nat : N = NBLOCKS
      BY Sizes
    <2>2. PICK G \in Nat : G = FirstFree
      BY ImageSizes
    <2> QED
      BY <2>1, <2>2
  <1>2. Image.free_list = f /\ Image = [free_list |-> Image.free_list, inode |-> Image.inode,
                                        block |-> Image.block]
    BY <1>1 DEF Image
  <1>3. Image \in Disk
    BY <1>2, ImageInodes, ImageBlocks DEF Disk
  <1>4. 1 \in Inodes /\ (ImageSize > 0 => 2 \in Inodes)
    BY Sizes, ImageInodes
  <1>5. RootInode.type = "DIR" /\ RootInode.nlink > 0
    BY RootFields
  <1>6. FileInode.type = "FILE" /\ FileInode.nlink > 0
    BY FileFields
  <1>7. EmptyInode.type = "FREE"
    BY NoSlotType
  <1>8. \A i \in Inodes : i \in Live(Image) <=> i = 1 \/ (i = 2 /\ ImageSize > 0)
    BY <1>4, <1>5, <1>6, <1>7, ImageInodes DEF Live
  <1>9. Live(Image) \subseteq Inodes
    BY DEF Live
  <1>10. Live(Image) = {1} \cup (IF ImageSize > 0 THEN {2} ELSE {})
    BY <1>4, <1>8, <1>9
  <1>11. Dirs(Image) = {1}
    <2>1. Image.inode[1].type = "DIR" /\ (ImageSize > 0 => Image.inode[2].type # "DIR")
      BY <1>5, <1>6, ImageInodes
    <2> QED
      BY <1>10, <2>1 DEF Dirs
  <1> QED
    BY <1>1, <1>2, <1>3, <1>10, <1>11

\* The blocks of the root, then those of the file.
LEMMA ImagePlaces ==
    LET m == OnDisk(Image) IN
    /\ \A n \in Slots : At(m, <<1, n>>) = IF n = 0 THEN 1 ELSE 0
    /\ ImageSize > 0 => \A n \in Slots : At(m, <<2, n>>) =
          IF n = Final THEN (IF FileBlocks > NDIRECT THEN 2 ELSE 0)
          ELSE IF n < FileBlocks THEN FirstBlock + n ELSE 0
  <1>1. PICK m : m = OnDisk(Image)
    OBVIOUS
  <1>2. m.ino[1] = RootInode /\ (ImageSize > 0 => m.ino[2] = FileInode)
        /\ (FileBlocks > NDIRECT => m.block[2] = IndirectBlock)
    BY <1>1, ImageInodes, ImageBlocks DEF OnDisk
  <1>3. PICK D \in Nat : D = NDIRECT /\ D > 0
    BY Sizes
  <1>4. PICK C \in Nat : C = CPB /\ C > 0
    BY Sizes
  <1>5. PICK F \in Nat : F = FileBlocks /\ F <= D + C
    BY <1>3, <1>4, ImageSizes DEF Final
  <1>6. Slots = 0..(D + C) /\ Direct = 0..(D - 1) /\ Final = D + C
    BY <1>3, <1>4 DEF Slots, Direct, Final
  <1>7. ASSUME NEW n \in Slots
        PROVE  At(m, <<1, n>>) = IF n = 0 THEN 1 ELSE 0
    <2>1. At(m, <<1, n>>) = IF n < D THEN RootInode.direct[n]
                            ELSE IF n = Final THEN RootInode.indirect
                            ELSE IF RootInode.indirect = 0 THEN 0
                            ELSE m.block[RootInode.indirect][n - D + 1].ino
      BY <1>2, <1>3 DEF At
    <2>2. n < D => n \in Direct
      BY <1>6
    <2>3. ~(n < D) => n # 0
      BY <1>3
    <2> QED
      BY <2>1, <2>2, <2>3, RootFields
  <1>8. ASSUME ImageSize > 0, NEW n \in Slots
        PROVE  At(m, <<2, n>>) = IF n = Final THEN (IF F > D THEN 2 ELSE 0)
                                 ELSE IF n < F THEN FirstBlock + n ELSE 0
    <2>1. At(m, <<2, n>>) = IF n < D THEN FileInode.direct[n]
                            ELSE IF n = Final THEN FileInode.indirect
                            ELSE IF FileInode.indirect = 0 THEN 0
                            ELSE m.block[FileInode.indirect][n - D + 1].ino
      BY <1>2, <1>3, <1>8 DEF At
    <2>2. FileInode.indirect = IF F > D THEN 2 ELSE 0
      BY <1>3, <1>5, FileFields
    <2>3. CASE n < D
      <3>1. n \in Direct /\ n # Final
        BY <1>4, <1>6, <2>3
      <3>2. FileInode.direct[n] = IF n < F THEN FirstBlock + n ELSE 0
        BY <1>5, <3>1, FileFields
      <3> QED
        BY <2>1, <2>3, <3>1, <3>2
    <2>4. CASE ~(n < D) /\ n = Final
      BY <2>1, <2>2, <2>4
    <2>5. CASE ~(n < D) /\ n # Final /\ F > D
      <3>1. PICK c \in 1..C : c = n - D + 1
        BY <1>6, <2>5
      <3>2. D + c - 1 = n
        BY <1>6, <3>1
      <3>3. IndirectBlock[c].ino = IF D + c - 1 < F THEN FirstBlock + (D + c - 1) ELSE 0
        BY <1>3, <1>4, <1>5, <3>1, IndirectCells
      <3>4. FileInode.indirect = 2 /\ 2 # 0
        BY <2>2, <2>5
      <3>5. At(m, <<2, n>>) = IndirectBlock[c].ino
        BY <1>2, <1>3, <1>5, <2>1, <2>5, <3>1, <3>4
      <3> QED
        BY <2>5, <3>2, <3>3, <3>5
    <2>6. CASE ~(n < D) /\ n # Final /\ ~(F > D)
      <3>1. FileInode.indirect = 0 /\ ~(n < F)
        BY <1>6, <2>2, <2>6
      <3> QED
        BY <2>1, <2>6, <3>1
    <2> QED
      BY <2>3, <2>4, <2>5, <2>6
  <1> QED
    BY <1>1, <1>3, <1>5, <1>7, <1>8

LEMMA ImageTaken ==
    LET m == OnDisk(Image)
        P == Have(Live(Image))
    IN  Closed(P) /\ Apart(m, P) /\ Taken(m, P) = 1..(FirstFree - 1)
  <1>1. PICK m : m = OnDisk(Image)
    OBVIOUS
  <1>2. PICK P : P = Have(Live(Image))
    OBVIOUS
  <1>3. Closed(P)
    BY <1>2, ClosedHave DEF Live
  <1>4. PICK D \in Nat : D = NDIRECT /\ D > 0
    BY Sizes
  <1>5. PICK C \in Nat : C = CPB /\ C > 0
    BY Sizes
  <1>6. PICK F \in Nat : F = FileBlocks /\ F <= D + C /\ (ImageSize > 0 <=> F > 0)
    BY <1>4, <1>5, ImageSizes DEF Final
  <1>7. PICK B \in Nat : B = FirstBlock /\ B = 2 + (IF F > D THEN 1 ELSE 0)
    BY <1>4, <1>6, ImageSizes
  <1>8. PICK N \in Nat : N = NBLOCKS
    BY Sizes
  <1>9. PICK G \in Nat : G = FirstFree /\ G = B + F /\ G <= N + 1
    BY <1>6, <1>7, <1>8, ImageSizes
  <1>10. Slots = 0..(D + C) /\ Final = D + C
    BY <1>4, <1>5 DEF Slots, Final
  <1>11. \A n \in Slots : At(m, <<1, n>>) = IF n = 0 THEN 1 ELSE 0
    BY <1>1, ImagePlaces
  <1>12. F > 0 => \A n \in Slots : At(m, <<2, n>>) =
           IF n = D + C THEN (IF F > D THEN 2 ELSE 0) ELSE IF n < F THEN B + n ELSE 0
    BY <1>1, <1>4, <1>6, <1>7, <1>10, ImagePlaces
  <1>13. ASSUME NEW p \in P
         PROVE  \E i, n : /\ p = <<i, n>> /\ n \in 0..(D + C) /\ (i = 1 \/ (i = 2 /\ F > 0))
                          /\ At(m, p) = IF i = 1 THEN IF n = 0 THEN 1 ELSE 0
                                        ELSE IF n = D + C THEN (IF F > D THEN 2 ELSE 0)
                                        ELSE IF n < F THEN B + n ELSE 0
    <2>1. PICK i \in Live(Image), n \in Slots : p = <<i, n>>
      BY <1>2 DEF Have
    <2>2. i = 1 \/ (i = 2 /\ F > 0)
      BY <1>6, ImageDisk
    <2>3. n \in 0..(D + C)
      BY <1>10
    <2>4. At(m, p) = IF i = 1 THEN IF n = 0 THEN 1 ELSE 0
                     ELSE IF n = D + C THEN (IF F > D THEN 2 ELSE 0)
                     ELSE IF n < F THEN B + n ELSE 0
      <3>1. CASE i = 1
        BY <1>11, <2>1, <3>1
      <3>2. CASE i = 2 /\ F > 0
        BY <1>12, <2>1, <3>2
      <3> QED
        BY <2>2, <3>1, <3>2
    <2> QED
      BY <2>1, <2>2, <2>3, <2>4
  <1>14. ASSUME NEW p \in P, NEW q \in P \ {p}, At(m, q) = At(m, p)
         PROVE  At(m, p) = 0
    <2>1. PICK i, n : /\ p = <<i, n>> /\ n \in 0..(D + C) /\ (i = 1 \/ (i = 2 /\ F > 0))
                      /\ At(m, p) = IF i = 1 THEN IF n = 0 THEN 1 ELSE 0
                                    ELSE IF n = D + C THEN (IF F > D THEN 2 ELSE 0)
                                    ELSE IF n < F THEN B + n ELSE 0
      BY <1>13
    <2>2. PICK j, k : /\ q = <<j, k>> /\ k \in 0..(D + C) /\ (j = 1 \/ (j = 2 /\ F > 0))
                      /\ At(m, q) = IF j = 1 THEN IF k = 0 THEN 1 ELSE 0
                                    ELSE IF k = D + C THEN (IF F > D THEN 2 ELSE 0)
                                    ELSE IF k < F THEN B + k ELSE 0
      <3>1. q \in P
        OBVIOUS
      <3> QED
        BY <1>13, <3>1
    <2>3. i # j \/ n # k
      BY <2>1, <2>2
    <2>4. n \in Nat /\ k \in Nat
      BY <2>1, <2>2
    <2>5. PICK x, y : x = At(m, p) /\ y = At(m, q) /\ x = y
      BY <1>14
    <2>6. x = 0
      BY <1>7, <2>1, <2>2, <2>3, <2>4, <2>5
    <2> QED
      BY <2>5, <2>6
  <1>15. ASSUME NEW p \in P
         PROVE  At(m, p) \in 0..N /\ At(m, p) < G
    <2>1. PICK i, n : /\ p = <<i, n>> /\ n \in 0..(D + C) /\ (i = 1 \/ (i = 2 /\ F > 0))
                      /\ At(m, p) = IF i = 1 THEN IF n = 0 THEN 1 ELSE 0
                                    ELSE IF n = D + C THEN (IF F > D THEN 2 ELSE 0)
                                    ELSE IF n < F THEN B + n ELSE 0
      BY <1>13
    <2> QED
      BY <1>7, <1>9, <2>1
  <1>16. Apart(m, P)
    BY <1>8, <1>14, <1>15 DEF Apart
  <1>17. ASSUME NEW b \in 1..(G - 1)
         PROVE  \E p \in P : At(m, p) = b
    <2>1. 1 \in Live(Image) /\ (F > 0 => 2 \in Live(Image))
      BY <1>6, ImageDisk
    <2>2. \A n \in Slots : <<1, n>> \in P /\ (F > 0 => <<2, n>> \in P)
      BY <1>2, <2>1 DEF Have
    <2>3. CASE b = 1
      <3>1. 0 \in Slots
        BY <1>10
      <3> QED
        BY <1>11, <2>2, <2>3, <3>1
    <2>4. CASE b = 2 /\ F > D
      <3>1. D + C \in Slots /\ F > 0
        BY <1>10, <2>4
      <3>2. At(m, <<2, D + C>>) = 2
        BY <1>12, <2>4, <3>1
      <3> QED
        BY <2>2, <2>4, <3>1, <3>2
    <2>5. CASE b >= B
      <3>1. PICK n \in Nat : b = B + n
        <4>1. b - B \in Nat
          BY <2>5
        <4> QED
          BY <4>1
      <3>2. n < F /\ F > 0 /\ n \in 0..(D + C) /\ n # D + C
        BY <1>6, <1>9, <3>1
      <3>3. n \in Slots
        BY <1>10, <3>2
      <3>4. At(m, <<2, n>>) = B + n
        BY <1>12, <3>2, <3>3
      <3> QED
        BY <2>2, <3>1, <3>2, <3>3, <3>4
    <2> QED
      BY <1>7, <2>3, <2>4, <2>5
  <1>18. Taken(m, P) = 1..(G - 1)
    <2>1. \A b \in Taken(m, P) : b \in 1..(G - 1)
      <3>1. SUFFICES ASSUME NEW b \in Taken(m, P)
                     PROVE  b \in 1..(G - 1)
        OBVIOUS
      <3>2. PICK p \in P : b = At(m, p) /\ b # 0
        BY DEF Taken
      <3>3. b \in 0..N /\ b < G
        BY <1>15, <3>2
      <3> QED
        BY <3>2, <3>3
    <2>2. \A b \in 1..(G - 1) : b \in Taken(m, P)
      BY <1>17 DEF Taken
    <2> QED
      BY <2>1, <2>2
  <1> QED
    BY <1>1, <1>2, <1>3, <1>9, <1>16, <1>18

LEMMA ImageOwned ==
    Owned(OnDisk(Image), Have(Live(Image)), {})
  <1>1. PICK m : m = OnDisk(Image)
    OBVIOUS
  <1>2. PICK P : P = Have(Live(Image))
    OBVIOUS
  <1>3. PICK N \in Nat : N = NBLOCKS
    BY Sizes
  <1>4. PICK G \in Nat : G = FirstFree /\ G <= N + 1 /\ G >= 2
    <2>1. PICK x \in {0, 1} : x = IF FileBlocks > NDIRECT THEN 1 ELSE 0
      OBVIOUS
    <2>2. PICK F \in Nat : F = FileBlocks
      BY ImageSizes
    <2>3. FirstFree = 2 + x + F
      BY <2>1, <2>2, ImageSizes
    <2> QED
      BY <1>3, <2>3, ImageSizes
  <1>5. Closed(P) /\ Apart(m, P) /\ Taken(m, P) = 1..(G - 1)
    BY <1>1, <1>2, <1>4, ImageTaken
  <1>6. m \in Store
    BY <1>1, ImageDisk, DiskParts
  <1>7. m.fl = IF G <= N THEN G ELSE 0
    BY <1>1, <1>3, <1>4, ImageDisk DEF OnDisk
  <1>8. \A b \in 1..N : b >= G => m.block[b][1].ino = IF b < N THEN b + 1 ELSE 0
    BY <1>1, <1>3, <1>4, ImageBlocks DEF OnDisk, Blocks
  <1>9. Chain(m, G..N)
    <2>1. PICK n \in Nat : n = N + 1 - G
      BY <1>4
    <2>2. PICK q : q = [i \in 0..n |-> IF i = n THEN 0 ELSE G + i]
      OBVIOUS
    <2>3. \A i \in 0..n : q[i] = IF i = n THEN 0 ELSE G + i
      BY <2>2
    <2>4. \A i \in 0..(n - 1) : /\ i \in 0..n /\ i # n /\ i + 1 \in 0..n
                                /\ G + i \in 1..N /\ G + i >= G /\ (G + i < N <=> i + 1 # n)
                                /\ G + (i + 1) = (G + i) + 1 /\ G + i # 0
      BY <1>4, <2>1
    <2>5. q \in [0..n -> 0..N]
      <3>1. \A i \in 0..n : q[i] \in 0..N
        BY <1>4, <2>1, <2>3
      <3> QED
        BY <2>2, <3>1
    <2>6. q[0] = m.fl
      <3>1. 0 \in 0..n /\ (n = 0 <=> ~(G <= N))
        BY <1>4, <2>1
      <3> QED
        BY <1>7, <2>3, <3>1
    <2>7. q[n] = 0
      <3>1. n \in 0..n
        BY <2>1
      <3> QED
        BY <2>3, <3>1
    <2>8. \A i \in 0..(n - 1) : q[i] = G + i /\ q[i] # 0
      BY <2>3, <2>4
    <2>9. \A i \in 0..(n - 1) : m.block[q[i]][1].ino = q[i + 1]
      <3>1. SUFFICES ASSUME NEW i \in 0..(n - 1)
                     PROVE  m.block[q[i]][1].ino = q[i + 1]
        OBVIOUS
      <3>2. PICK b \in 1..N : b = G + i
        BY <2>4
      <3>3. m.block[b][1].ino = IF b < N THEN b + 1 ELSE 0
        BY <1>8, <2>4, <3>2
      <3>4. q[i + 1] = IF i + 1 = n THEN 0 ELSE G + (i + 1)
        BY <2>3, <2>4
      <3>5. q[i] = b /\ (b < N <=> i + 1 # n) /\ G + (i + 1) = b + 1
        BY <2>4, <2>8, <3>2
      <3> QED
        BY <3>3, <3>4, <3>5
    <2>10. \A i, j \in 0..(n - 1) : q[j] = q[i] => j = i
      <3>1. SUFFICES ASSUME NEW i \in 0..(n - 1), NEW j \in 0..(n - 1), q[j] = q[i]
                     PROVE  j = i
        OBVIOUS
      <3>2. G + j = G + i
        BY <2>8, <3>1
      <3> QED
        BY <3>2
    <2>11. ChainOf(m, n, q)
      BY <1>3, <2>5, <2>6, <2>7, <2>8, <2>9, <2>10 DEF ChainOf
    <2>12. Links(n, q) = G..N
      <3>1. \A i \in 0..(n - 1) : q[i] \in G..N
        BY <2>1, <2>8
      <3>2. \A b \in G..N : \E i \in 0..(n - 1) : q[i] = b
        <4>1. SUFFICES ASSUME NEW b \in G..N
                       PROVE  \E i \in 0..(n - 1) : q[i] = b
          OBVIOUS
        <4>2. b - G \in 0..(n - 1) /\ G + (b - G) = b
          BY <2>1
        <4> QED
          BY <2>8, <4>2
      <3> QED
        BY <3>1, <3>2 DEF Links
    <2> QED
      BY <2>11, <2>12 DEF Chain
  <1>10. Blocks \ (Taken(m, P) \cup {}) = G..N
    BY <1>3, <1>4, <1>5 DEF Blocks
  <1> QED
    BY <1>1, <1>2, <1>5, <1>6, <1>9, <1>10 DEF Owned

LEMMA ImageTree ==
    TreeOK(Image) /\ (ImageSize > 0 => NamesIt(Image, 1, 2))
  <1>1. Dirs(Image) = {1} /\ 1 \in Live(Image) /\ (ImageSize > 0 => 2 \in Live(Image))
    BY ImageDisk
  <1>2. PICK C \in Nat : C = CPB /\ C >= 2 /\ C > 0 /\ (ImageSize > 0 => C >= 3)
    BY Sizes, ImageSizes
  <1>3. PICK z \in Nat : z = Image.inode[1].size /\ z = IF ImageSize > 0 THEN 3 ELSE 2
    BY ImageInodes, RootFields
  <1>4. Spots(Image, 1) = 0..(z - 1)
    BY <1>3 DEF Spots
  <1>5. ASSUME NEW k \in 0..(z - 1)
        PROVE  /\ k \div CPB = 0 /\ k \div CPB < Final /\ SpotAt(Image, 1, k) = 1
               /\ CellOf(Image, 1, k) = RootBlock[k + 1]
    <2>1. k \in 0..(C - 1)
      BY <1>2, <1>3
    <2>2. k \div C = 0 /\ k % C = k
      <3>1. k \in Nat /\ 0 \in Nat /\ k = C * 0 + k
        BY <2>1
      <3> QED
        BY <1>2, <2>1, <3>1, Division
    <2>3. 0 < Final
      <3>1. PICK D \in Nat : D = NDIRECT
        BY Sizes
      <3> QED
        BY <1>2, <3>1 DEF Final
    <2>4. 0 \in Slots
      <3>1. PICK D \in Nat : D = NDIRECT
        BY Sizes
      <3> QED
        BY <1>2, <3>1 DEF Slots
    <2>5. SpotAt(Image, 1, k) = 1
      BY <1>2, <2>2, <2>4, ImagePlaces DEF SpotAt
    <2>6. CellOf(Image, 1, k) = RootBlock[k + 1]
      BY <1>2, <2>2, <2>5, ImageBlocks DEF CellOf
    <2> QED
      BY <1>2, <2>2, <2>3, <2>5, <2>6
  <1>6. ImageName \in Names /\ ImageName \notin {".", ".."}
    BY ImageSizes, MiniFsAssumption
  <1>7. /\ 1 \in 0..NINODES /\ (ImageSize > 0 => 2 \in 0..NINODES)
        /\ "." \in Names \cup {".", ".."} /\ ".." \in Names \cup {".", ".."}
        /\ ImageName \in Names \cup {".", ".."}
    BY <1>6, Sizes, ImageSizes
  <1>8. /\ Entry(".", 1).ino = 1 /\ Entry(".", 1).name = "."
        /\ Entry("..", 1).ino = 1 /\ Entry("..", 1).name = ".."
        /\ ImageSize > 0 => Entry(ImageName, 2).ino = 2 /\ Entry(ImageName, 2).name = ImageName
    BY <1>7, Sizes
  <1>9. ASSUME NEW k \in 0..(z - 1)
        PROVE  /\ Proper(Image, CellOf(Image, 1, k))
               /\ IsName(CellOf(Image, 1, k)) => k = 2
    <2>1. PICK c : c = CellOf(Image, 1, k)
      OBVIOUS
    <2>2. c = RootBlock[k + 1]
      BY <1>5, <2>1
    <2>3. k = 0 \/ k = 1 \/ (k = 2 /\ ImageSize > 0)
      BY <1>3
    <2>4. CASE k = 0
      <3>1. c = Entry(".", 1)
        BY <2>2, <2>4, RootCells
      <3>2. c.name = "." /\ c.ino = 1
        BY <1>8, <3>1
      <3>3. c.name \in {".", ".."} /\ c.ino \in Dirs(Image)
        BY <1>1, <3>2
      <3> QED
        BY <2>1, <3>3 DEF Proper, IsName
    <2>5. CASE k = 1
      <3>1. c = Entry("..", 1)
        BY <2>2, <2>5, RootCells
      <3>2. c.name = ".." /\ c.ino = 1
        BY <1>8, <3>1
      <3>3. c.name \in {".", ".."} /\ c.ino \in Dirs(Image)
        BY <1>1, <3>2
      <3> QED
        BY <2>1, <3>3 DEF Proper, IsName
    <2>6. CASE k = 2 /\ ImageSize > 0
      <3>1. c = Entry(ImageName, 2)
        BY <2>2, <2>6, RootCells
      <3>2. c.name = ImageName /\ c.ino = 2
        BY <1>8, <2>6, <3>1
      <3>3. c.name \in Names /\ c.ino \in Live(Image) \ {1}
        BY <1>1, <1>6, <2>6, <3>2
      <3> QED
        BY <2>1, <2>6, <3>3 DEF Proper
    <2> QED
      BY <2>3, <2>4, <2>5, <2>6
  <1>10. \A i \in Dirs(Image) : \A k \in Spots(Image, i) :
            k \div CPB < Final /\ SpotAt(Image, i, k) # 0 /\ Proper(Image, CellOf(Image, i, k))
    <2>1. \A k \in Spots(Image, 1) :
            k \div CPB < Final /\ SpotAt(Image, 1, k) # 0 /\ Proper(Image, CellOf(Image, 1, k))
      BY <1>4, <1>5, <1>9
    <2> QED
      BY <1>1, <2>1
  <1>11. \A i, j \in Dirs(Image) : \A k \in Spots(Image, i), l \in Spots(Image, j) :
            IsName(CellOf(Image, i, k)) /\ IsName(CellOf(Image, j, l)) => i = j /\ k = l
    <2>1. \A k, l \in Spots(Image, 1) :
            IsName(CellOf(Image, 1, k)) /\ IsName(CellOf(Image, 1, l)) => k = l
      BY <1>4, <1>9
    <2> QED
      BY <1>1, <2>1
  <1>12. ASSUME ImageSize > 0
         PROVE  NamesIt(Image, 1, 2)
    <2>1. z = 3 /\ 2 \in 0..(z - 1)
      BY <1>3, <1>12
    <2>2. PICK c : c = CellOf(Image, 1, 2)
      OBVIOUS
    <2>3. c = RootBlock[3]
      BY <1>5, <2>1, <2>2
    <2>4. c = Entry(ImageName, 2)
      BY <1>12, <2>3, RootCells
    <2>5. c.ino = 2 /\ c.name \notin {".", ".."}
      BY <1>6, <1>8, <1>12, <2>4
    <2> QED
      BY <1>1, <1>4, <2>1, <2>2, <2>5 DEF NamesIt, IsName
  <1> QED
    BY <1>1, <1>10, <1>11, <1>12 DEF TreeOK

LEMMA ImageWhole ==
    Whole(Booted(Image), {})
  <1>1. PICK s : s = Booted(Image)
    OBVIOUS
  <1>2. s.d = Image /\ \A i \in Inodes : s.ic[i].ref = 0
    <2>1. s.ic = [i \in Inodes |-> NoSlot] /\ s.d = Image
      BY <1>1 DEF Booted
    <2> QED
      BY <2>1, NoSlotType
  <1>3. ASSUME NEW j \in Inodes \ {1}
        PROVE  /\ Image.inode[j].nlink <= 1
               /\ Image.inode[j].type # "FREE" => Image.inode[j].nlink > 0
    <2>1. CASE j = 2 /\ ImageSize > 0
      BY <2>1, ImageInodes, FileFields
    <2>2. CASE ~(j = 2 /\ ImageSize > 0)
      <3>1. Image.inode[j] = EmptyInode
        BY <2>2, ImageInodes
      <3> QED
        BY <3>1, NoSlotType
    <2> QED
      BY <2>1, <2>2
  <1>4. Image.inode[1].nlink > 0
    BY ImageInodes, RootFields
  <1>5. ASSUME NEW j \in Live(Image)
        PROVE  j \in Reach(Image)
    <2>1. j = 1 \/ (j = 2 /\ ImageSize > 0)
      BY ImageDisk
    <2>2. ImageSize > 0 => 2 \in Reach(Image)
      <3>1. ImageSize > 0 => 2 \in Inodes
        BY ImageInodes
      <3> QED
        BY <3>1, ImageTree, ReachRoot, ReachStep
    <2> QED
      BY <2>1, <2>2, ReachRoot
  <1>6. ~(0 > 0)
    OBVIOUS
  <1>7. \A j \in Inodes \ {1} : s.d.inode[j].nlink <= 1 /\ (s.ic[j].ref > 0 => s.ic[j].di.nlink <= 1)
    BY <1>2, <1>3, <1>6
  <1>8. \A j \in Inodes : s.ic[j].ref = 0 /\ s.d.inode[j].type # "FREE" => s.d.inode[j].nlink > 0
    BY <1>2, <1>3, <1>4
  <1>9. \A j \in Live(s.d) : j \in Reach(s.d) \/ j \in {} \/ Unlinked(s, j)
    BY <1>2, <1>5
  <1> QED
    BY <1>1, <1>7, <1>8, <1>9 DEF Whole

LEMMA IInvFirst ==
    Init => IInv
  <1>1. SUFFICES ASSUME Init
                 PROVE  IInv
    OBVIOUS
  <1>2. Safe(Image)
    <2>1. {} \in SUBSET Blocks
      OBVIOUS
    <2> QED
      BY <2>1, ImageDisk, ImageOwned, ImageTree DEF Safe
  <1>3. Counters
    <2>1. PICK M \in Nat : M = MAXOPEN
      BY MiniFsAssumption
    <2>2. 0 \in 0..M
      OBVIOUS
    <2>3. fds \in [Inodes -> 0..MAXOPEN]
      BY <1>1, <2>1, <2>2 DEF Init
    <2>4. 0 \in 0..MaxCrashes /\ 0 \in 0..MaxWrites
      <3>1. PICK x, y \in Nat : x = MaxCrashes /\ y = MaxWrites
        BY MiniFsAssumption
      <3> QED
        BY <3>1
    <2> QED
      BY <1>1, <2>3, <2>4 DEF Init, Counters
  <1>4. Stopped
    BY <1>1, ImageOwned, ImageWhole DEF Init, Stopped, Complete
  <1> QED
    BY <1>1, <1>2, <1>3, <1>4 DEF Init, FsInv, IInv

-----------------------------------------------------------------------------
(* What the properties look at                                             *)

\* Nobody has as many blocks as there are steps in a longer chain.
LEMMA ChainShort ==
    ASSUME NEW m, NEW n \in Nat, NEW q, ChainOf(m, n, q)
    PROVE  n <= NBLOCKS
  <1>1. PICK N \in Nat : N = NBLOCKS
    BY Sizes
  <1>2. Blocks = 1..N
    BY <1>1 DEF Blocks
  <1>3. /\ q \in [0..n -> 0..N]
        /\ \A i \in 0..(n - 1) : q[i] # 0 /\ \A j \in 0..(n - 1) : q[j] = q[i] => j = i
    BY <1>1 DEF ChainOf
  <1> SUFFICES ASSUME n > N
               PROVE  FALSE
    BY <1>1
  <1> DEFINE S == 0..N
             T == 1..N
             r == [i \in S |-> q[i]]
  <1>4. IsFiniteSet(S) /\ Cardinality(S) = N + 1
    <2>1. 0 \in Int /\ N \in Int /\ ~(0 > N)
      OBVIOUS
    <2>2. IsFiniteSet(0..N) /\ Cardinality(0..N) = N - 0 + 1
      BY <2>1, FS_Interval
    <2> QED
      BY <2>2
  <1>5. IsFiniteSet(T) /\ Cardinality(T) = N
    <2>1. 1 \in Int /\ N \in Int /\ (1 > N => N = 0)
      OBVIOUS
    <2>2. IsFiniteSet(1..N) /\ Cardinality(1..N) = IF 1 > N THEN 0 ELSE N - 1 + 1
      BY <2>1, FS_Interval
    <2> QED
      BY <2>1, <2>2
  <1>6. \A i \in S : i \in 0..(n - 1) /\ i \in 0..n /\ r[i] = q[i]
    OBVIOUS
  <1>7. r \in [S -> T]
    <2>1. \A i \in S : q[i] \in T
      <3>1. \A i \in S : q[i] \in 0..N /\ q[i] # 0
        BY <1>3, <1>6
      <3> QED
        BY <3>1
    <2> QED
      BY <2>1
  <1> HIDE DEF S, T, r
  <1>8. Cardinality(T) < Cardinality(S)
    BY <1>4, <1>5
  <1>9. PICK x, y \in S : x # y /\ r[x] = r[y]
    BY <1>4, <1>5, <1>7, <1>8, FS_PigeonHole
  <1> QED
    BY <1>3, <1>6, <1>9

LEMMA FreeListWalked ==
    ASSUME NEW v, NEW n \in Nat, NEW q, ChainOf(Kernel(v), n, q)
    PROVE  /\ DOMAIN FreeList(v) = 0..NBLOCKS
           /\ \A k \in 0..NBLOCKS : FreeList(v)[k] = IF k <= n THEN q[k] ELSE 0
           /\ FreeList(v)[NBLOCKS] = 0
  <1>1. PICK N \in Nat : N = NBLOCKS
    BY Sizes
  <1>2. n <= N
    BY <1>1, ChainShort
  <1>3. /\ q \in [0..n -> 0..N] /\ q[0] = v.fl /\ q[n] = 0
        /\ \A i \in 0..(n - 1) : q[i] # 0 /\ v.d.block[q[i]][1].ino = q[i + 1]
    BY <1>1 DEF ChainOf, Kernel
  <1> DEFINE Next1(b) == IF b \in Blocks THEN v.d.block[b][1].ino ELSE b
             G(f) == [k \in 0..N |-> IF k = 0 THEN v.fl ELSE Next1(f[k - 1])]
             h == [k \in 0..N |-> IF k <= n THEN q[k] ELSE 0]
             g == CHOOSE f : f = G(f)
  <1>4. \A b \in 0..N : b # 0 => b \in Blocks
    BY <1>1 DEF Blocks
  <1>5. 0 \notin Blocks
    BY Sizes
  <1>6. ASSUME NEW k \in 1..N
        PROVE  k \in 0..N /\ k - 1 \in 0..N /\ h[k] = Next1(h[k - 1])
    <2>1. k \in 0..N /\ k - 1 \in 0..N /\ (k - 1) + 1 = k
      OBVIOUS
    <2>2. CASE k <= n
      <3>1. k - 1 \in 0..(n - 1) /\ k - 1 \in 0..n /\ k - 1 <= n
        BY <2>2
      <3>2. h[k] = q[k] /\ h[k - 1] = q[k - 1]
        BY <2>1, <2>2, <3>1
      <3>3. q[k - 1] # 0 /\ q[k - 1] \in 0..N /\ v.d.block[q[k - 1]][1].ino = q[k]
        BY <1>3, <2>1, <3>1
      <3>4. q[k - 1] \in Blocks
        BY <1>4, <3>3
      <3> HIDE DEF h
      <3> QED
        BY <2>1, <3>2, <3>3, <3>4
    <2>3. CASE ~(k <= n)
      <3>1. h[k] = 0
        BY <2>1, <2>3
      <3>2. h[k - 1] = 0
        <4>1. CASE k - 1 <= n
          <5>1. k - 1 = n
            BY <2>3, <4>1
          <5> QED
            BY <1>3, <2>1, <4>1, <5>1
        <4>2. CASE ~(k - 1 <= n)
          BY <2>1, <4>2
        <4> QED
          BY <4>1, <4>2
      <3> HIDE DEF h
      <3> QED
        BY <1>5, <2>1, <3>1, <3>2
    <2> QED
      BY <2>2, <2>3
  <1>7. 0 \in 0..N /\ N \in 0..N /\ 0 <= n /\ h[0] = q[0]
    OBVIOUS
  <1> HIDE DEF Next1
  <1>8. h = G(h)
    <2>1. \A k \in 0..N : k = 0 \/ k \in 1..N
      OBVIOUS
    <2>2. \A k \in 0..N : h[k] = IF k = 0 THEN v.fl ELSE Next1(h[k - 1])
      BY <1>3, <1>6, <1>7, <2>1
    <2>3. h = [k \in 0..N |-> h[k]]
      OBVIOUS
    <2> HIDE DEF h
    <2> QED
      BY <2>2, <2>3
  <1>9. g = G(g)
    <2> HIDE DEF h, G
    <2> QED
      BY <1>8
  <1>10. FreeList(v) = g
    BY <1>1 DEF FreeList, Next1
  <1> HIDE DEF g
  <1>11. g[0] = v.fl /\ \A k \in 1..N : g[k] = Next1(g[k - 1])
    <2>1. \A k \in 1..N : k \in 0..N /\ k # 0
      OBVIOUS
    <2> QED
      BY <1>7, <1>9, <2>1
  <1>12. \A k \in 0..N : g[k] = h[k]
    <2> DEFINE V == [k \in 0..N |-> {h[k]}]
    <2>1. g[0] \in V[0]
      BY <1>3, <1>7, <1>11
    <2>2. \A k \in 1..N : g[k - 1] \in V[k - 1] => g[k] \in V[k]
      <3>1. SUFFICES ASSUME NEW k \in 1..N, g[k - 1] \in V[k - 1]
                     PROVE  g[k] \in V[k]
        OBVIOUS
      <3>2. k \in 0..N /\ k - 1 \in 0..N /\ h[k] = Next1(h[k - 1])
        BY <1>6
      <3>3. g[k - 1] = h[k - 1]
        BY <3>1, <3>2
      <3>4. g[k] = h[k]
        BY <1>11, <3>2, <3>3
      <3> QED
        BY <3>2, <3>4
    <2>3. \A k \in 0..N : g[k] \in V[k]
      <3> HIDE DEF V
      <3> QED
        BY <2>1, <2>2, Induct
    <2> QED
      BY <2>3
  <1>13. DOMAIN g = 0..N
    BY <1>9
  <1>14. g[N] = 0
    <2>1. CASE N <= n
      <3>1. N = n
        BY <1>2, <2>1
      <3> QED
        BY <1>3, <1>7, <1>12, <3>1
    <2>2. CASE ~(N <= n)
      BY <1>7, <1>12, <2>2
    <2> QED
      BY <2>1, <2>2
  <1> QED
    BY <1>1, <1>10, <1>12, <1>13, <1>14

\* A state in which every inode is cached.
Full(v) == \A i \in Inodes : v.ic[i].ref > 0

LEMMA BlockAtPlace ==
    ASSUME NEW v, Full(v), NEW i \in Inodes, NEW n \in Slots
    PROVE  BlockAt(v, i, n) = At(Kernel(v), <<i, n>>)
  <1>1. PICK D \in Nat : D = NDIRECT
    BY Sizes
  <1>2. PICK C \in Nat : C = CPB /\ C > 0
    BY Sizes
  <1>3. n \in 0..(D + C) /\ Final = D + C
    BY <1>1, <1>2 DEF Slots, Final
  <1>4. n \in Nat /\ (n < D + C \/ n = D + C)
    BY <1>3
  <1>5. CASE n < D + C
    <2>1. BlockAt(v, i, n) = Mapped(v, i, n)
      BY <1>1, <1>2, <1>5 DEF BlockAt
    <2> QED
      BY <1>3, <1>4, <1>5, <2>1, MappedAt DEF Full
  <1>6. CASE n = D + C
    <2>1. BlockAt(v, i, n) = v.ic[i].di.indirect
      BY <1>1, <1>2, <1>6 DEF BlockAt
    <2>2. At(Kernel(v), <<i, n>>) = Kernel(v).ino[i].indirect
      BY <1>1, <1>2, <1>3, <1>6 DEF At
    <2> QED
      BY <2>1, <2>2, KernelIno DEF Full
  <1> QED
    BY <1>4, <1>5, <1>6

\* The blocks of the inodes J, and those on the free list.
LEMMA ViewOwned ==
    ASSUME NEW v, Full(v), NEW J \in SUBSET Inodes, NEW X, Owned(Kernel(v), Have(J), X)
    PROVE  /\ \A i \in J : BlocksOf(v, i) \cap Free(v) = {}
           /\ \A i \in J : \A n, m \in Slots :
                 n # m /\ BlockAt(v, i, n) # 0 => BlockAt(v, i, n) # BlockAt(v, i, m)
           /\ \A i, j \in J : i # j => BlocksOf(v, i) \cap BlocksOf(v, j) = {}
           /\ FreeList(v)[NBLOCKS] = 0
           /\ Blocks \subseteq Free(v) \cup X \cup UNION {BlocksOf(v, i) : i \in J}
  <1>1. PICK k : k = Kernel(v)
    OBVIOUS
  <1>2. PICK P : P = Have(J)
    OBVIOUS
  <1>3. Apart(k, P) /\ Chain(k, Blocks \ (Taken(k, P) \cup X))
    BY <1>1, <1>2 DEF Owned
  <1>4. \A i \in J, n \in Slots : <<i, n>> \in P /\ BlockAt(v, i, n) = At(k, <<i, n>>)
    BY <1>1, <1>2, BlockAtPlace DEF Have
  <1>5. PICK n, q : n \in Nat /\ ChainOf(k, n, q) /\ Blocks \ (Taken(k, P) \cup X) = Links(n, q)
    BY <1>3 DEF Chain
  <1>6. /\ DOMAIN FreeList(v) = 0..NBLOCKS
        /\ \A x \in 0..NBLOCKS : FreeList(v)[x] = IF x <= n THEN q[x] ELSE 0
        /\ FreeList(v)[NBLOCKS] = 0
    BY <1>1, <1>5, FreeListWalked
  <1>7. n \in Nat /\ n <= NBLOCKS /\ NBLOCKS \in Nat
    BY <1>5, ChainShort, Sizes
  <1>8. Free(v) = Links(n, q)
    <2>1. \A b \in Free(v) : b \in Links(n, q)
      <3>1. SUFFICES ASSUME NEW b \in Free(v)
                     PROVE  b \in Links(n, q)
        OBVIOUS
      <3>2. PICK x \in 0..NBLOCKS : b = FreeList(v)[x] /\ b # 0
        BY <1>6 DEF Free, Range
      <3>3. x <= n /\ b = q[x]
        BY <1>6, <3>2
      <3>4. x # n
        BY <1>5, <3>2, <3>3 DEF ChainOf
      <3>5. x \in 0..(n - 1)
        BY <1>7, <3>3, <3>4
      <3> QED
        BY <3>3, <3>5 DEF Links
    <2>2. \A b \in Links(n, q) : b \in Free(v)
      <3>1. SUFFICES ASSUME NEW b \in Links(n, q)
                     PROVE  b \in Free(v)
        OBVIOUS
      <3>2. PICK x \in 0..(n - 1) : b = q[x]
        BY DEF Links
      <3>3. b # 0
        BY <1>5, <3>2 DEF ChainOf
      <3>4. x \in 0..NBLOCKS /\ x <= n
        BY <1>7
      <3>5. FreeList(v)[x] = b
        BY <1>6, <3>2, <3>4
      <3> QED
        BY <1>6, <3>3, <3>4, <3>5 DEF Free, Range
    <2> QED
      BY <2>1, <2>2
  <1>9. ASSUME NEW i \in J, NEW b \in BlocksOf(v, i)
        PROVE  b \in Taken(k, P) /\ \E x \in Slots : b = At(k, <<i, x>>) /\ b # 0
    <2>1. PICK x \in Slots : b = BlockAt(v, i, x) /\ b # 0
      BY DEF BlocksOf
    <2>2. b = At(k, <<i, x>>) /\ <<i, x>> \in P
      BY <1>4, <2>1
    <2> QED
      BY <2>1, <2>2 DEF Taken
  <1>10. \A i \in J : BlocksOf(v, i) \cap Free(v) = {}
    BY <1>5, <1>8, <1>9
  <1>11. \A p, r \in P : p # r /\ At(k, p) # 0 => At(k, p) # At(k, r)
    BY <1>3 DEF Apart
  <1>12. ASSUME NEW i \in J, NEW x \in Slots, NEW y \in Slots, x # y, BlockAt(v, i, x) # 0
         PROVE  BlockAt(v, i, x) # BlockAt(v, i, y)
    <2>1. PICK p, r \in P : p = <<i, x>> /\ r = <<i, y>>
      BY <1>4
    <2>2. p # r
      BY <1>12, <2>1
    <2>3. At(k, p) = BlockAt(v, i, x) /\ At(k, r) = BlockAt(v, i, y)
      BY <1>4, <2>1
    <2> QED
      BY <1>11, <1>12, <2>2, <2>3
  <1>13. ASSUME NEW i \in J, NEW j \in J, i # j
         PROVE  BlocksOf(v, i) \cap BlocksOf(v, j) = {}
    <2>1. SUFFICES ASSUME NEW b \in BlocksOf(v, i), b \in BlocksOf(v, j)
                   PROVE  FALSE
      OBVIOUS
    <2>2. PICK x \in Slots : b = At(k, <<i, x>>) /\ b # 0
      BY <1>9
    <2>3. PICK y \in Slots : b = At(k, <<j, y>>)
      BY <1>9, <2>1
    <2>4. PICK p, r \in P : p = <<i, x>> /\ r = <<j, y>>
      BY <1>4
    <2>5. p # r /\ At(k, p) = b /\ At(k, r) = b
      BY <1>13, <2>2, <2>3, <2>4
    <2> QED
      BY <1>11, <2>2, <2>5
  <1>14. ASSUME NEW b \in Taken(k, P)
         PROVE  \E i \in J : b \in BlocksOf(v, i)
    <2>1. PICK p \in P : b = At(k, p) /\ b # 0
      BY DEF Taken
    <2>2. PICK i \in J, x \in Slots : p = <<i, x>>
      BY <1>2 DEF Have
    <2>3. b = BlockAt(v, i, x)
      BY <1>4, <2>1, <2>2
    <2> QED
      BY <2>1, <2>3 DEF BlocksOf
  <1>15. Blocks \subseteq Free(v) \cup X \cup UNION {BlocksOf(v, i) : i \in J}
    BY <1>5, <1>8, <1>14
  <1> QED
    BY <1>6, <1>10, <1>12, <1>13, <1>15

LEMMA CellsSame ==
    ASSUME NEW s, NEW t, NEW i, s.ic[i].di = t.ic[i].di, s.d = t.d
    PROVE  /\ Cells(s, i) = Cells(t, i)
           /\ \A k : CellAt(s, i, k) = CellAt(t, i, k)
  <1>1. \A bn : Mapped(s, i, bn) = Mapped(t, i, bn)
    BY DEF Mapped
  <1>2. Readable(s, i) = Readable(t, i)
    BY <1>1 DEF Readable
  <1>3. \A k : CellAt(s, i, k) = CellAt(t, i, k)
    BY <1>1 DEF CellAt
  <1> QED
    BY <1>2, <1>3 DEF Cells

LEMMA DirCells ==
    ASSUME NEW d, Safe(d), NEW w \in Dirs(d), NEW v, v.d = d, v.ic[w].di = d.inode[w]
    PROVE  /\ DOMAIN Cells(v, w) = Spots(d, w)
           /\ \A k \in Spots(d, w) : Cells(v, w)[k] = CellOf(d, w, k)
  <1>1. PICK X : Owned(OnDisk(d), Have(Live(d)), X)
    BY DEF Safe
  <1>2. PICK s : s = Booted(d)
    OBVIOUS
  <1>3. Good(s, X) /\ InUse(s) = Live(d) /\ Kernel(s) = OnDisk(d) /\ s.d = d
    BY <1>1, <1>2, BootedGood DEF Safe
  <1>4. w \in InUse(s) /\ w # 0
    BY <1>3, LiveParts, Sizes DEF Safe
  <1>5. PICK t : t = Hold(s, w)
    OBVIOUS
  <1>6. Good(t, X) /\ t.d = d /\ t.ic[w].ref > 0 /\ t.ic[w].di = d.inode[w]
    <2>1. PICK i \in {0} \cup InUse(s) : i = w
      BY <1>4
    <2>2. /\ Good(t, X) /\ t.d = s.d
          /\ i # 0 => t.ic[i].ref > 0 /\ t.ic[i].di = Kernel(s).ino[i]
      BY <1>3, <1>5, <2>1, HoldSound
    <2>3. Kernel(s).ino[w] = d.inode[w]
      BY <1>3 DEF OnDisk
    <2> QED
      BY <1>3, <1>4, <2>1, <2>2, <2>3
  <1>7. Cells(v, w) = Cells(t, w)
    BY <1>6, CellsSame
  <1>8. Sound(t, X)
    BY <1>6, GoodParts
  <1> QED
    BY <1>6, <1>7, <1>8, ReadsDir

\* A view of the disk d has every inode in the cache, with the directories as on
\* the disk.
Shows(v, d) ==
    /\ Full(v) /\ v.d = d /\ \A i \in Inodes : v.ic[i].di.type = d.inode[i].type
    /\ \A i \in Dirs(d) : v.ic[i].di = d.inode[i]

LEMMA NamedLive ==
    ASSUME NEW d, Safe(d), NEW v, Shows(v, d), NEW i \in Live(d)
    PROVE  Named(v, i) \subseteq Live(d) \ {1}
  <1>1. SUFFICES ASSUME NEW e, e \in Entries(v, i), e.name \notin {".", ".."}
                 PROVE  e.ino \in Live(d) \ {1}
    BY DEF Named
  <1>2. v.ic[i].di.type = "DIR" /\ e \in Range(Cells(v, i)) /\ e.ino # 0
    <2>1. Entries(v, i) # {}
      BY <1>1
    <2>2. v.ic[i].di.type = "DIR"
      BY <2>1 DEF Entries
    <2> QED
      BY <1>1, <2>2 DEF Entries
  <1>3. i \in Dirs(d)
    <2>1. i \in Inodes
      BY DEF Live
    <2> QED
      BY <1>2, <2>1 DEF Shows, Dirs
  <1>4. PICK k \in Spots(d, i) : e = CellOf(d, i, k)
    <2>1. v.d = d /\ v.ic[i].di = d.inode[i]
      BY <1>3 DEF Shows
    <2>2. DOMAIN Cells(v, i) = Spots(d, i)
          /\ \A k \in Spots(d, i) : Cells(v, i)[k] = CellOf(d, i, k)
      BY <1>3, <2>1, DirCells
    <2> QED
      BY <1>2, <2>2 DEF Range
  <1>5. Proper(d, e)
    BY <1>3, <1>4 DEF Safe, TreeOK
  <1> QED
    BY <1>1, <1>2, <1>5 DEF Proper

\* Only inodes in use are reachable.
LEMMA ReachableLive ==
    ASSUME NEW d, Safe(d), NEW v, Shows(v, d)
    PROVE  Reachable(v) \subseteq Live(d)
  <1>1. PICK R : R = Live(d)
    OBVIOUS
  <1>2. R \in SUBSET Inodes /\ 1 \in R
    BY <1>1, LiveParts DEF Safe, TreeOK
  <1>3. \A i \in R : Named(v, i) \subseteq R
    BY <1>1, NamedLive
  <1> DEFINE named == [i \in Inodes |-> Named(v, i)]
  <1>4. \A i \in R : named[i] \subseteq R
    BY <1>2, <1>3
  <1> HIDE DEF named
  <1>5. R \in {Q \in SUBSET Inodes : 1 \in Q /\ \A i \in Q : named[i] \subseteq Q}
    BY <1>2, <1>4
  <1>6. Reachable(v) = {i \in Inodes : \A Q \in {Q \in SUBSET Inodes :
                           1 \in Q /\ \A j \in Q : named[j] \subseteq Q} : i \in Q}
    BY DEF Reachable, named
  <1> QED
    BY <1>1, <1>5, <1>6

LEMMA ViewShows ==
    ASSUME NEW d \in Disk
    PROVE  Shows(View(d), d) /\ Kernel(View(d)) = OnDisk(d)
  <1>1. PICK v : v = View(d)
    OBVIOUS
  <1>2. v.fl = d.free_list /\ v.d = d
        /\ v.ic = [i \in Inodes |-> [di |-> d.inode[i], ref |-> 1, dirty |-> FALSE]]
    BY <1>1 DEF View
  <1>3. \A i \in Inodes : v.ic[i].ref = 1 /\ v.ic[i].di = d.inode[i] /\ v.ic[i].ref > 0
    BY <1>2
  <1>4. [i \in Inodes |-> IF v.ic[i].ref > 0 THEN v.ic[i].di ELSE v.d.inode[i]] = d.inode
    <2>1. d.inode \in [Inodes -> DiskInode]
      BY DiskParts
    <2> QED
      BY <1>3, <2>1
  <1>5. Kernel(v) = OnDisk(d)
    BY <1>2, <1>4 DEF Kernel, OnDisk
  <1>6. Dirs(d) \subseteq Inodes
    BY LiveParts
  <1> QED
    BY <1>1, <1>2, <1>3, <1>5, <1>6 DEF Shows, Full

LEMMA SafeConsistent ==
    Safe(disk) => DiskConsistent
  <1>1. SUFFICES ASSUME Safe(disk)
                 PROVE  DiskConsistent
    OBVIOUS
  <1>2. PICK v : v = View(disk)
    OBVIOUS
  <1>3. PICK used : used = Reachable(v)
    OBVIOUS
  <1>4. disk \in Disk
    BY <1>1 DEF Safe
  <1>5. Shows(v, disk) /\ Kernel(v) = OnDisk(disk)
    BY <1>2, <1>4, ViewShows
  <1>6. used \subseteq Live(disk)
    BY <1>1, <1>3, <1>5, ReachableLive
  <1>7. PICK X : Owned(OnDisk(disk), Have(Live(disk)), X)
    BY <1>1 DEF Safe
  <1>8. PICK J \in SUBSET Inodes : J = Live(disk)
    BY <1>4, LiveParts
  <1>9. Full(v) /\ Owned(Kernel(v), Have(J), X)
    BY <1>5, <1>7, <1>8 DEF Shows
  <1>10. /\ \A i \in J : BlocksOf(v, i) \cap Free(v) = {}
         /\ \A i \in J : \A n, m \in Slots :
               n # m /\ BlockAt(v, i, n) # 0 => BlockAt(v, i, n) # BlockAt(v, i, m)
         /\ \A i, j \in J : i # j => BlocksOf(v, i) \cap BlocksOf(v, j) = {}
         /\ FreeList(v)[NBLOCKS] = 0
    BY <1>9, ViewOwned
  <1>11. \A i \in used : disk.inode[i].type # "FREE" /\ disk.inode[i].nlink > 0
    BY <1>6 DEF Live
  <1> QED
    BY <1>2, <1>3, <1>6, <1>8, <1>10, <1>11 DEF DiskConsistent

LEMMA IInvTypes ==
    IInv => stolen \/ TypeOK
  <1>1. SUFFICES ASSUME FsInv, stolen \in BOOLEAN
                 PROVE  TypeOK
    BY DEF IInv
  <1>2. disk \in Disk /\ Counters
    BY <1>1 DEF FsInv, Safe
  <1>3. /\ disk.free_list \in 0..NBLOCKS
        /\ disk.inode \in [Inodes -> DiskInode]
        /\ disk.block \in [Blocks -> [1..CPB -> Cell]]
    BY <1>2, DiskParts
  <1>4. free_list \in 0..NBLOCKS /\ icache \in [Inodes -> CacheSlot]
        /\ \A i \in Inodes : icache[i].ref = fds[i]
    <2>1. CASE up
      <3>1. Runs
        BY <1>1, <2>1 DEF FsInv
      <3>2. PICK d, X : Good(Memory(d), X)
        BY <3>1 DEF Runs
      <3>3. Memory(d) \in State
        BY <3>2, GoodParts
      <3>4. Memory(d).fl = free_list /\ Memory(d).ic = icache
        BY DEF Memory
      <3> QED
        BY <3>1, <3>3, <3>4, StateParts DEF Runs
    <2>2. CASE ~up
      <3>1. Stopped
        BY <1>1, <2>2 DEF FsInv
      <3> QED
        BY <3>1, NoSlotType, Sizes DEF Stopped
    <2> QED
      BY <2>1, <2>2
  <1>5. icache \in [Inodes -> [di : DiskInode, ref : 0..MAXOPEN, dirty : BOOLEAN]]
    <2>1. \A i \in Inodes : icache[i] \in [di : DiskInode, ref : 0..MAXOPEN, dirty : BOOLEAN]
      <3>1. SUFFICES ASSUME NEW i \in Inodes
                     PROVE  icache[i] \in [di : DiskInode, ref : 0..MAXOPEN, dirty : BOOLEAN]
        OBVIOUS
      <3>2. icache[i] \in CacheSlot /\ icache[i].ref \in 0..MAXOPEN
        BY <1>2, <1>4 DEF Counters
      <3> QED
        BY <3>2 DEF CacheSlot
    <2> QED
      BY <1>4, <2>1
  <1> QED
    BY <1>1, <1>2, <1>3, <1>4, <1>5 DEF TypeOK, Counters

LEMMA IInvDurable ==
    IInv => CompletedIsDurable
  <1>1. SUFFICES ASSUME FsInv, Idle
                 PROVE  \A i \in Inodes : icache[i].ref > 0 =>
                           /\ disk.inode[i].type = icache[i].di.type
                           /\ disk.inode[i].size = icache[i].di.size
    BY DEF CompletedIsDurable, IInv
  <1>2. PICK X : Good(Mem(FALSE), X)
    BY <1>1, CallFrom
  <1>3. Cached(Mem(FALSE))
    BY <1>2, GoodParts
  <1> QED
    BY <1>3, MemParts DEF Cached

\* What CallFrom says of a call is said of the view that NothingLost takes.
LEMMA CurrentShows ==
    ASSUME NEW X, Good(Mem(FALSE), X)
    PROVE  /\ Full(Current) /\ Kernel(Current) = Kernel(Mem(FALSE))
           /\ \A i \in InUse(Mem(FALSE)) : Current.ic[i].di.type # "FREE"
           /\ \A i \in Inodes : Current.ic[i].di = IF icache[i].ref > 0 THEN icache[i].di
                                                   ELSE disk.inode[i]
           /\ Current.d = disk
  <1>1. PICK v : v = View(disk)
    OBVIOUS
  <1>2. v.d = disk /\ v.ic = [i \in Inodes |-> [di |-> disk.inode[i], ref |-> 1, dirty |-> FALSE]]
    BY <1>1 DEF View
  <1>3. PICK ic : ic = [i \in Inodes |-> IF icache[i].ref > 0 THEN icache[i] ELSE v.ic[i]]
    OBVIOUS
  <1>4. PICK f : f = free_list
    OBVIOUS
  <1>5. Current.fl = f /\ Current.d = disk /\ Current.ic = ic
    BY <1>1, <1>3, <1>4 DEF Current, View
  <1>6. \A i \in Inodes : ic[i] = IF icache[i].ref > 0 THEN icache[i]
                                  ELSE [di |-> disk.inode[i], ref |-> 1, dirty |-> FALSE]
    BY <1>2, <1>3
  <1>7. \A i \in Inodes : ic[i].ref > 0 /\ ic[i].di = IF icache[i].ref > 0 THEN icache[i].di
                                                     ELSE disk.inode[i]
    <2>1. SUFFICES ASSUME NEW i \in Inodes
                   PROVE  ic[i].ref > 0 /\ ic[i].di = IF icache[i].ref > 0 THEN icache[i].di
                                                      ELSE disk.inode[i]
      OBVIOUS
    <2>2. CASE icache[i].ref > 0
      BY <1>6, <2>2
    <2>3. CASE ~(icache[i].ref > 0)
      <3>1. PICK e : e = [di |-> disk.inode[i], ref |-> 1, dirty |-> FALSE]
        OBVIOUS
      <3>2. e.ref = 1 /\ e.di = disk.inode[i] /\ 1 > 0
        BY <3>1
      <3>3. ic[i] = e
        BY <1>6, <2>3, <3>1
      <3> QED
        BY <2>3, <3>2, <3>3
    <2> QED
      BY <2>2, <2>3
  <1>8. Kernel(Current) = Kernel(Mem(FALSE))
    <2>1. PICK g : g = [i \in Inodes |-> IF ic[i].ref > 0 THEN ic[i].di ELSE disk.inode[i]]
      OBVIOUS
    <2>2. PICK h : h = [i \in Inodes |-> IF icache[i].ref > 0 THEN icache[i].di ELSE disk.inode[i]]
      OBVIOUS
    <2>3. g = h
      BY <1>7, <2>1, <2>2
    <2>4. Kernel(Current) = [fl |-> free_list, block |-> disk.block, ino |-> g]
      BY <1>4, <1>5, <2>1 DEF Kernel
    <2>5. Kernel(Mem(FALSE)) = [fl |-> free_list, block |-> disk.block, ino |-> h]
      BY <2>2, MemParts DEF Kernel
    <2> QED
      BY <2>3, <2>4, <2>5
  <1>9. \A i \in InUse(Mem(FALSE)) : ic[i].di.type # "FREE"
    <2>1. SUFFICES ASSUME NEW i \in InUse(Mem(FALSE))
                   PROVE  ic[i].di.type # "FREE"
      OBVIOUS
    <2>2. i \in Inodes
      BY GoodParts
    <2>3. CASE icache[i].ref > 0
      <3>1. Mem(FALSE).ic[i].di.type # "FREE"
        BY <2>2, <2>3, GoodParts, MemParts DEF Cached
      <3> QED
        BY <1>7, <2>2, <2>3, <3>1, MemParts
    <2>4. CASE ~(icache[i].ref > 0)
      <3>1. i \in Live(disk)
        BY <2>4, MemParts DEF InUse
      <3> QED
        BY <1>7, <2>2, <2>4, <3>1 DEF Live
    <2> QED
      BY <2>3, <2>4
  <1> QED
    BY <1>5, <1>7, <1>8, <1>9 DEF Full

\* Every block is on the free list or belongs to an inode in use.
LEMMA BlocksKept ==
    ASSUME FsInv, Idle, crashes = 0
    PROVE  Blocks \subseteq Free(Current) \cup UNION {BlocksOf(Current, i) : i \in InodesInUse(Current)}
  <1>1. PICK X : Good(Mem(FALSE), X) /\ X = {}
    BY CallFrom
  <1>2. PICK v : v = Current
    OBVIOUS
  <1>3. PICK J \in SUBSET Inodes : J = InUse(Mem(FALSE))
    BY <1>1, GoodParts
  <1>4. Full(v) /\ Kernel(v) = Kernel(Mem(FALSE)) /\ \A i \in J : v.ic[i].di.type # "FREE"
    BY <1>1, <1>2, <1>3, CurrentShows
  <1>5. Owned(Kernel(v), Have(J), X)
    BY <1>1, <1>3, <1>4 DEF Good, Sound
  <1>6. Blocks \subseteq Free(v) \cup X \cup UNION {BlocksOf(v, i) : i \in J}
    BY <1>4, <1>5, ViewOwned
  <1>7. J \subseteq InodesInUse(v)
    BY <1>4 DEF InodesInUse
  <1> QED
    BY <1>1, <1>2, <1>6, <1>7

\* Between calls, directories read as they are on the disk.
LEMMA CurrentCells ==
    ASSUME NEW X, Good(Mem(FALSE), X), NEW w \in Dirs(disk)
    PROVE  /\ DOMAIN Cells(Current, w) = Spots(disk, w) /\ Current.ic[w].di.type = "DIR"
           /\ \A k \in Spots(disk, w) : Cells(Current, w)[k] = CellOf(disk, w, k)
  <1>1. PICK v : v = Current
    OBVIOUS
  <1>2. PICK s : s = Mem(FALSE)
    OBVIOUS
  <1>3. Good(s, X) /\ s.d = disk /\ s.ic = icache
    BY <1>2, MemParts
  <1>4. w \in InUse(s) /\ w \in Inodes /\ w # 0
    BY <1>3, GoodParts
  <1>5. PICK t : t = Hold(s, w)
    OBVIOUS
  <1>6. Good(t, X) /\ t.d = s.d /\ t.ic[w].ref > 0 /\ t.ic[w].di = Kernel(s).ino[w]
    <2>1. PICK i \in {0} \cup InUse(s) : i = w
      BY <1>4
    <2>2. /\ Good(t, X) /\ t.d = s.d
          /\ i # 0 => t.ic[i].ref > 0 /\ t.ic[i].di = Kernel(s).ino[i]
      BY <1>3, <1>5, <2>1, HoldSound
    <2> QED
      BY <1>4, <2>1, <2>2
  <1>7. v.d = disk /\ v.ic[w].di = IF icache[w].ref > 0 THEN icache[w].di ELSE disk.inode[w]
    BY <1>1, <1>4, CurrentShows
  <1>8. v.ic[w].di = t.ic[w].di
    BY <1>3, <1>4, <1>6, <1>7, KernelIno
  <1>9. Cells(v, w) = Cells(t, w)
    BY <1>3, <1>6, <1>7, <1>8, CellsSame
  <1>10. Sound(t, X) /\ w \in Dirs(t.d)
    BY <1>3, <1>6, GoodParts
  <1>11. t.ic[w].di.type = "DIR"
    BY <1>4, <1>6, <1>10, CachedDir
  <1> QED
    BY <1>1, <1>3, <1>6, <1>8, <1>9, <1>10, <1>11, ReadsDir

LEMMA NamedCurrent ==
    ASSUME NEW X, Good(Mem(FALSE), X), NEW a \in Inodes, NEW b, NamesIt(disk, a, b)
    PROVE  b \in Named(Current, a)
  <1>1. PICK v : v = Current
    OBVIOUS
  <1>2. a \in Dirs(disk)
    BY DEF NamesIt
  <1>3. PICK k \in Spots(disk, a) : IsName(CellOf(disk, a, k)) /\ CellOf(disk, a, k).ino = b
    BY DEF NamesIt
  <1>4. /\ DOMAIN Cells(v, a) = Spots(disk, a) /\ v.ic[a].di.type = "DIR"
        /\ Cells(v, a)[k] = CellOf(disk, a, k)
    BY <1>1, <1>2, CurrentCells
  <1>5. PICK e : e = CellOf(disk, a, k)
    OBVIOUS
  <1>6. e \in Range(Cells(v, a))
    BY <1>4, <1>5 DEF Range
  <1>7. e.ino # 0 /\ e.name \notin {".", ".."} /\ e.ino = b
    BY <1>3, <1>5 DEF IsName
  <1>8. e \in Entries(v, a)
    BY <1>4, <1>6, <1>7 DEF Entries
  <1> QED
    BY <1>1, <1>7, <1>8 DEF Named

LEMMA ReachCurrent ==
    ASSUME NEW X, Good(Mem(FALSE), X)
    PROVE  Reach(disk) \subseteq Reachable(Current)
  <1>1. PICK named : named = [i \in Inodes |-> Named(Current, i)]
    OBVIOUS
  <1>2. ASSUME NEW R \in SUBSET Inodes, 1 \in R, \A i \in R : named[i] \subseteq R
        PROVE  Follows(disk, R)
    BY <1>1, <1>2, NamedCurrent DEF Follows
  <1>3. Reachable(Current) =
          {i \in Inodes : \A R \in {R \in SUBSET Inodes : 1 \in R /\ \A j \in R : named[j] \subseteq R} :
              i \in R}
    BY <1>1 DEF Reachable
  <1>4. ASSUME NEW i \in Reach(disk)
        PROVE  i \in Reachable(Current)
    <2>1. i \in Inodes
      BY DEF Reach
    <2>2. \A R \in SUBSET Inodes : Follows(disk, R) => i \in R
      BY DEF Reach
    <2> QED
      BY <1>2, <1>3, <2>1, <2>2
  <1> QED
    BY <1>4

\* Every inode in use has a name that leads to it, or is open.
LEMMA InodesKept ==
    ASSUME FsInv, Idle, crashes = 0, ~leaked
    PROVE  InodesInUse(Current) \subseteq Reachable(Current) \cup {i \in Inodes : fds[i] > 0}
  <1>1. PICK X : /\ Good(Mem(FALSE), X) /\ Complete(Mem(FALSE))
                 /\ \A i \in Inodes : Mem(FALSE).ic[i].ref = fds[i]
    BY CallFrom
  <1>2. PICK s : s = Mem(FALSE)
    OBVIOUS
  <1>3. s.d = disk /\ s.ic = icache /\ Whole(s, {})
    BY <1>1, <1>2, MemParts DEF Complete
  <1>4. PICK v : v = Current
    OBVIOUS
  <1>5. \A i \in Inodes : v.ic[i].di = IF icache[i].ref > 0 THEN icache[i].di ELSE disk.inode[i]
    BY <1>1, <1>4, CurrentShows
  <1>6. ASSUME NEW i \in Inodes, v.ic[i].di.type # "FREE", ~(fds[i] > 0)
        PROVE  i \in Reach(disk)
    <2>1. s.ic[i].ref = fds[i] /\ s.ic[i].ref \in Nat
      BY <1>1, <1>2, RefNat
    <2>2. s.ic[i].ref = 0 /\ ~(s.ic[i].ref > 0)
      BY <1>6, <2>1
    <2>3. disk.inode[i].type # "FREE"
      BY <1>3, <1>5, <1>6, <2>2
    <2>4. i \in Live(disk)
      BY <1>3, <2>2, <2>3 DEF Whole, Live
    <2> QED
      BY <1>3, <2>2, <2>4 DEF Whole, Unlinked
  <1>7. Reach(disk) \subseteq Reachable(v)
    BY <1>1, <1>4, ReachCurrent
  <1> QED
    BY <1>4, <1>6, <1>7 DEF InodesInUse

LEMMA AlwaysIInv ==
    ~WriteDirs => (Spec => []IInv)
  <1>1. SUFFICES ASSUME ~WriteDirs
                 PROVE  Spec => []IInv
    OBVIOUS
  <1>2. IInv /\ [Next]_vars => IInv'
    BY <1>1, IInvKept
  <1> QED
    BY <1>2, IInvFirst, PTL DEF Spec

\* The functions of fs.c keep their types on every path, until a buffer that was
\* reused has been used: a block number that they follow is one, and no call meets
\* a cell, an inode or a count that is none.
THEOREM FilesTyped ==
    ~WriteDirs => (Spec => [](stolen \/ TypeOK))
  <1> QED
    BY AlwaysIInv, IInvTypes, PTL

\* Whenever the power goes, between any two of the block writes of any call, the
\* disk can be booted from: what the root leads to is in use, no block belongs to
\* two files or twice to one, and none of them is on the free list, which ends.
\* It takes that balloc() and bfree() write the superblock, fs_iupdate() the
\* inode and bmap() the pointer in the order in which they do, and it ends with
\* the first call in which bmap() or fs_iput() uses an indirect block's buffer
\* that bread() has reused.
THEOREM FilesConsistent ==
    ~WriteDirs => (Spec => []DiskConsistent)
  <1>1. IInv => DiskConsistent
    BY SafeConsistent DEF IInv, FsInv, DiskConsistent
  <1> QED
    BY <1>1, AlwaysIInv, PTL

\* After close(), which writes the inode (fs_iput()), nothing that the cache knew
\* of a file is missing from the disk, and while it is open its size is there,
\* until such a buffer is used.
THEOREM FilesDurable ==
    ~WriteDirs => (Spec => []CompletedIsDurable)
  <1> QED
    BY AlwaysIInv, IInvDurable, PTL

\* Calls give back what they took: a reference of fs_iget() by fs_iput(), whatever
\* path they leave by, and blocks by bfree(), so that until a crash no block is
\* lost, not even by the calls that lose an inode (leaked).  No other call loses
\* one: what ialloc() takes, dir_link() names; fs_rename() takes off the only name
\* of what it moves and gives the new one where the root still leads, unless that
\* is below what it moves; what fs_unlink() leaves without a name is freed by the
\* last fs_iput(), and until then a file is open on it.  The first use of an
\* indirect block's buffer that was reused ends all this: the block that bmap()
\* has just allocated is in no file.
THEOREM FilesGiveBack ==
    ~WriteDirs => (Spec => []NothingLost)
  <1>1. FsInv => OnlyFdsRefer /\ NoBlockLost
    BY BlocksKept DEF FsInv, Runs, Idle, OnlyFdsRefer, NoBlockLost
  <1>2. FsInv => NoInodeLost
    BY InodesKept DEF NoInodeLost
  <1>3. IInv => NothingLost
    BY <1>1, <1>2 DEF NothingLost, IInv
  <1> QED
    BY <1>3, AlwaysIInv, PTL
=============================================================================
