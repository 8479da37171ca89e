--------------------------- MODULE OpenFiles_proofs ---------------------------
(***************************************************************************)
(* Every open file counts its descriptors exactly, every pipe end and      *)
(* inode is kept as long as a descriptor needs it, and no descriptor ever  *)
(* changes its file: for any number of processes, descriptors, open files  *)
(* and pipes.                                                              *)
(***************************************************************************)
EXTENDS OpenFiles, FiniteSetTheorems, WellFoundedInduction, TLAPS

Tables == [Fds -> Ofiles \cup {NULL}]

-----------------------------------------------------------------------------
(* The tables and the sets of free slots *)

LEMMA FinSlots ==
    ASSUME NEW n \in Nat \ {0}
    PROVE  IsFiniteSet(0..(n - 1)) /\ Cardinality(0..(n - 1)) = n
<1>1. /\ IsFiniteSet(0..(n - 1))
      /\ Cardinality(0..(n - 1)) = IF 0 > n - 1 THEN 0 ELSE (n - 1) - 0 + 1
  BY FS_Interval
<1>. QED BY <1>1

LEMMA Disjoint ==
    ASSUME NEW S, NEW T, IsFiniteSet(S), IsFiniteSet(T), S \cap T = {}
    PROVE  /\ IsFiniteSet(S \cup T)
           /\ Cardinality(S \cup T) = Cardinality(S) + Cardinality(T)
           /\ Cardinality(S) \in Nat /\ Cardinality(T) \in Nat
<1>1. /\ IsFiniteSet(S \cup T)
      /\ Cardinality(S \cup T) = Cardinality(S) + Cardinality(T) - Cardinality(S \cap T)
  BY FS_Union
<1>2. Cardinality(S \cap T) = 0
  BY FS_EmptySet
<1>3. Cardinality(S) \in Nat /\ Cardinality(T) \in Nat
  BY FS_CardinalityType
<1>. QED BY <1>1, <1>2, <1>3

LEMMA Column ==
    ASSUME NEW q, NEW S, IsFiniteSet(S)
    PROVE  IsFiniteSet({q} \X S) /\ Cardinality({q} \X S) = Cardinality(S)
<1>1. IsFiniteSet({q}) /\ Cardinality({q}) = 1
  BY FS_Singleton
<1>2. /\ IsFiniteSet({q} \X S)
      /\ Cardinality({q} \X S) = Cardinality({q}) * Cardinality(S)
  BY <1>1, FS_Product
<1>3. Cardinality(S) \in Nat
  BY FS_CardinalityType
<1>. QED BY <1>1, <1>2, <1>3

LEMMA Finite ==
    /\ IsFiniteSet(Procs) /\ IsFiniteSet(Fds) /\ IsFiniteSet(Ofiles)
    /\ Cardinality(Procs) = MAXPROC /\ Cardinality(Fds) = MAXFD
    /\ Cardinality(Ofiles) = MAXOPEN
BY FinSlots, OpenFilesAssumption DEF Procs, Fds, Ofiles

LEMMA HasLeast ==
    ASSUME NEW S \in SUBSET Nat, S # {}
    PROVE  \E x \in S : \A y \in S : x <= y
<1>1. PICK x \in S : \A y \in S : ~ (<<y, x>> \in OpToRel(<, Nat))
  BY NatLessThanWellFounded, WFMin
<1>2. \A y \in S : ~ (y < x)
  BY <1>1 DEF OpToRel
<1>. QED BY <1>2

LEMMA MinIsIn ==
    ASSUME NEW S \in SUBSET Nat, S # {}
    PROVE  Min(S) \in S
BY HasLeast DEF Min

LEMMA FinRefs ==
    ASSUME NEW o
    PROVE  IsFiniteSet(Refs(o)) /\ Cardinality(Refs(o)) \in Nat
<1>1. Refs(o) \in SUBSET (Procs \X Fds)
  BY DEF Refs
<1>. QED BY <1>1, Finite, FS_Product, FS_Subset, FS_CardinalityType

LEMMA FinRefsIn ==
    ASSUME NEW t, NEW o
    PROVE  IsFiniteSet(RefsIn(t, o)) /\ Cardinality(RefsIn(t, o)) \in 0..MAXFD
<1>1. RefsIn(t, o) \in SUBSET Fds
  BY DEF RefsIn
<1>. QED BY <1>1, Finite, FS_Subset, FS_CardinalityType

LEMMA RefsInRefs ==
    ASSUME NEW p \in Procs, NEW o
    PROVE  Cardinality(RefsIn(fd[p], o)) <= Cardinality(Refs(o))
<1>. DEFINE C == {p} \X RefsIn(fd[p], o)
<1>1. Cardinality(C) = Cardinality(RefsIn(fd[p], o))
  BY FinRefsIn, Column
<1>2. C \in SUBSET Refs(o)
  BY DEF Refs, RefsIn
<1>3. Cardinality(C) <= Cardinality(Refs(o))
  BY <1>2, FinRefs, FS_Subset
<1>. QED BY <1>1, <1>3

-----------------------------------------------------------------------------
(* Counting descriptors *)

\* Descriptor n of a table is set to x.
LEMMA SlotSet ==
    ASSUME NEW t \in Tables, NEW n \in Fds, NEW x \in Ofiles \cup {NULL},
           NEW o \in Ofiles
    PROVE  Cardinality(RefsIn([t EXCEPT ![n] = x], o)) =
               Cardinality(RefsIn(t, o)) - (IF t[n] = o THEN 1 ELSE 0)
                                         + (IF x = o THEN 1 ELSE 0)
<1>. DEFINE old == RefsIn(t, o)
            kept == old \ {n}
            new == RefsIn([t EXCEPT ![n] = x], o)
<1>1. IsFiniteSet(old) /\ Cardinality(old) \in Nat
  BY FinRefsIn
<1>2. /\ IsFiniteSet(kept)
      /\ Cardinality(kept) = Cardinality(old) - (IF t[n] = o THEN 1 ELSE 0)
  <2>1. n \in old <=> t[n] = o
    BY DEF RefsIn
  <2>. QED BY <1>1, <2>1, FS_RemoveElement
<1>3. new = IF x = o THEN kept \cup {n} ELSE kept
  BY DEF RefsIn, Tables
<1>4. n \notin kept
  OBVIOUS
<1>5. Cardinality(new) = Cardinality(kept) + (IF x = o THEN 1 ELSE 0)
  <2>1. CASE x = o
    BY <1>2, <1>3, <1>4, <2>1, FS_AddElement, FS_CardinalityType
  <2>2. CASE x # o
    <3>1. Cardinality(kept) \in Nat
      BY <1>2, FS_CardinalityType
    <3>. HIDE DEF kept, new
    <3>. QED BY <1>3, <2>2, <3>1
  <2>. QED BY <2>1, <2>2
<1>. QED BY <1>1, <1>2, <1>5

\* The table of process q is replaced.
LEMMA TableSet ==
    ASSUME TypeOK, NEW q \in Procs, NEW t \in Tables,
           fd' = [fd EXCEPT ![q] = t], NEW o \in Ofiles
    PROVE  /\ Cardinality(Refs(o)') =
               Cardinality(Refs(o)) - Cardinality(RefsIn(fd[q], o))
                                    + Cardinality(RefsIn(t, o))
           /\ Cardinality(RefsIn(fd[q], o)) <= Cardinality(Refs(o))
<1>. DEFINE others == {d \in (Procs \ {q}) \X Fds : fd[d[1]][d[2]] = o}
            Of(T) == {q} \X RefsIn(T, o)
<1>1. Refs(o) = others \cup Of(fd[q]) /\ Refs(o)' = others \cup Of(t)
  BY DEF Refs, RefsIn, TypeOK, Tables
<1>2. others \cap Of(fd[q]) = {} /\ others \cap Of(t) = {}
  OBVIOUS
<1>3. IsFiniteSet(others) /\ Cardinality(others) \in Nat
  <2>1. others \in SUBSET (Procs \X Fds)
    OBVIOUS
  <2>. QED BY <2>1, Finite, FS_Product, FS_Subset, FS_CardinalityType
<1>4. ASSUME NEW T
      PROVE  IsFiniteSet(Of(T)) /\ Cardinality(Of(T)) = Cardinality(RefsIn(T, o))
  BY FinRefsIn, Column
<1>5. /\ Cardinality(Of(fd[q])) = Cardinality(RefsIn(fd[q], o))
      /\ Cardinality(Of(t)) = Cardinality(RefsIn(t, o))
      /\ IsFiniteSet(Of(fd[q])) /\ IsFiniteSet(Of(t))
      /\ Cardinality(RefsIn(fd[q], o)) \in Nat
      /\ Cardinality(RefsIn(t, o)) \in Nat
  BY <1>4, FinRefsIn
<1>6. /\ Cardinality(Refs(o)) = Cardinality(others) + Cardinality(Of(fd[q]))
      /\ Cardinality(Refs(o)') = Cardinality(others) + Cardinality(Of(t))
  <2>. HIDE DEF others, Of
  <2>1. Cardinality(others \cup Of(fd[q])) = Cardinality(others) + Cardinality(Of(fd[q]))
    BY <1>2, <1>3, <1>5, Disjoint
  <2>2. Cardinality(others \cup Of(t)) = Cardinality(others) + Cardinality(Of(t))
    BY <1>2, <1>3, <1>5, Disjoint
  <2>. QED BY <1>1, <2>1, <2>2
<1>. HIDE DEF others, Of
<1>. QED BY <1>3, <1>5, <1>6

\* No open file has all the descriptors of all processes: the count does not
\* wrap around.
LEMMA NotAll ==
    ASSUME CountsFit, NEW S \in SUBSET (Procs \X Fds),
           NEW d \in Procs \X Fds, d \notin S
    PROVE  Cardinality(S) \in 0..(RefModulus - 1)
<1>. DEFINE all == Procs \X Fds
<1>1. IsFiniteSet(all) /\ Cardinality(all) = MAXPROC * MAXFD
  BY Finite, FS_Product
<1>2. /\ Cardinality(S) \in Nat
      /\ Cardinality(S) <= Cardinality(all)
      /\ Cardinality(S) # Cardinality(all)
  BY <1>1, FS_Subset, FS_CardinalityType
<1>3. MAXPROC * MAXFD \in Nat /\ RefModulus \in Nat
  BY OpenFilesAssumption
<1>. HIDE DEF all
<1>. QED BY <1>1, <1>2, <1>3 DEF CountsFit

LEMMA CountFits ==
    ASSUME CountsFit, NEW f,
           \A i, j \in Fds : f[0][i] # NULL /\ f[0][i] = f[0][j] => i = j,
           NEW o \in Ofiles
    PROVE  Cardinality({d \in Procs \X Fds : f[d[1]][d[2]] = o}) \in 0..(RefModulus - 1)
<1>1. 0 \in Procs /\ 0 \in Fds /\ 1 \in Fds
  BY OpenFilesAssumption DEF Procs, Fds, CountsFit
<1>2. ~ (f[0][0] = o /\ f[0][1] = o)
  BY <1>1 DEF NULL, Ofiles
<1>3. <<0, 0>> \in Procs \X Fds /\ <<0, 1>> \in Procs \X Fds
  BY <1>1
<1>. QED BY <1>2, <1>3, NotAll

LEMMA SmallMod ==
    ASSUME NEW m \in Nat \ {0}, NEW x \in 0..(m - 1)
    PROVE  x % m = x
OBVIOUS

\* A count r that loses d references and gains a reaches zero just when it is
\* one of 1..d, provided that none is gained then.
LEMMA ReachesZero ==
    ASSUME NEW r \in Nat, NEW d \in Nat, NEW a \in Nat, d <= r,
           r \in 1..d => a = 0
    PROVE  r \in 1..d <=> r # 0 /\ r - d + a = 0
OBVIOUS

-----------------------------------------------------------------------------
(* What every change of a table does *)

\* The table of process q becomes t: drop[o] of its descriptors for o go, and
\* add[o] come.  What has no descriptor left is closed.
Rewrites(q, t, drop, add) ==
    /\ q \in Procs /\ t \in Tables
    /\ drop \in [Ofiles -> Nat] /\ add \in [Ofiles -> Nat]
    /\ fd' = [fd EXCEPT ![q] = t]
    /\ \A o \in Ofiles :
          /\ drop[o] <= Cardinality(RefsIn(fd[q], o))
          /\ Cardinality(RefsIn(t, o)) = Cardinality(RefsIn(fd[q], o)) - drop[o] + add[o]
    /\ \A o \in Gone(drop) : add[o] = 0
    /\ refcount' = [o \in Ofiles |-> (refcount[o] - drop[o] + add[o]) % RefModulus]
    /\ iref' = [i \in Inodes |->
                   iref[i] - Cardinality({o \in Gone(drop) : file[o] = InodeFile(i)})]
    /\ file' = Emptied(drop)

LEMMA RewriteCounts ==
    ASSUME CountsFit, CountInv, ProcessZeroShares',
           NEW q, NEW t, NEW drop, NEW add, Rewrites(q, t, drop, add),
           NEW o \in Ofiles
    PROVE  /\ refcount'[o] = refcount[o] - drop[o] + add[o]
           /\ refcount'[o] = Cardinality(Refs(o)')
           /\ refcount[o] \in Nat
           /\ drop[o] \in Nat /\ add[o] \in Nat /\ drop[o] <= refcount[o]
<1>1. /\ Cardinality(Refs(o)') = Cardinality(Refs(o)) - Cardinality(RefsIn(fd[q], o))
                                    + Cardinality(RefsIn(t, o))
      /\ Cardinality(RefsIn(fd[q], o)) <= Cardinality(Refs(o))
  BY TableSet DEF Rewrites, CountInv
<1>2. Cardinality(Refs(o)') \in 0..(RefModulus - 1)
  BY CountFits DEF Refs, ProcessZeroShares, IsOpen
<1>3. /\ Cardinality(RefsIn(t, o)) = Cardinality(RefsIn(fd[q], o)) - drop[o] + add[o]
      /\ drop[o] <= Cardinality(RefsIn(fd[q], o))
      /\ drop[o] \in Nat /\ add[o] \in Nat
  BY DEF Rewrites
<1>4. refcount[o] = Cardinality(Refs(o)) /\ refcount[o] \in Nat
  BY FinRefs DEF CountInv, RefcountExact
<1>5. Cardinality(RefsIn(fd[q], o)) \in Nat
  BY FinRefsIn
<1>6. Cardinality(Refs(o)') = refcount[o] - drop[o] + add[o]
  BY <1>1, <1>3, <1>4, <1>5
<1>7. refcount'[o] = (refcount[o] - drop[o] + add[o]) % RefModulus
  BY DEF Rewrites
<1>8. RefModulus \in Nat \ {0}
  BY OpenFilesAssumption
<1>9. refcount'[o] = Cardinality(Refs(o)')
  BY <1>2, <1>6, <1>7, <1>8, SmallMod
<1>10. drop[o] <= refcount[o]
  BY <1>1, <1>3, <1>4, <1>5
<1>. QED BY <1>3, <1>4, <1>6, <1>9, <1>10

\* Dropped references close an open file exactly when no descriptor is left.
LEMMA RewriteGone ==
    ASSUME CountsFit, CountInv, ProcessZeroShares',
           NEW q, NEW t, NEW drop, NEW add, Rewrites(q, t, drop, add),
           NEW o \in Ofiles
    PROVE  o \in Gone(drop) <=> refcount[o] # 0 /\ refcount'[o] = 0
<1>1. /\ refcount'[o] = refcount[o] - drop[o] + add[o]
      /\ refcount[o] \in Nat
      /\ drop[o] \in Nat /\ add[o] \in Nat /\ drop[o] <= refcount[o]
  BY RewriteCounts
<1>2. o \in Gone(drop) => add[o] = 0
  BY DEF Rewrites
<1>3. o \in Gone(drop) <=> refcount[o] \in 1..drop[o]
  BY DEF Gone
<1>4. refcount[o] \in 1..drop[o] <=> refcount[o] # 0 /\ refcount[o] - drop[o] + add[o] = 0
  <2>1. refcount[o] \in 1..drop[o] => add[o] = 0
    BY <1>2, <1>3
  <2>. QED BY ONLY <1>1, <2>1, ReachesZero
<1>. QED BY <1>1, <1>3, <1>4

LEMMA RewriteFiles ==
    ASSUME CountsFit, CountInv, ProcessZeroShares',
           NEW q, NEW t, NEW drop, NEW add, Rewrites(q, t, drop, add)
    PROVE  /\ file' \in [Ofiles -> Files]
           /\ \A o \in Ofiles : refcount'[o] # 0 => file'[o] = file[o] \/ refcount[o] = 0
           /\ \A o \in Ofiles : refcount'[o] = 0 => file'[o] = Console
           /\ \A o \in Ofiles : refcount'[o] # 0 <=> Refs(o)' # {}
           /\ \A o \in Ofiles : file'[o] # Console => file'[o] = file[o]
<1>1. file' = Emptied(drop)
  BY DEF Rewrites
<1>2. file \in [Ofiles -> Files] /\ FreeFilesEmpty
  BY DEF CountInv, TypeOK
<1>3. \A o \in Ofiles : o \in Gone(drop) <=> refcount[o] # 0 /\ refcount'[o] = 0
  BY RewriteGone
<1>4. \A o \in Ofiles : refcount[o] = 0 => file[o] = Console
  BY <1>2 DEF FreeFilesEmpty, FreeOfiles
<1>5. ASSUME NEW o \in Ofiles
      PROVE  refcount'[o] # 0 <=> Refs(o)' # {}
  <2>1. refcount'[o] = Cardinality(Refs(o)')
    BY RewriteCounts
  <2>2. Refs(o)' \in SUBSET (Procs \X Fds)
    BY DEF Refs
  <2>3. IsFiniteSet(Refs(o)')
    BY <2>2, Finite, FS_Product, FS_Subset
  <2>. QED BY <2>1, <2>3, FS_EmptySet
<1>6. Console \in Files
  BY DEF Files
<1>. QED BY <1>1, <1>2, <1>3, <1>4, <1>5, <1>6 DEF Emptied

\* An inode's references are the open files that refer to it: none of those
\* is free.
LEMMA InodeHolders ==
    ASSUME CountInv, NEW i \in Inodes
    PROVE  LET H == {o \in Ofiles : file[o] = InodeFile(i)}
           IN  IsFiniteSet(H) /\ iref[i] = Cardinality(H)
<1>. DEFINE H == {o \in Ofiles : file[o] = InodeFile(i)}
<1>1. IsFiniteSet(H)
  BY Finite, FS_Subset
<1>2. ASSUME NEW o \in Ofiles, file[o] = InodeFile(i)
      PROVE  Refs(o) # {}
  <2>1. refcount[o] # 0
    BY <1>2 DEF CountInv, FreeFilesEmpty, FreeOfiles, Console, InodeFile
  <2>. QED BY <2>1, FS_EmptySet DEF CountInv, RefcountExact
<1>3. H = {o \in Ofiles : Refs(o) # {} /\ file[o] = InodeFile(i)}
  BY <1>2
<1>. QED BY <1>1, <1>3 DEF CountInv, InodeRefs

LEMMA RewriteInodes ==
    ASSUME CountsFit, CountInv, ProcessZeroShares',
           NEW q, NEW t, NEW drop, NEW add, Rewrites(q, t, drop, add)
    PROVE  InodeRefs' /\ iref' \in [Inodes -> 0..MAXOPEN]
<1>. SUFFICES ASSUME NEW i \in Inodes
              PROVE  /\ iref'[i] = Cardinality({o \in Ofiles : Refs(o) # {} /\ file[o] = InodeFile(i)}')
                     /\ iref'[i] \in 0..MAXOPEN
  BY DEF InodeRefs, Rewrites
<1>. DEFINE H == {o \in Ofiles : file[o] = InodeFile(i)}
            G == {o \in Gone(drop) : file[o] = InodeFile(i)}
            N == {o \in Ofiles : Refs(o) # {} /\ file[o] = InodeFile(i)}'
<1>1. IsFiniteSet(H) /\ iref[i] = Cardinality(H)
  BY InodeHolders
<1>2. N = H \ G
  <2>1. ASSUME NEW o \in Ofiles
        PROVE  o \in N <=> o \in H /\ o \notin G
    <3>1. /\ refcount'[o] = 0 => file'[o] = Console
          /\ refcount'[o] # 0 <=> Refs(o)' # {}
          /\ file'[o] # Console => file'[o] = file[o]
          /\ refcount'[o] # 0 => file'[o] = file[o] \/ refcount[o] = 0
      BY RewriteFiles
    <3>2. o \in Gone(drop) <=> refcount[o] # 0 /\ refcount'[o] = 0
      BY RewriteGone
    <3>3. refcount[o] = 0 => file[o] = Console
      BY DEF CountInv, FreeFilesEmpty, FreeOfiles
    <3>4. InodeFile(i) # Console
      BY DEF InodeFile, Console
    <3>5. o \in N <=> Refs(o)' # {} /\ file'[o] = InodeFile(i)
      OBVIOUS
    <3>. QED BY <3>1, <3>2, <3>3, <3>4, <3>5
  <2>2. N \subseteq Ofiles /\ H \subseteq Ofiles
    OBVIOUS
  <2>. HIDE DEF N, H, G
  <2>. QED BY <2>1, <2>2
<1>3. G \subseteq H
  BY DEF Gone
<1>4. iref'[i] = iref[i] - Cardinality(G)
  BY DEF Rewrites
<1>5. Cardinality(H \ G) = Cardinality(H) - Cardinality(H \cap G)
  BY <1>1, FS_Difference
<1>6. H \cap G = G
  BY <1>3
<1>7. N \in SUBSET Ofiles
  OBVIOUS
<1>8. Cardinality(N) \in Nat /\ Cardinality(N) <= MAXOPEN
  <2>. HIDE DEF N
  <2>. QED BY <1>7, Finite, FS_Subset, FS_CardinalityType
<1>9. iref'[i] = Cardinality(N)
  <2>. HIDE DEF N, H, G
  <2>. QED BY <1>1, <1>2, <1>4, <1>5, <1>6
<1>10. iref'[i] \in 0..MAXOPEN
  BY <1>8, <1>9, OpenFilesAssumption
<1>. QED BY <1>9, <1>10

\* What a change of table makes of the counts, the open files and the inodes.
LEMMA Rewritten ==
    ASSUME CountsFit, CountInv, ProcessZeroShares',
           NEW q, NEW t, NEW drop, NEW add, Rewrites(q, t, drop, add)
    PROVE  /\ FreeFilesEmpty' /\ RefcountExact' /\ InodeRefs'
           /\ fd' \in [Procs -> Tables]
           /\ refcount' \in [Ofiles -> 0..(RefModulus - 1)]
           /\ file' \in [Ofiles -> Files]
           /\ iref' \in [Inodes -> 0..MAXOPEN]
<1>1. FreeFilesEmpty' /\ file' \in [Ofiles -> Files]
  BY RewriteFiles DEF FreeFilesEmpty, FreeOfiles
<1>2. RefcountExact'
  BY RewriteCounts DEF RefcountExact
<1>3. fd' \in [Procs -> Tables]
  BY DEF CountInv, TypeOK, Rewrites, Tables
<1>4. refcount' \in [Ofiles -> 0..(RefModulus - 1)]
  <2>1. ASSUME NEW o \in Ofiles
        PROVE  refcount'[o] \in 0..(RefModulus - 1)
    <3>1. refcount'[o] = Cardinality(Refs(o)')
      BY RewriteCounts
    <3>2. Cardinality(Refs(o)') \in 0..(RefModulus - 1)
      BY CountFits DEF Refs, ProcessZeroShares, IsOpen
    <3>. QED BY <3>1, <3>2
  <2>. QED BY <2>1 DEF Rewrites
<1>. QED BY <1>1, <1>2, <1>3, <1>4, RewriteInodes

\* What an open file refers to stays as long as it has descriptors.
FilesStay ==
    \A o \in Ofiles : refcount[o] # 0 /\ refcount'[o] # 0 => file'[o] = file[o]

\* The rest of CountInv is about the processes.
LEMMA RewriteKeeps ==
    ASSUME CountsFit, CountInv, DeadHoldNothing',
           NEW q, NEW t, NEW drop, NEW add, Rewrites(q, t, drop, add),
           q = 0 => \A i, j \in Fds : t[i] # NULL /\ t[i] = t[j] => i = j,
           0 \in live', live' \subseteq Procs,
           fd_flags' \in [Procs -> SUBSET Fds],
           readers' \in [Pipes -> {0, 1}], writers' \in [Pipes -> {0, 1}],
           parent' \in [Procs -> Procs \cup {NULL}],
           last' \in [p : Procs \cup {NULL}, fd : Fds \cup {NULL}]
    PROVE  CountInv' /\ FilesStay
<1>1. ProcessZeroShares'
  <2>1. 0 \in Procs
    BY OpenFilesAssumption DEF Procs
  <2>2. fd'[0] = IF q = 0 THEN t ELSE fd[0]
    BY <2>1 DEF Rewrites, CountInv, TypeOK
  <2>. QED BY <2>2 DEF CountInv, ProcessZeroShares, IsOpen
<1>2. TypeOK'
  <2>1. /\ fd' \in [Procs -> Tables]
        /\ refcount' \in [Ofiles -> 0..(RefModulus - 1)]
        /\ file' \in [Ofiles -> Files]
        /\ iref' \in [Inodes -> 0..MAXOPEN]
    BY <1>1, Rewritten
  <2>. QED BY <2>1 DEF TypeOK, Tables
<1>3. FreeFilesEmpty' /\ RefcountExact' /\ InodeRefs'
  BY <1>1, Rewritten
<1>4. FilesStay
  BY <1>1, RewriteFiles DEF FilesStay
<1>. QED BY <1>1, <1>2, <1>3, <1>4 DEF CountInv

-----------------------------------------------------------------------------
(* The actions that change a table *)

LEMMA OneRefCounts ==
    ASSUME NEW x \in Ofiles, NEW o \in Ofiles
    PROVE  /\ OneRef(x)[o] = IF o = x THEN 1 ELSE 0
           /\ NoRefs[o] = 0
           /\ OneRef(x) \in [Ofiles -> Nat] /\ NoRefs \in [Ofiles -> Nat]
BY DEF OneRef, NoRefs

LEMMA NoneGone ==
    ASSUME CountInv
    PROVE  Gone(NoRefs) = {}
BY DEF Gone, NoRefs, CountInv, TypeOK

\* A descriptor is closed.
LEMMA CloseRewrites ==
    ASSUME CountInv, NEW p \in Procs, NEW i \in Fds, IsOpen(p, i),
           fd' = [fd EXCEPT ![p][i] = NULL],
           Recount(OneRef(fd[p][i]), NoRefs)
    PROVE  Rewrites(p, [fd[p] EXCEPT ![i] = NULL], OneRef(fd[p][i]), NoRefs)
<1>. DEFINE x == fd[p][i]
            t == [fd[p] EXCEPT ![i] = NULL]
<1>1. fd[p] \in Tables /\ x \in Ofiles /\ t \in Tables
  BY DEF CountInv, TypeOK, IsOpen, Tables
<1>2. fd' = [fd EXCEPT ![p] = t]
  BY DEF CountInv, TypeOK
<1>3. ASSUME NEW o \in Ofiles
      PROVE  /\ OneRef(x)[o] <= Cardinality(RefsIn(fd[p], o))
             /\ Cardinality(RefsIn(t, o)) =
                   Cardinality(RefsIn(fd[p], o)) - OneRef(x)[o] + NoRefs[o]
  <2>1. NULL # o
    BY DEF NULL, Ofiles
  <2>2. Cardinality(RefsIn(t, o)) = Cardinality(RefsIn(fd[p], o)) - (IF x = o THEN 1 ELSE 0)
                                         + (IF NULL = o THEN 1 ELSE 0)
    BY <1>1, SlotSet
  <2>3. OneRef(x)[o] = (IF o = x THEN 1 ELSE 0) /\ NoRefs[o] = 0
    BY <1>1, OneRefCounts
  <2>4. Cardinality(RefsIn(t, o)) \in Nat /\ Cardinality(RefsIn(fd[p], o)) \in Nat
    BY FinRefsIn
  <2>. HIDE DEF x, t
  <2>. QED BY <2>1, <2>2, <2>3, <2>4
<1>4. OneRef(x) \in [Ofiles -> Nat] /\ NoRefs \in [Ofiles -> Nat]
  BY <1>1, OneRefCounts
<1>5. \A o \in Gone(OneRef(x)) : NoRefs[o] = 0
  BY DEF Gone, NoRefs
<1>. QED BY <1>1, <1>2, <1>3, <1>4, <1>5 DEF Rewrites, Recount

\* A descriptor n is made to refer to the same open file as descriptor i; if it
\* was open, it is closed first.
LEMMA DupRewrites ==
    ASSUME CountInv, NEW p \in Procs, NEW i \in Fds, NEW n \in Fds, i # n,
           IsOpen(p, i), fd' = [fd EXCEPT ![p][n] = fd[p][i]],
           Recount(IF IsOpen(p, n) THEN OneRef(fd[p][n]) ELSE NoRefs, OneRef(fd[p][i]))
    PROVE  Rewrites(p, [fd[p] EXCEPT ![n] = fd[p][i]],
                    IF IsOpen(p, n) THEN OneRef(fd[p][n]) ELSE NoRefs, OneRef(fd[p][i]))
<1>. DEFINE x == fd[p][i]
            y == fd[p][n]
            drop == IF IsOpen(p, n) THEN OneRef(y) ELSE NoRefs
            t == [fd[p] EXCEPT ![n] = x]
<1>1. fd[p] \in Tables /\ x \in Ofiles /\ t \in Tables /\ y \in Ofiles \cup {NULL}
  BY DEF CountInv, TypeOK, IsOpen, Tables
<1>2. fd' = [fd EXCEPT ![p] = t]
  BY DEF CountInv, TypeOK
<1>3. /\ \A o \in Ofiles : drop[o] = IF y = o THEN 1 ELSE 0
      /\ \A o \in Ofiles : OneRef(x)[o] = IF x = o THEN 1 ELSE 0
      /\ drop \in [Ofiles -> Nat] /\ OneRef(x) \in [Ofiles -> Nat]
  <2>1. ASSUME NEW o \in Ofiles
        PROVE  drop[o] = IF y = o THEN 1 ELSE 0
    <3>1. NULL # o
      BY DEF NULL, Ofiles
    <3>. QED BY <1>1, <3>1, OneRefCounts DEF IsOpen
  <2>. QED BY <1>1, <2>1, OneRefCounts DEF IsOpen
<1>4. ASSUME NEW o \in Ofiles
      PROVE  /\ drop[o] <= Cardinality(RefsIn(fd[p], o))
             /\ Cardinality(RefsIn(t, o)) =
                   Cardinality(RefsIn(fd[p], o)) - drop[o] + OneRef(x)[o]
             /\ y = o /\ x = o => Cardinality(RefsIn(fd[p], o)) >= 2
  <2>. DEFINE u == [fd[p] EXCEPT ![n] = NULL]
  <2>1. Cardinality(RefsIn(t, o)) = Cardinality(RefsIn(fd[p], o)) - (IF y = o THEN 1 ELSE 0)
                                         + (IF x = o THEN 1 ELSE 0)
    BY <1>1, SlotSet
  <2>7. Cardinality(RefsIn(u, o)) = Cardinality(RefsIn(fd[p], o)) - (IF y = o THEN 1 ELSE 0)
                                         + (IF NULL = o THEN 1 ELSE 0)
    BY <1>1, SlotSet
  <2>2. x = o => i \in RefsIn(u, o)
    BY <1>1 DEF RefsIn, Tables
  <2>3. x = o => Cardinality(RefsIn(u, o)) # 0
    BY <2>2, FinRefsIn, FS_EmptySet
  <2>4. /\ Cardinality(RefsIn(t, o)) \in Nat /\ Cardinality(RefsIn(fd[p], o)) \in Nat
        /\ Cardinality(RefsIn(u, o)) \in Nat
    BY FinRefsIn
  <2>5. NULL # o
    BY DEF NULL, Ofiles
  <2>6. drop[o] = (IF y = o THEN 1 ELSE 0) /\ OneRef(x)[o] = IF x = o THEN 1 ELSE 0
    BY <1>3
  <2>. HIDE DEF x, y, t, u, drop
  <2>. QED BY <2>1, <2>3, <2>4, <2>5, <2>6, <2>7
<1>5. ASSUME NEW o \in Gone(drop)
      PROVE  OneRef(x)[o] = 0
  <2>1. o \in Ofiles /\ refcount[o] \in 1..drop[o]
    BY DEF Gone
  <2>2. y = o /\ refcount[o] = 1
    BY <1>3, <2>1
  <2>3. Cardinality(RefsIn(fd[p], o)) <= refcount[o]
    BY <2>1, RefsInRefs DEF CountInv, RefcountExact
  <2>4. x # o
    BY <1>4, <2>1, <2>2, <2>3, FinRefsIn
  <2>. QED BY <1>3, <2>1, <2>4
<1>. QED BY <1>1, <1>2, <1>3, <1>4, <1>5 DEF Rewrites, Recount

LEMMA AllRefsType ==
    ASSUME NEW t
    PROVE  /\ AllRefs(t) \in [Ofiles -> Nat]
           /\ \A o \in Ofiles : AllRefs(t)[o] = Cardinality(RefsIn(t, o))
BY FinRefsIn DEF AllRefs

LEMMA NoRefsIn ==
    ASSUME NEW t, \A i \in Fds : t[i] = NULL, NEW o \in Ofiles
    PROVE  Cardinality(RefsIn(t, o)) = 0
<1>1. RefsIn(t, o) = {}
  BY DEF RefsIn, NULL, Ofiles
<1>. QED BY <1>1, FS_EmptySet

\* A new process gets table t.
LEMMA InheritRewrites ==
    ASSUME CountInv, NEW c \in Procs \ live, NEW t \in Tables,
           fd' = [fd EXCEPT ![c] = t], Recount(NoRefs, Inherit(t))
    PROVE  Rewrites(c, t, NoRefs, AllRefs(t))
<1>1. \A o \in Ofiles : Cardinality(RefsIn(fd[c], o)) = 0
  BY NoRefsIn DEF CountInv, DeadHoldNothing, IsOpen
<1>2. NoRefs \in [Ofiles -> Nat] /\ \A o \in Ofiles : NoRefs[o] = 0
  BY DEF NoRefs
<1>3. \A o \in Ofiles : Cardinality(RefsIn(t, o)) \in Nat
  BY FinRefsIn
<1>4. \A o \in Ofiles :
          /\ NoRefs[o] <= Cardinality(RefsIn(fd[c], o))
          /\ Cardinality(RefsIn(t, o)) =
                Cardinality(RefsIn(fd[c], o)) - NoRefs[o] + AllRefs(t)[o]
  BY <1>1, <1>2, <1>3, AllRefsType
<1>. QED BY <1>2, <1>4, AllRefsType, NoneGone DEF Rewrites, Recount, Inherit

\* A process closes everything.
LEMMA ExitRewrites ==
    ASSUME CountInv, NEW p \in Procs,
           fd' = [fd EXCEPT ![p] = [i \in Fds |-> NULL]],
           Recount(AllRefs(fd[p]), NoRefs)
    PROVE  Rewrites(p, [i \in Fds |-> NULL], AllRefs(fd[p]), NoRefs)
<1>. DEFINE t == [i \in Fds |-> NULL]
<1>1. \A o \in Ofiles : Cardinality(RefsIn(t, o)) = 0
  BY NoRefsIn
<1>2. NoRefs \in [Ofiles -> Nat] /\ \A o \in Ofiles : NoRefs[o] = 0
  BY DEF NoRefs
<1>3. \A o \in Ofiles : Cardinality(RefsIn(fd[p], o)) \in Nat
  BY FinRefsIn
<1>4. \A o \in Ofiles :
          /\ AllRefs(fd[p])[o] <= Cardinality(RefsIn(fd[p], o))
          /\ Cardinality(RefsIn(t, o)) =
                Cardinality(RefsIn(fd[p], o)) - AllRefs(fd[p])[o] + NoRefs[o]
  <2>. HIDE DEF t
  <2>. QED BY <1>1, <1>2, <1>3, AllRefsType
<1>5. t \in Tables
  BY DEF Tables
<1>6. \A o \in Gone(AllRefs(fd[p])) : NoRefs[o] = 0
  BY <1>2 DEF Gone
<1>. QED BY <1>2, <1>4, <1>5, <1>6, AllRefsType DEF Rewrites, Recount

\* exec closes the descriptors with FD_CLOEXEC.
ExecClosed(p) == {i \in fd_flags[p] : IsOpen(p, i)}
ExecTable(p) == [i \in Fds |-> IF i \in ExecClosed(p) THEN NULL ELSE fd[p][i]]
ExecDrop(p) == [o \in Ofiles |-> Cardinality(RefsIn(fd[p], o) \cap ExecClosed(p))]

LEMMA ExecRewrites ==
    ASSUME CountInv, NEW p \in Procs, DoExec(p)
    PROVE  Rewrites(p, ExecTable(p), ExecDrop(p), NoRefs)
<1>1. fd' = [fd EXCEPT ![p] = ExecTable(p)] /\ ExecTable(p) \in Tables
  BY DEF DoExec, CountInv, TypeOK, ExecTable, ExecClosed, Tables
<1>2. NoRefs \in [Ofiles -> Nat] /\ \A o \in Ofiles : NoRefs[o] = 0
  BY DEF NoRefs
<1>3. ASSUME NEW o \in Ofiles
      PROVE  /\ ExecDrop(p)[o] \in Nat
             /\ ExecDrop(p)[o] <= Cardinality(RefsIn(fd[p], o))
             /\ Cardinality(RefsIn(ExecTable(p), o)) =
                   Cardinality(RefsIn(fd[p], o)) - ExecDrop(p)[o]
             /\ Cardinality(RefsIn(fd[p], o)) \in Nat
  <2>. DEFINE R == RefsIn(fd[p], o)
  <2>1. RefsIn(ExecTable(p), o) = R \ ExecClosed(p)
    BY DEF RefsIn, ExecTable, NULL, Ofiles
  <2>2. IsFiniteSet(R) /\ Cardinality(R) \in Nat
    BY FinRefsIn
  <2>3. ExecDrop(p)[o] = Cardinality(R \cap ExecClosed(p))
    BY DEF ExecDrop
  <2>4. Cardinality(R \ ExecClosed(p)) = Cardinality(R) - Cardinality(R \cap ExecClosed(p))
    BY <2>2, FS_Difference
  <2>5. Cardinality(R \cap ExecClosed(p)) \in Nat /\ Cardinality(R \cap ExecClosed(p)) <= Cardinality(R)
    BY <2>2, FS_Intersection, FS_CardinalityType
  <2>. HIDE DEF R
  <2>. QED BY <2>1, <2>2, <2>3, <2>4, <2>5 DEF R
<1>4. ExecDrop(p) \in [Ofiles -> Nat]
  BY <1>3 DEF ExecDrop
<1>5. /\ refcount' = [o \in Ofiles |-> (refcount[o] - ExecDrop(p)[o]) % RefModulus]
      /\ iref' = [i \in Inodes |->
                     iref[i] - Cardinality({o \in Gone(ExecDrop(p)) : file[o] = InodeFile(i)})]
      /\ file' = Emptied(ExecDrop(p))
  BY DEF DoExec, ExecDrop, ExecClosed
<1>6. ASSUME NEW o \in Ofiles
      PROVE  refcount[o] - ExecDrop(p)[o] = refcount[o] - ExecDrop(p)[o] + NoRefs[o]
  BY <1>2, <1>4 DEF CountInv, TypeOK
<1>7. refcount' = [o \in Ofiles |-> (refcount[o] - ExecDrop(p)[o] + NoRefs[o]) % RefModulus]
  BY <1>5, <1>6
<1>8. \A o \in Ofiles :
          /\ ExecDrop(p)[o] <= Cardinality(RefsIn(fd[p], o))
          /\ Cardinality(RefsIn(ExecTable(p), o)) =
                Cardinality(RefsIn(fd[p], o)) - ExecDrop(p)[o] + NoRefs[o]
  BY <1>2, <1>3
<1>9. \A o \in Gone(ExecDrop(p)) : NoRefs[o] = 0
  BY <1>2 DEF Gone
<1>. QED BY <1>1, <1>2, <1>4, <1>5, <1>7, <1>8, <1>9 DEF Rewrites

-----------------------------------------------------------------------------
(* The actions that make open files *)

\* Process q gets table t, with one descriptor for each of the open files in
\* new, which were free; nothing else changes.
Opens(q, t, new) ==
    /\ q \in Procs /\ t \in Tables
    /\ new \in SUBSET FreeOfiles
    /\ fd' = [fd EXCEPT ![q] = t]
    /\ \A o \in Ofiles :
          Cardinality(RefsIn(t, o)) =
              Cardinality(RefsIn(fd[q], o)) + (IF o \in new THEN 1 ELSE 0)
    /\ refcount' = [o \in Ofiles |-> IF o \in new THEN 1 ELSE refcount[o]]
    /\ \A o \in Ofiles \ new : file'[o] = file[o]
    /\ file' \in [Ofiles -> Files]

LEMMA FreeUnreferred ==
    ASSUME CountInv, NEW o \in FreeOfiles
    PROVE  /\ o \in Ofiles /\ refcount[o] = 0 /\ Refs(o) = {} /\ file[o] = Console
           /\ \A p \in Procs, i \in Fds : fd[p][i] # o
<1>1. o \in Ofiles /\ refcount[o] = 0
  BY DEF FreeOfiles
<1>2. Refs(o) = {}
  BY <1>1, FinRefs, FS_EmptySet DEF CountInv, RefcountExact
<1>3. ASSUME NEW p \in Procs, NEW i \in Fds, fd[p][i] = o
      PROVE  FALSE
  <2>1. <<p, i>> \in Refs(o)
    BY <1>3 DEF Refs
  <2>. QED BY <1>2, <2>1
<1>. QED BY <1>1, <1>2, <1>3 DEF CountInv, FreeFilesEmpty

LEMMA OpensCounts ==
    ASSUME CountInv, NEW q, NEW t, NEW new, Opens(q, t, new)
    PROVE  /\ RefcountExact' /\ FreeFilesEmpty'
           /\ refcount' \in [Ofiles -> 0..(RefModulus - 1)]
           /\ fd' \in [Procs -> Tables]
<1>1. ASSUME NEW o \in Ofiles
      PROVE  refcount'[o] = Cardinality(Refs(o)')
  <2>1. Cardinality(Refs(o)') = Cardinality(Refs(o)) - Cardinality(RefsIn(fd[q], o))
                                    + Cardinality(RefsIn(t, o))
    BY TableSet DEF CountInv, Opens
  <2>2. Cardinality(RefsIn(t, o)) =
              Cardinality(RefsIn(fd[q], o)) + (IF o \in new THEN 1 ELSE 0)
    BY DEF Opens
  <2>3. Cardinality(RefsIn(fd[q], o)) \in Nat
    BY FinRefsIn
  <2>4. refcount[o] = Cardinality(Refs(o)) /\ Cardinality(Refs(o)) \in Nat
    BY FinRefs DEF CountInv, RefcountExact
  <2>5. o \in new => refcount[o] = 0
    BY DEF Opens, FreeOfiles
  <2>6. refcount'[o] = IF o \in new THEN 1 ELSE refcount[o]
    BY DEF Opens
  <2>. QED BY <2>1, <2>2, <2>3, <2>4, <2>5, <2>6
<1>2. FreeFilesEmpty'
  BY DEF CountInv, FreeFilesEmpty, FreeOfiles, Opens
<1>3. 1 \in 0..(RefModulus - 1)
  BY OpenFilesAssumption
<1>4. refcount' \in [Ofiles -> 0..(RefModulus - 1)]
  BY <1>3 DEF CountInv, TypeOK, Opens
<1>5. fd' \in [Procs -> Tables]
  BY DEF CountInv, TypeOK, Opens, Tables
<1>. QED BY <1>1, <1>2, <1>4, <1>5 DEF RefcountExact

LEMMA OpensInodes ==
    ASSUME CountInv, NEW q, NEW t, NEW new, Opens(q, t, new),
           NEW i \in Inodes,
           iref'[i] = Cardinality({o \in Ofiles : file'[o] = InodeFile(i)})
    PROVE  /\ iref'[i] \in 0..MAXOPEN
           /\ iref'[i] =
                Cardinality({o \in Ofiles : Refs(o) # {} /\ file[o] = InodeFile(i)}')
<1>. DEFINE H == {o \in Ofiles : file'[o] = InodeFile(i)}
            N == {o \in Ofiles : Refs(o)' # {} /\ file'[o] = InodeFile(i)}
<1>1. H \in SUBSET Ofiles
  OBVIOUS
<1>2. Cardinality(H) \in Nat /\ Cardinality(H) <= MAXOPEN
  <2>. HIDE DEF H
  <2>. QED BY <1>1, Finite, FS_Subset, FS_CardinalityType
<1>3. ASSUME NEW o \in Ofiles, file'[o] = InodeFile(i)
      PROVE  Refs(o)' # {}
  <2>1. refcount'[o] # 0
    BY <1>3, OpensCounts DEF FreeFilesEmpty, FreeOfiles, Console, InodeFile
  <2>2. refcount'[o] = Cardinality(Refs(o)')
    BY OpensCounts DEF RefcountExact
  <2>. QED BY <2>1, <2>2, FS_EmptySet
<1>4. N = H
  BY <1>3
<1>5. iref'[i] = Cardinality(H)
  OBVIOUS
<1>6. iref'[i] = Cardinality(N) /\ iref'[i] \in 0..MAXOPEN
  <2>. HIDE DEF H, N
  <2>. QED BY <1>2, <1>4, <1>5, OpenFilesAssumption
<1>. QED BY <1>6

LEMMA OpensKeeps ==
    ASSUME CountInv, DeadHoldNothing',
           NEW q, NEW t, NEW new, Opens(q, t, new),
           q = 0 => \A i, j \in Fds : t[i] # NULL /\ t[i] = t[j] => i = j,
           iref' \in [Inodes -> Int],
           \A i \in Inodes : iref'[i] = Cardinality({o \in Ofiles : file'[o] = InodeFile(i)}),
           UNCHANGED <<live, parent, fd_flags>>,
           readers' \in [Pipes -> {0, 1}], writers' \in [Pipes -> {0, 1}],
           last' \in [p : Procs \cup {NULL}, fd : Fds \cup {NULL}]
    PROVE  CountInv' /\ FilesStay
<1>1. ProcessZeroShares'
  <2>1. 0 \in Procs
    BY OpenFilesAssumption DEF Procs
  <2>2. fd'[0] = IF q = 0 THEN t ELSE fd[0]
    BY <2>1 DEF Opens, CountInv, TypeOK
  <2>. QED BY <2>2 DEF CountInv, ProcessZeroShares, IsOpen
<1>2. InodeRefs' /\ iref' \in [Inodes -> 0..MAXOPEN]
  BY OpensInodes DEF InodeRefs
<1>3. TypeOK'
  <2>1. /\ fd' \in [Procs -> Tables]
        /\ refcount' \in [Ofiles -> 0..(RefModulus - 1)]
    BY OpensCounts
  <2>2. file' \in [Ofiles -> Files]
    BY DEF Opens
  <2>3. TypeOK
    BY DEF CountInv
  <2>. QED BY <1>2, <2>1, <2>2, <2>3 DEF TypeOK, Tables
<1>4. RefcountExact' /\ FreeFilesEmpty'
  BY OpensCounts
<1>5. FilesStay
  BY DEF FilesStay, Opens, FreeOfiles
<1>. QED BY <1>1, <1>2, <1>3, <1>4, <1>5 DEF CountInv

\* SYS_OPEN, when there is room.
LEMMA OpenOpens ==
    ASSUME CountInv, NEW p \in Procs, NEW o \in FreeOfiles, NEW n \in FreeFds(p, 0),
           NEW f \in Files,
           refcount' = [refcount EXCEPT ![o] = 1],
           file' = [file EXCEPT ![o] = f],
           fd' = [fd EXCEPT ![p][n] = o]
    PROVE  /\ Opens(p, fd'[p], {o})
           /\ p = 0 => \A i, j \in Fds : fd'[p][i] # NULL /\ fd'[p][i] = fd'[p][j] => i = j
<1>. DEFINE t == [fd[p] EXCEPT ![n] = o]
<1>1. n \in Fds /\ fd[p][n] = NULL /\ o \in Ofiles
  BY DEF FreeFds, IsOpen, FreeOfiles
<1>2. fd[p] \in Tables /\ t \in Tables /\ fd' = [fd EXCEPT ![p] = t]
  BY <1>1 DEF CountInv, TypeOK, Tables
<1>3. ASSUME NEW x \in Ofiles
      PROVE  Cardinality(RefsIn(t, x)) =
                 Cardinality(RefsIn(fd[p], x)) + (IF x \in {o} THEN 1 ELSE 0)
  <2>1. Cardinality(RefsIn(t, x)) = Cardinality(RefsIn(fd[p], x))
                 - (IF fd[p][n] = x THEN 1 ELSE 0) + (IF o = x THEN 1 ELSE 0)
    BY <1>1, <1>2, SlotSet
  <2>2. fd[p][n] # x
    BY <1>1 DEF NULL, Ofiles
  <2>3. Cardinality(RefsIn(fd[p], x)) \in Nat
    BY FinRefsIn
  <2>. HIDE DEF t
  <2>. QED BY <2>1, <2>2, <2>3
<1>4. refcount' = [x \in Ofiles |-> IF x \in {o} THEN 1 ELSE refcount[x]]
  BY DEF CountInv, TypeOK
<1>5. file' \in [Ofiles -> Files] /\ \A x \in Ofiles \ {o} : file'[x] = file[x]
  BY DEF CountInv, TypeOK
<1>6. fd'[p] = t
  BY <1>2 DEF CountInv, TypeOK
<1>7. ASSUME p = 0, NEW i \in Fds, NEW j \in Fds, t[i] # NULL, t[i] = t[j]
      PROVE  i = j
  <2>1. \A k \in Fds : fd[p][k] # o
    BY FreeUnreferred
  <2>2. \A k \in Fds : t[k] = IF k = n THEN o ELSE fd[p][k]
    BY <1>2 DEF Tables
  <2>. QED BY <1>7, <2>1, <2>2 DEF CountInv, ProcessZeroShares, IsOpen
<1>8. Opens(p, t, {o})
  <2>. HIDE DEF t
  <2>. QED BY <1>2, <1>3, <1>4, <1>5 DEF Opens
<1>9. p = 0 => \A i, j \in Fds : fd'[p][i] # NULL /\ fd'[p][i] = fd'[p][j] => i = j
  <2>. HIDE DEF t
  <2>. QED BY <1>6, <1>7
<1>. QED BY <1>6, <1>8, <1>9

LEMMA TwoLeast ==
    ASSUME NEW S \in SUBSET Nat, IsFiniteSet(S), Cardinality(S) >= 2
    PROVE  /\ Min(S) \in S
           /\ Min(S \ {Min(S)}) \in S \ {Min(S)}
<1>1. S # {}
  BY FS_EmptySet
<1>2. Min(S) \in S
  BY <1>1, MinIsIn
<1>3. Cardinality(S \ {Min(S)}) = Cardinality(S) - 1
  BY <1>2, FS_RemoveElement
<1>4. Cardinality(S) \in Nat
  BY FS_CardinalityType
<1>5. S \ {Min(S)} # {}
  BY <1>3, <1>4, FS_EmptySet
<1>6. S \ {Min(S)} \in SUBSET Nat
  OBVIOUS
<1>. QED BY <1>2, <1>5, <1>6, MinIsIn

LEMMA FreeSlots ==
    ASSUME NEW p, NEW min
    PROVE  /\ FreeOfiles \in SUBSET Nat /\ IsFiniteSet(FreeOfiles)
           /\ FreeFds(p, min) \in SUBSET Nat /\ IsFiniteSet(FreeFds(p, min))
           /\ FreePipes \in SUBSET Nat
           /\ FreeFds(p, min) # {} => Min(FreeFds(p, min)) \in FreeFds(p, min)
           /\ FreeOfiles # {} => Min(FreeOfiles) \in FreeOfiles
           /\ FreePipes # {} => Min(FreePipes) \in FreePipes
<1>1. FreeOfiles \in SUBSET Nat /\ FreeOfiles \in SUBSET Ofiles
  BY DEF FreeOfiles, Ofiles
<1>2. FreeFds(p, min) \in SUBSET Nat /\ FreeFds(p, min) \in SUBSET Fds
  BY DEF FreeFds, Fds
<1>3. FreePipes \in SUBSET Nat
  BY DEF FreePipes, Pipes
<1>. QED BY <1>1, <1>2, <1>3, Finite, FS_Subset, MinIsIn

\* do_pipe(), when there is room.
LEMMA PipeOpens ==
    ASSUME CountInv, NEW p \in Procs,
           NEW r \in FreeOfiles, NEW w \in FreeOfiles, r # w,
           NEW i \in FreeFds(p, 0), NEW j \in FreeFds(p, 0), i # j,
           NEW f \in Files, NEW g \in Files,
           refcount' = [refcount EXCEPT ![r] = 1, ![w] = 1],
           file' = [file EXCEPT ![r] = f, ![w] = g],
           fd' = [fd EXCEPT ![p][i] = r, ![p][j] = w]
    PROVE  /\ Opens(p, fd'[p], {r, w})
           /\ p = 0 => \A k, m \in Fds : fd'[p][k] # NULL /\ fd'[p][k] = fd'[p][m] => k = m
<1>. DEFINE u == [fd[p] EXCEPT ![i] = r]
            t == [u EXCEPT ![j] = w]
<1>1. /\ i \in Fds /\ fd[p][i] = NULL /\ j \in Fds /\ fd[p][j] = NULL
      /\ r \in Ofiles /\ w \in Ofiles
  BY DEF FreeFds, IsOpen, FreeOfiles
<1>2. /\ fd[p] \in Tables /\ u \in Tables /\ t \in Tables
      /\ fd' = [fd EXCEPT ![p] = t] /\ fd'[p] = t /\ u[j] = NULL
  BY <1>1 DEF CountInv, TypeOK, Tables
<1>3. ASSUME NEW x \in Ofiles
      PROVE  Cardinality(RefsIn(t, x)) =
                 Cardinality(RefsIn(fd[p], x)) + (IF x \in {r, w} THEN 1 ELSE 0)
  <2>1. Cardinality(RefsIn(u, x)) = Cardinality(RefsIn(fd[p], x))
                 - (IF fd[p][i] = x THEN 1 ELSE 0) + (IF r = x THEN 1 ELSE 0)
    BY <1>1, <1>2, SlotSet
  <2>2. Cardinality(RefsIn(t, x)) = Cardinality(RefsIn(u, x))
                 - (IF u[j] = x THEN 1 ELSE 0) + (IF w = x THEN 1 ELSE 0)
    <3>. HIDE DEF u
    <3>. QED BY <1>1, <1>2, SlotSet
  <2>3. fd[p][i] # x /\ u[j] # x
    BY <1>1, <1>2 DEF NULL, Ofiles
  <2>4. Cardinality(RefsIn(fd[p], x)) \in Nat
    BY FinRefsIn
  <2>. HIDE DEF t, u
  <2>. QED BY <2>1, <2>2, <2>3, <2>4
<1>4. refcount' = [x \in Ofiles |-> IF x \in {r, w} THEN 1 ELSE refcount[x]]
  BY DEF CountInv, TypeOK
<1>5. file' \in [Ofiles -> Files] /\ \A x \in Ofiles \ {r, w} : file'[x] = file[x]
  BY DEF CountInv, TypeOK
<1>6. Opens(p, t, {r, w})
  <2>. HIDE DEF t
  <2>. QED BY <1>2, <1>3, <1>4, <1>5 DEF Opens
<1>7. ASSUME p = 0, NEW k \in Fds, NEW m \in Fds, t[k] # NULL, t[k] = t[m]
      PROVE  k = m
  <2>1. \A n \in Fds : fd[p][n] # r /\ fd[p][n] # w
    BY FreeUnreferred
  <2>2. \A n \in Fds : t[n] = IF n = i THEN r ELSE IF n = j THEN w ELSE fd[p][n]
    BY <1>2 DEF Tables
  <2>3. \A n, l \in Fds : fd[p][n] # NULL /\ fd[p][n] = fd[p][l] => n = l
    BY <1>7 DEF CountInv, ProcessZeroShares, IsOpen
  <2>. HIDE DEF t
  <2>. QED BY <1>7, <2>1, <2>2, <2>3
<1>8. p = 0 => \A k, m \in Fds : fd'[p][k] # NULL /\ fd'[p][k] = fd'[p][m] => k = m
  <2>. HIDE DEF t
  <2>. QED BY <1>2, <1>7
<1>. QED BY <1>2, <1>6, <1>8

\* do_pipe() makes pipe k of the free open files r and w and the free
\* descriptors i and j, or nothing.
MakesPipe(p, k, r, w, i, j) ==
    /\ r # w /\ i # j /\ k \in Pipes
    /\ readers' = [readers EXCEPT ![k] = 1]
    /\ writers' = [writers EXCEPT ![k] = 1]
    /\ refcount' = [refcount EXCEPT ![r] = 1, ![w] = 1]
    /\ file' = [file EXCEPT ![r] = ReadEnd(k), ![w] = WriteEnd(k)]
    /\ fd' = [fd EXCEPT ![p][i] = r, ![p][j] = w]
    /\ Made(p, j)

DoPipeCases(p) ==
    \/ UNCHANGED <<readers, writers, refcount, file, fd>> /\ MadeNone
    \/ \E k \in FreePipes, r, w \in FreeOfiles, i, j \in FreeFds(p, 0) :
          MakesPipe(p, k, r, w, i, j)

LEMMA PipeCases ==
    ASSUME NEW p, DoPipe(p)
    PROVE  DoPipeCases(p)
<1>. DEFINE k == Min(FreePipes)
            r == Min(FreeOfiles)
            w == Min(FreeOfiles \ {r})
            i == Min(FreeFds(p, 0))
            j == Min(FreeFds(p, 0) \ {i})
<1>1. CASE UNCHANGED <<readers, writers, refcount, file, fd>> /\ MadeNone
  BY <1>1 DEF DoPipeCases
<1>2. ASSUME FreePipes # {}, Cardinality(FreeOfiles) >= 2, Cardinality(FreeFds(p, 0)) >= 2,
             readers' = [readers EXCEPT ![k] = 1],
             writers' = [writers EXCEPT ![k] = 1],
             refcount' = [refcount EXCEPT ![r] = 1, ![w] = 1],
             file' = [file EXCEPT ![r] = ReadEnd(k), ![w] = WriteEnd(k)],
             fd' = [fd EXCEPT ![p][i] = r, ![p][j] = w],
             Made(p, j)
      PROVE  DoPipeCases(p)
  <2>1. k \in FreePipes /\ k \in Pipes
    BY <1>2, FreeSlots DEF FreePipes
  <2>2. r \in FreeOfiles /\ w \in FreeOfiles \ {r}
    BY <1>2, FreeSlots, TwoLeast
  <2>3. i \in FreeFds(p, 0) /\ j \in FreeFds(p, 0) \ {i}
    BY <1>2, FreeSlots, TwoLeast
  <2>. HIDE DEF k, r, w, i, j
  <2>4. MakesPipe(p, k, r, w, i, j)
    BY <1>2, <2>1, <2>2, <2>3 DEF MakesPipe
  <2>. QED BY <2>1, <2>2, <2>3, <2>4 DEF DoPipeCases
<1>. QED BY <1>1, <1>2 DEF DoPipe, PipeUndone

-----------------------------------------------------------------------------
(* CountInv *)

LEMMA InitCount == Init => CountInv
<1>. SUFFICES ASSUME Init PROVE CountInv
  OBVIOUS
<1>1. TypeOK
  BY OpenFilesAssumption DEF Init, TypeOK, Procs, Fds, Ofiles, Pipes, Files, NULL, NoFd
<1>2. ProcessZeroShares /\ DeadHoldNothing /\ FreeFilesEmpty
  BY OpenFilesAssumption
     DEF Init, ProcessZeroShares, DeadHoldNothing, FreeFilesEmpty, FreeOfiles, IsOpen,
         Procs, Fds, NULL
<1>3. ASSUME NEW o \in Ofiles
      PROVE  refcount[o] = Cardinality(Refs(o))
  <2>1. Refs(o) = IF o < StdFds THEN {<<0, o>>} ELSE {}
    BY OpenFilesAssumption DEF Init, Refs, Procs, Fds, Ofiles, NULL
  <2>. QED BY <2>1, FS_Singleton, FS_EmptySet DEF Init
<1>4. InodeRefs
  <2>1. \A i \in Inodes : {o \in Ofiles : Refs(o) # {} /\ file[o] = InodeFile(i)} = {}
    BY DEF Init, Console, InodeFile
  <2>. QED BY <2>1, FS_EmptySet DEF Init, InodeRefs
<1>. QED BY <1>1, <1>2, <1>3, <1>4 DEF CountInv, RefcountExact

\* What a live process does to its own table leaves the dead as they are.
LEMMA DeadStayEmpty ==
    ASSUME CountInv, NEW p \in live, NEW t,
           fd' = [fd EXCEPT ![p] = t], UNCHANGED live,
           parent' = parent \/ parent' = [parent EXCEPT ![p] = NULL]
    PROVE  DeadHoldNothing'
BY DEF CountInv, TypeOK, DeadHoldNothing, IsOpen

LEMMA LastTypes ==
    ASSUME NEW p \in Procs, NEW i \in Fds
    PROVE  /\ [p |-> p, fd |-> i] \in [p : Procs \cup {NULL}, fd : Fds \cup {NULL}]
           /\ NoFd \in [p : Procs \cup {NULL}, fd : Fds \cup {NULL}]
BY DEF NoFd

LEMMA PipeCountTypes ==
    ASSUME TypeOK, NEW drop, NEW add, Recount(drop, add)
    PROVE  readers' \in [Pipes -> {0, 1}] /\ writers' \in [Pipes -> {0, 1}]
BY DEF TypeOK, Recount

\* A system call of a live process that changes its table alone.
LEMMA OwnTable ==
    ASSUME CountsFit, CountInv, NEW p \in live, NEW t, NEW drop, NEW add,
           Rewrites(p, t, drop, add), Recount(drop, add),
           p = 0 => \A i, j \in Fds : t[i] # NULL /\ t[i] = t[j] => i = j,
           UNCHANGED <<fd_flags, live, parent>>,
           last' \in [p : Procs \cup {NULL}, fd : Fds \cup {NULL}]
    PROVE  CountInv' /\ FilesStay
<1>1. fd' = [fd EXCEPT ![p] = t]
  BY DEF Rewrites
<1>2. DeadHoldNothing'
  BY <1>1, DeadStayEmpty
<1>3. readers' \in [Pipes -> {0, 1}] /\ writers' \in [Pipes -> {0, 1}]
  BY PipeCountTypes DEF CountInv
<1>4. /\ live' \subseteq Procs /\ fd_flags' \in [Procs -> SUBSET Fds]
      /\ parent' \in [Procs -> Procs \cup {NULL}] /\ 0 \in live'
  BY DEF CountInv, TypeOK, ProcessZeroShares
<1>. QED BY <1>2, <1>3, <1>4, RewriteKeeps

LEMMA CountUnchanged ==
    ASSUME CountInv, UNCHANGED <<fd, refcount, file, iref, live, parent>>,
           fd_flags' \in [Procs -> SUBSET Fds],
           readers' \in [Pipes -> {0, 1}], writers' \in [Pipes -> {0, 1}],
           last' \in [p : Procs \cup {NULL}, fd : Fds \cup {NULL}]
    PROVE  CountInv' /\ FilesStay
<1>1. TypeOK'
  BY DEF CountInv, TypeOK
<1>2. ProcessZeroShares' /\ DeadHoldNothing' /\ FreeFilesEmpty'
  BY DEF CountInv, ProcessZeroShares, DeadHoldNothing, FreeFilesEmpty, FreeOfiles, IsOpen
<1>3. \A o : Refs(o)' = Refs(o)
  BY DEF Refs
<1>4. RefcountExact'
  BY <1>3 DEF CountInv, RefcountExact
<1>5. InodeRefs'
  BY <1>3 DEF CountInv, InodeRefs
<1>. QED BY <1>1, <1>2, <1>4, <1>5 DEF CountInv, FilesStay

LEMMA CountOpen ==
    ASSUME CountsFit, CountInv, NEW p \in Procs, SysOpen(p)
    PROVE  CountInv' /\ FilesStay
<1>1. p \in live /\ UNCHANGED <<fd_flags, readers, writers, live, parent>>
  BY DEF SysOpen, Runs
<1>2. TypeOK
  BY DEF CountInv
<1>3. /\ readers' \in [Pipes -> {0, 1}] /\ writers' \in [Pipes -> {0, 1}]
      /\ fd_flags' \in [Procs -> SUBSET Fds]
  BY <1>1, <1>2 DEF TypeOK
<1>4. CASE UNCHANGED <<refcount, file, fd, iref>> /\ MadeNone
  BY <1>1, <1>3, <1>4, CountUnchanged DEF MadeNone, NoFd
<1>5. ASSUME NEW h \in Inodes, FreeOfiles # {}, FreeFds(p, 0) # {},
             LET o == Min(FreeOfiles)
                 n == Min(FreeFds(p, 0))
             IN  /\ refcount' = [refcount EXCEPT ![o] = 1]
                 /\ file' = [file EXCEPT ![o] = InodeFile(h)]
                 /\ fd' = [fd EXCEPT ![p][n] = o]
                 /\ Made(p, n),
             iref' = [iref EXCEPT ![h] = @ + 1]
      PROVE  CountInv' /\ FilesStay
  <2>1. PICK o \in FreeOfiles, n \in FreeFds(p, 0) :
           /\ refcount' = [refcount EXCEPT ![o] = 1]
           /\ file' = [file EXCEPT ![o] = InodeFile(h)]
           /\ fd' = [fd EXCEPT ![p][n] = o]
           /\ Made(p, n)
    BY <1>5, FreeSlots
  <2>2. InodeFile(h) \in Files /\ n \in Fds /\ o \in Ofiles
    BY DEF Files, FreeFds, FreeOfiles
  <2>3. /\ Opens(p, fd'[p], {o})
        /\ p = 0 => \A i, j \in Fds : fd'[p][i] # NULL /\ fd'[p][i] = fd'[p][j] => i = j
    BY <2>1, <2>2, OpenOpens
  <2>4. fd' = [fd EXCEPT ![p] = fd'[p]]
    BY <2>3 DEF Opens
  <2>5. DeadHoldNothing'
    BY <1>1, <2>4, DeadStayEmpty
  <2>6. last' \in [p : Procs \cup {NULL}, fd : Fds \cup {NULL}]
    BY <2>1, <2>2, LastTypes DEF Made
  <2>7. ASSUME NEW i \in Inodes
        PROVE  iref'[i] = Cardinality({x \in Ofiles : file'[x] = InodeFile(i)})
    <3>. DEFINE H == {x \in Ofiles : file[x] = InodeFile(i)}
    <3>1. IsFiniteSet(H) /\ iref[i] = Cardinality(H)
      BY InodeHolders
    <3>2. file[o] = Console
      BY FreeUnreferred
    <3>3. o \notin H
      BY <3>2 DEF Console, InodeFile
    <3>4. {x \in Ofiles : file'[x] = InodeFile(i)} = IF i = h THEN H \cup {o} ELSE H
      <4>1. \A x \in Ofiles : file'[x] = IF x = o THEN InodeFile(h) ELSE file[x]
        BY <1>2, <2>1, <2>2 DEF TypeOK
      <4>2. InodeFile(i) = InodeFile(h) <=> i = h
        BY DEF InodeFile
      <4>. QED BY <2>2, <3>3, <4>1, <4>2
    <3>5. Cardinality(H \cup {o}) = Cardinality(H) + 1
      BY <3>1, <3>3, FS_AddElement
    <3>6. iref'[i] = IF i = h THEN iref[i] + 1 ELSE iref[i]
      BY <1>2, <1>5 DEF TypeOK
    <3>. HIDE DEF H
    <3>. QED BY <3>1, <3>4, <3>5, <3>6
  <2>8. iref' \in [Inodes -> Int]
    BY <1>2, <1>5 DEF TypeOK
  <2>. QED BY <1>1, <1>3, <2>3, <2>5, <2>6, <2>7, <2>8, OpensKeeps
<1>. QED BY <1>4, <1>5 DEF SysOpen

LEMMA CountClose ==
    ASSUME CountsFit, CountInv, NEW p \in Procs, SysClose(p)
    PROVE  CountInv' /\ FilesStay
<1>1. PICK i \in Fds : /\ IsOpen(p, i)
                       /\ fd' = [fd EXCEPT ![p][i] = NULL]
                       /\ Recount(OneRef(fd[p][i]), NoRefs)
  BY DEF SysClose
<1>2. p \in live /\ UNCHANGED <<fd_flags, live, parent>> /\ last' = NoFd
  BY DEF SysClose, Runs, MadeNone
<1>3. Rewrites(p, [fd[p] EXCEPT ![i] = NULL], OneRef(fd[p][i]), NoRefs)
  BY <1>1, CloseRewrites
<1>4. ASSUME p = 0
      PROVE  LET t == [fd[p] EXCEPT ![i] = NULL]
             IN  \A k, m \in Fds : t[k] # NULL /\ t[k] = t[m] => k = m
  BY <1>4 DEF CountInv, TypeOK, ProcessZeroShares, IsOpen
<1>5. last' \in [p : Procs \cup {NULL}, fd : Fds \cup {NULL}]
  BY <1>1, <1>2, LastTypes
<1>. QED BY <1>1, <1>2, <1>3, <1>4, <1>5, OwnTable

LEMMA CountDup ==
    ASSUME CountsFit, CountInv, NEW p \in live, p # 0,
           NEW i \in Fds, NEW n \in Fds, i # n, IsOpen(p, i),
           fd' = [fd EXCEPT ![p][n] = fd[p][i]],
           Recount(IF IsOpen(p, n) THEN OneRef(fd[p][n]) ELSE NoRefs, OneRef(fd[p][i])),
           UNCHANGED <<fd_flags, live, parent>>, Made(p, n)
    PROVE  CountInv' /\ FilesStay
<1>1. p \in Procs
  BY DEF CountInv, TypeOK
<1>2. Rewrites(p, [fd[p] EXCEPT ![n] = fd[p][i]],
               IF IsOpen(p, n) THEN OneRef(fd[p][n]) ELSE NoRefs, OneRef(fd[p][i]))
  BY <1>1, DupRewrites
<1>3. last' \in [p : Procs \cup {NULL}, fd : Fds \cup {NULL}]
  BY <1>1, LastTypes DEF Made
<1>. QED BY <1>1, <1>2, <1>3, OwnTable

LEMMA CountDups ==
    ASSUME CountsFit, CountInv, NEW p \in Procs, SysDup(p) \/ SysDup2(p) \/ FDupfd(p)
    PROVE  CountInv' /\ FilesStay
<1>1. p \in live /\ p # 0 /\ UNCHANGED <<fd_flags, live, parent>>
  BY DEF SysDup, SysDup2, FDupfd, RunsProgram, Runs
<1>2. ASSUME NEW min, NEW i \in Fds, IsOpen(p, i), FreeFds(p, min) # {},
             Recount(NoRefs, OneRef(fd[p][i])),
             fd' = [fd EXCEPT ![p][Min(FreeFds(p, min))] = fd[p][i]],
             Made(p, Min(FreeFds(p, min)))
      PROVE  CountInv' /\ FilesStay
  <2>1. PICK n \in FreeFds(p, min) :
            fd' = [fd EXCEPT ![p][n] = fd[p][i]] /\ Made(p, n)
    BY <1>2, FreeSlots
  <2>2. n \in Fds /\ ~IsOpen(p, n) /\ i # n
    BY <1>2 DEF FreeFds
  <2>3. Recount(IF IsOpen(p, n) THEN OneRef(fd[p][n]) ELSE NoRefs, OneRef(fd[p][i]))
    BY <1>2, <2>2
  <2>. QED BY <1>1, <1>2, <2>1, <2>2, <2>3, CountDup
<1>3. CASE SysDup(p)
  <2>1. ~FailingDup
    BY DEF CountsFit
  <2>. QED BY <1>2, <1>3, <2>1 DEF SysDup
<1>4. CASE SysDup2(p)
  <2>1. PICK old \in Fds, new \in Fds :
          /\ IsOpen(p, old)
          /\ IF old = new
             THEN /\ fd' = [fd EXCEPT ![p][new] = NULL]
                  /\ Recount(OneRef(fd[p][old]), NoRefs)
             ELSE /\ fd' = [fd EXCEPT ![p][new] = fd[p][old]]
                  /\ Recount(IF IsOpen(p, new) THEN OneRef(fd[p][new]) ELSE NoRefs,
                             OneRef(fd[p][old]))
          /\ Made(p, new)
    BY <1>4 DEF SysDup2
  <2>2. CASE old = new
    <3>1. Rewrites(p, [fd[p] EXCEPT ![old] = NULL], OneRef(fd[p][old]), NoRefs)
      BY <2>1, <2>2, CloseRewrites
    <3>2. last' \in [p : Procs \cup {NULL}, fd : Fds \cup {NULL}]
      BY <2>1, LastTypes DEF Made
    <3>3. Recount(OneRef(fd[p][old]), NoRefs)
      BY <2>1, <2>2
    <3>. QED BY <1>1, <3>1, <3>2, <3>3, OwnTable
  <2>3. CASE old # new
    BY <1>1, <2>1, <2>3, CountDup
  <2>. QED BY <2>2, <2>3
<1>5. CASE FDupfd(p)
  <2>1. PICK i \in Fds, min \in HighFds :
          /\ IsOpen(p, i)
          /\ \/ /\ FreeFds(p, min) # {}
                /\ Recount(NoRefs, OneRef(fd[p][i]))
                /\ fd' = [fd EXCEPT ![p][Min(FreeFds(p, min))] = fd[p][i]]
                /\ Made(p, Min(FreeFds(p, min)))
             \/ /\ MadeNone
                /\ UNCHANGED <<fd, refcount, file, readers, writers, iref>>
    BY <1>5 DEF FDupfd
  <2>2. CASE MadeNone /\ UNCHANGED <<fd, refcount, file, readers, writers, iref>>
    <3>1. TypeOK
      BY DEF CountInv
    <3>2. /\ readers' \in [Pipes -> {0, 1}] /\ writers' \in [Pipes -> {0, 1}]
          /\ fd_flags' \in [Procs -> SUBSET Fds]
      BY <1>1, <2>2, <3>1 DEF TypeOK
    <3>. QED BY <1>1, <2>1, <2>2, <3>2, LastTypes, CountUnchanged DEF MadeNone
  <2>. QED BY <1>2, <2>1, <2>2
<1>. QED BY <1>3, <1>4, <1>5

LEMMA CountSetfd ==
    ASSUME CountInv, NEW p \in Procs, FSetfd(p)
    PROVE  CountInv' /\ FilesStay
<1>1. TypeOK
  BY DEF CountInv
<1>2. fd_flags' \in [Procs -> SUBSET Fds]
  <2>1. PICK i \in HighFds : \/ fd_flags' = [fd_flags EXCEPT ![p] = @ \cup {i}]
                            \/ fd_flags' = [fd_flags EXCEPT ![p] = @ \ {i}]
    BY DEF FSetfd
  <2>2. i \in Fds
    BY OpenFilesAssumption DEF Fds
  <2>3. fd_flags \in [Procs -> SUBSET Fds]
    BY <1>1 DEF TypeOK
  <2>4. fd_flags[p] \cup {i} \in SUBSET Fds /\ fd_flags[p] \ {i} \in SUBSET Fds
    BY <2>2, <2>3
  <2>. QED BY <2>1, <2>3, <2>4
<1>3. UNCHANGED <<fd, refcount, file, readers, writers, iref, live, parent>> /\ last' = NoFd
  BY DEF FSetfd, MadeNone
<1>4. /\ readers' \in [Pipes -> {0, 1}] /\ writers' \in [Pipes -> {0, 1}]
      /\ last' \in [p : Procs \cup {NULL}, fd : Fds \cup {NULL}]
  BY <1>1, <1>3 DEF TypeOK, NoFd
<1>. QED BY <1>2, <1>3, <1>4, CountUnchanged

LEMMA CountPipe ==
    ASSUME CountInv, NEW p \in Procs, DoPipe(p)
    PROVE  CountInv' /\ FilesStay
<1>1. p \in live /\ UNCHANGED <<fd_flags, iref, live, parent>>
  BY DEF DoPipe, Runs
<1>2. TypeOK
  BY DEF CountInv
<1>3. fd_flags' \in [Procs -> SUBSET Fds]
  BY <1>1, <1>2 DEF TypeOK
<1>4. CASE UNCHANGED <<readers, writers, refcount, file, fd>> /\ MadeNone
  <2>1. /\ readers' \in [Pipes -> {0, 1}] /\ writers' \in [Pipes -> {0, 1}]
        /\ last' \in [p : Procs \cup {NULL}, fd : Fds \cup {NULL}]
    BY <1>2, <1>4 DEF TypeOK, MadeNone, NoFd
  <2>. QED BY <1>1, <1>3, <1>4, <2>1, CountUnchanged
<1>6. DoPipeCases(p)
  BY PipeCases
<1>7. CASE ~ (UNCHANGED <<readers, writers, refcount, file, fd>> /\ MadeNone)
  <2>9. PICK k \in FreePipes, r \in FreeOfiles, w \in FreeOfiles,
             i \in FreeFds(p, 0), j \in FreeFds(p, 0) : MakesPipe(p, k, r, w, i, j)
    BY <1>6, <1>7 DEF DoPipeCases
  <2>0. /\ r # w /\ i # j /\ k \in Pipes
        /\ readers' = [readers EXCEPT ![k] = 1]
        /\ writers' = [writers EXCEPT ![k] = 1]
        /\ refcount' = [refcount EXCEPT ![r] = 1, ![w] = 1]
        /\ file' = [file EXCEPT ![r] = ReadEnd(k), ![w] = WriteEnd(k)]
        /\ fd' = [fd EXCEPT ![p][i] = r, ![p][j] = w]
        /\ Made(p, j)
    BY <2>9 DEF MakesPipe
  <2>1. ReadEnd(k) \in Files /\ WriteEnd(k) \in Files
    BY <2>0 DEF Files
  <2>2. /\ Opens(p, fd'[p], {r, w})
        /\ p = 0 => \A l, m \in Fds : fd'[p][l] # NULL /\ fd'[p][l] = fd'[p][m] => l = m
    BY <2>0, <2>1, PipeOpens
  <2>3. fd' = [fd EXCEPT ![p] = fd'[p]]
    BY <2>2 DEF Opens
  <2>4. DeadHoldNothing'
    BY <1>1, <2>3, DeadStayEmpty
  <2>5. last' \in [p : Procs \cup {NULL}, fd : Fds \cup {NULL}]
    BY <2>0, LastTypes DEF Made, FreeFds
  <2>6. readers' \in [Pipes -> {0, 1}] /\ writers' \in [Pipes -> {0, 1}]
    BY <1>2, <2>0 DEF TypeOK
  <2>7. ASSUME NEW h \in Inodes
        PROVE  iref'[h] = Cardinality({x \in Ofiles : file'[x] = InodeFile(h)})
    <3>1. iref[h] = Cardinality({x \in Ofiles : file[x] = InodeFile(h)})
      BY InodeHolders
    <3>2. file[r] = Console /\ file[w] = Console /\ r \in Ofiles /\ w \in Ofiles
      BY FreeUnreferred
    <3>3. ASSUME NEW x \in Ofiles
          PROVE  file'[x] = InodeFile(h) <=> file[x] = InodeFile(h)
      BY <1>2, <2>0, <3>2 DEF TypeOK, Console, InodeFile, ReadEnd, WriteEnd
    <3>4. {x \in Ofiles : file'[x] = InodeFile(h)} = {x \in Ofiles : file[x] = InodeFile(h)}
      BY <3>3
    <3>. QED BY <1>1, <3>1, <3>4
  <2>8. iref' \in [Inodes -> Int]
    BY <1>1, <1>2 DEF TypeOK
  <2>. QED BY <1>1, <2>2, <2>4, <2>5, <2>6, <2>7, <2>8, OpensKeeps
<1>. QED BY <1>4, <1>7

LEMMA CountVfork ==
    ASSUME CountsFit, CountInv, NEW p \in Procs, Vfork(p)
    PROVE  CountInv' /\ FilesStay
<1>1. PICK c \in Procs \ live :
          /\ fd' = [fd EXCEPT ![c] = fd[p]]
          /\ fd_flags' = [fd_flags EXCEPT ![c] = fd_flags[p]]
          /\ Recount(NoRefs, Inherit(fd[p]))
          /\ live' = live \cup {c}
          /\ parent' = [parent EXCEPT ![c] = p]
  BY DEF Vfork
<1>2. TypeOK /\ 0 \in live /\ DeadHoldNothing
  BY DEF CountInv, ProcessZeroShares
<1>3. fd[p] \in Tables /\ c # 0
  BY <1>2 DEF TypeOK, Tables
<1>4. Rewrites(c, fd[p], NoRefs, AllRefs(fd[p]))
  BY <1>1, <1>3, InheritRewrites
<1>5. DeadHoldNothing'
  BY <1>1, <1>2 DEF DeadHoldNothing, IsOpen, TypeOK
<1>6. readers' \in [Pipes -> {0, 1}] /\ writers' \in [Pipes -> {0, 1}]
  BY <1>1, <1>2, PipeCountTypes
<1>7. /\ live' \subseteq Procs /\ fd_flags' \in [Procs -> SUBSET Fds]
      /\ parent' \in [Procs -> Procs \cup {NULL}] /\ 0 \in live'
  BY <1>1, <1>2 DEF TypeOK
<1>8. last' \in [p : Procs \cup {NULL}, fd : Fds \cup {NULL}]
  BY DEF Vfork, MadeNone, NoFd
<1>. QED BY <1>3, <1>4, <1>5, <1>6, <1>7, <1>8, RewriteKeeps

\* The child's table is made of the caller's descriptors.
SpawnTable(m) ==
    [i \in Fds |-> IF i < StdFds /\ m[i] # NULL THEN fd[0][m[i]] ELSE fd[0][i]]

LEMMA CountSpawn ==
    ASSUME CountsFit, CountInv, SpawnFd
    PROVE  CountInv' /\ FilesStay
<1>1. PICK c \in Procs \ live,
           m \in [0..(StdFds - 1) -> {i \in Fds : IsOpen(0, i)} \cup {NULL}] :
          /\ fd' = [fd EXCEPT ![c] = SpawnTable(m)]
          /\ fd_flags' = [fd_flags EXCEPT ![c] = fd_flags[0]]
          /\ Recount(NoRefs, Inherit(SpawnTable(m)))
          /\ live' = live \cup {c}
  BY DEF SpawnFd, SpawnTable
<1>2. TypeOK /\ 0 \in live /\ DeadHoldNothing
  BY DEF CountInv, ProcessZeroShares
<1>3. SpawnTable(m) \in Tables /\ c # 0
  <2>1. \A i \in Fds : i < StdFds /\ m[i] # NULL => m[i] \in Fds
    BY OpenFilesAssumption DEF Fds
  <2>2. 0 \in Procs
    BY <1>2 DEF TypeOK
  <2>. QED BY <1>2, <2>1, <2>2 DEF TypeOK, Tables, SpawnTable
<1>4. Rewrites(c, SpawnTable(m), NoRefs, AllRefs(SpawnTable(m)))
  BY <1>1, <1>3, InheritRewrites
<1>5. UNCHANGED parent /\ last' = NoFd
  BY DEF SpawnFd, MadeNone
<1>6. DeadHoldNothing'
  BY <1>1, <1>2, <1>5 DEF DeadHoldNothing, IsOpen, TypeOK
<1>7. readers' \in [Pipes -> {0, 1}] /\ writers' \in [Pipes -> {0, 1}]
  BY <1>1, <1>2, PipeCountTypes
<1>8. /\ live' \subseteq Procs /\ fd_flags' \in [Procs -> SUBSET Fds]
      /\ parent' \in [Procs -> Procs \cup {NULL}] /\ 0 \in live'
  BY <1>1, <1>2, <1>5 DEF TypeOK
<1>9. last' \in [p : Procs \cup {NULL}, fd : Fds \cup {NULL}]
  BY <1>5 DEF NoFd
<1>. QED BY <1>3, <1>4, <1>6, <1>7, <1>8, <1>9, RewriteKeeps

LEMMA CountExit ==
    ASSUME CountsFit, CountInv, NEW p \in Procs, DoExit(p)
    PROVE  CountInv' /\ FilesStay
<1>1. /\ p # 0
      /\ fd' = [fd EXCEPT ![p] = [i \in Fds |-> NULL]]
      /\ Recount(AllRefs(fd[p]), NoRefs)
      /\ live' = live \ {p}
      /\ parent' = [parent EXCEPT ![p] = NULL]
      /\ UNCHANGED fd_flags /\ last' = NoFd
  BY DEF DoExit, RunsProgram, MadeNone
<1>2. TypeOK /\ 0 \in live /\ DeadHoldNothing
  BY DEF CountInv, ProcessZeroShares
<1>3. Rewrites(p, [i \in Fds |-> NULL], AllRefs(fd[p]), NoRefs)
  BY <1>1, ExitRewrites
<1>4. DeadHoldNothing'
  BY <1>1, <1>2 DEF DeadHoldNothing, IsOpen, TypeOK
<1>5. readers' \in [Pipes -> {0, 1}] /\ writers' \in [Pipes -> {0, 1}]
  BY <1>1, <1>2, PipeCountTypes
<1>6. /\ live' \subseteq Procs /\ fd_flags' \in [Procs -> SUBSET Fds]
      /\ parent' \in [Procs -> Procs \cup {NULL}] /\ 0 \in live'
  BY <1>1, <1>2 DEF TypeOK
<1>7. last' \in [p : Procs \cup {NULL}, fd : Fds \cup {NULL}]
  BY <1>1 DEF NoFd
<1>. QED BY <1>1, <1>3, <1>4, <1>5, <1>6, <1>7, RewriteKeeps

LEMMA CountExec ==
    ASSUME CountsFit, CountInv, NEW p \in Procs, DoExec(p)
    PROVE  CountInv' /\ FilesStay
<1>1. /\ p # 0 /\ p \in live
      /\ parent' = [parent EXCEPT ![p] = NULL]
      /\ fd_flags' = [fd_flags EXCEPT ![p] = @ \ ExecClosed(p)]
      /\ UNCHANGED <<readers, writers, live>> /\ last' = NoFd
  BY DEF DoExec, RunsProgram, Runs, MadeNone, ExecClosed
<1>2. TypeOK /\ 0 \in live
  BY DEF CountInv, ProcessZeroShares
<1>3. Rewrites(p, ExecTable(p), ExecDrop(p), NoRefs)
  BY ExecRewrites
<1>4. DeadHoldNothing'
  BY <1>1, <1>3, DeadStayEmpty DEF Rewrites
<1>5. /\ live' \subseteq Procs /\ fd_flags' \in [Procs -> SUBSET Fds]
      /\ parent' \in [Procs -> Procs \cup {NULL}] /\ 0 \in live'
      /\ readers' \in [Pipes -> {0, 1}] /\ writers' \in [Pipes -> {0, 1}]
  BY <1>1, <1>2 DEF TypeOK
<1>6. last' \in [p : Procs \cup {NULL}, fd : Fds \cup {NULL}]
  BY <1>1 DEF NoFd
<1>. QED BY <1>1, <1>3, <1>4, <1>5, <1>6, RewriteKeeps

LEMMA CountStep ==
    ASSUME CountsFit, CountInv, [Next]_vars
    PROVE  CountInv' /\ FilesStay
<1>1. CASE UNCHANGED vars
  <2>1. TypeOK /\ UNCHANGED <<fd, refcount, file, iref, live, parent, fd_flags, readers,
                             writers, last>>
    BY <1>1 DEF vars, CountInv
  <2>2. /\ fd_flags' \in [Procs -> SUBSET Fds]
        /\ readers' \in [Pipes -> {0, 1}] /\ writers' \in [Pipes -> {0, 1}]
        /\ last' \in [p : Procs \cup {NULL}, fd : Fds \cup {NULL}]
    BY <2>1 DEF TypeOK
  <2>. QED BY <2>1, <2>2, CountUnchanged
<1>2. CASE Next
  BY <1>2, CountOpen, CountClose, CountDups, CountSetfd, CountPipe, CountVfork, CountExit,
     CountExec, CountSpawn DEF Next
<1>. QED BY <1>1, <1>2

-----------------------------------------------------------------------------
(* The counts are exact, and descriptors keep their files *)

LEMMA CountsHold ==
    ASSUME CountsFit
    PROVE  Spec => []CountInv
<1>1. Init => CountInv
  BY InitCount
<1>2. CountInv /\ [Next]_vars => CountInv'
  BY CountStep
<1>. QED BY <1>1, <1>2, PTL DEF Spec

\* The counts, tables and flags of kernel/proc.c stay within their types for
\* every number of processes, descriptors, open files and pipes.
THEOREM OpenFilesTypes ==
    ASSUME CountsFit
    PROVE  Spec => []TypeOK
<1>1. CountInv => TypeOK
  BY DEF CountInv
<1>. QED BY <1>1, CountsHold, PTL

\* The refcount of every open file is the number of descriptors that refer to
\* it, through dup, dup2, F_DUPFD, close, pipe, vfork, spawn, exec and exit
\* (kernel/proc.c, kernel/exec.c): as long as a byte can count the descriptors
\* and no program calls dup() with its table full.
THEOREM ReferenceCounts ==
    ASSUME CountsFit
    PROVE  Spec => []RefcountExact
<1>1. CountInv => RefcountExact
  BY DEF CountInv
<1>. QED BY <1>1, CountsHold, PTL

\* Every inode is held once by each open file that refers to it, so that the
\* last close, and no earlier one, calls the fs_iput() that may free it.
THEOREM InodesHeld ==
    ASSUME CountsFit
    PROVE  Spec => []InodeRefs
<1>1. CountInv => InodeRefs
  BY DEF CountInv
<1>. QED BY <1>1, CountsHold, PTL

LEMMA StableStep ==
    ASSUME CountsFit, CountInv, [Next]_vars,
           NEW p \in Procs, NEW i \in Fds, fd[p][i] # NULL, fd'[p][i] = fd[p][i]
    PROVE  file'[fd[p][i]] = file[fd[p][i]]
<1>1. CountInv' /\ FilesStay
  BY CountStep
<1>2. fd[p][i] \in Ofiles
  BY DEF CountInv, TypeOK
<1>3. refcount[fd[p][i]] # 0 /\ refcount'[fd[p][i]] # 0
  <2>. DEFINE o == fd[p][i]
  <2>1. <<p, i>> \in Refs(o) /\ <<p, i>> \in Refs(o)'
    BY DEF Refs
  <2>2. IsFiniteSet(Refs(o)) /\ IsFiniteSet(Refs(o)')
    <3>1. Refs(o) \in SUBSET (Procs \X Fds) /\ Refs(o)' \in SUBSET (Procs \X Fds)
      BY DEF Refs
    <3>. QED BY <3>1, Finite, FS_Product, FS_Subset
  <2>3. refcount[o] = Cardinality(Refs(o)) /\ refcount'[o] = Cardinality(Refs(o)')
    BY <1>1, <1>2 DEF CountInv, RefcountExact
  <2>. QED BY <2>1, <2>2, <2>3, FS_EmptySet
<1>. QED BY <1>1, <1>2, <1>3 DEF FilesStay

\* ofile_alloc() hands out no open file that a descriptor still refers to, and
\* nothing else re-uses one: what a descriptor refers to changes only when the
\* descriptor itself does.
THEOREM DescriptorsKeepFiles ==
    ASSUME CountsFit
    PROVE  Spec => DescriptorStable
<1>1. CountInv /\ [Next]_vars =>
        [\A p \in Procs, i \in Fds :
           fd[p][i] # NULL /\ fd'[p][i] = fd[p][i] => file'[fd[p][i]] = file[fd[p][i]]]_vars
  BY StableStep
<1>. QED BY <1>1, CountsHold, PTL DEF Spec, DescriptorStable

-----------------------------------------------------------------------------
(* The ends of pipes *)

\* Some open file refers to f.
Held(f) == \E o \in Ofiles : file[o] = f

PipesHeld ==
    \A k \in Pipes :
        /\ readers[k] = 1 <=> Held(ReadEnd(k))
        /\ writers[k] = 1 <=> Held(WriteEnd(k))

\* What is not the console has descriptors, so PipeEnds is PipesHeld.
LEMMA HeldIsReferred == CountInv => (PipeEnds <=> PipesHeld)
<1>. SUFFICES ASSUME CountInv PROVE PipeEnds <=> PipesHeld
  OBVIOUS
<1>1. ASSUME NEW o \in Ofiles, file[o] # Console
      PROVE  Refs(o) # {}
  <2>1. refcount[o] # 0
    BY <1>1 DEF CountInv, FreeFilesEmpty, FreeOfiles
  <2>. QED BY <2>1, FS_EmptySet DEF CountInv, RefcountExact
<1>2. \A k : ReadEnd(k) # Console /\ WriteEnd(k) # Console
  BY DEF ReadEnd, WriteEnd, Console
<1>3. ASSUME NEW f, f # Console
      PROVE  (\E o \in Ofiles : Refs(o) # {} /\ file[o] = f) <=> Held(f)
  BY <1>1, <1>3 DEF Held
<1>. QED BY <1>2, <1>3 DEF PipeEnds, PipesHeld

LEMMA HeldIsReferredNext == CountInv' => (PipeEnds' <=> PipesHeld')
BY HeldIsReferred, PTL

LEMMA PipeFilesOther ==
    /\ Console \notin PipeFiles
    /\ \A k \in Pipes : ReadEnd(k) \in PipeFiles /\ WriteEnd(k) \in PipeFiles
    /\ \A i \in Inodes : InodeFile(i) \notin PipeFiles
BY DEF Console, PipeFiles, ReadEnd, WriteEnd, InodeFile

\* An end is held after a change of table unless it was closed.
LEMMA HeldAfter ==
    ASSUME CountsFit, CountInv, ProcessZeroShares', EndsUnique,
           NEW q, NEW t, NEW drop, NEW add, Rewrites(q, t, drop, add),
           NEW f \in PipeFiles
    PROVE  Held(f)' <=> Held(f) /\ f \notin ClosedEnds(drop)
<1>1. /\ \A o \in Ofiles : file'[o] # Console => file'[o] = file[o]
      /\ \A o \in Ofiles : refcount'[o] = 0 => file'[o] = Console
  BY RewriteFiles
<1>2. \A o \in Ofiles : o \in Gone(drop) => refcount'[o] = 0
  BY RewriteGone
<1>3. \A o \in Ofiles : o \notin Gone(drop) => file'[o] = file[o]
  BY DEF Rewrites, Emptied
<1>4. f # Console
  BY PipeFilesOther
<1>5. \A o \in Gone(drop) : o \in Ofiles
  BY DEF Gone
<1>6. ASSUME Held(f)'
      PROVE  Held(f) /\ f \notin ClosedEnds(drop)
  <2>1. PICK o \in Ofiles : file'[o] = f
    BY <1>6 DEF Held
  <2>2. file[o] = f /\ o \notin Gone(drop)
    BY <1>1, <1>2, <1>4, <2>1
  <2>3. \A x \in Gone(drop) : file[x] # f
    BY <1>5, <2>2 DEF EndsUnique
  <2>. QED BY <2>2, <2>3 DEF Held, ClosedEnds
<1>7. ASSUME Held(f), f \notin ClosedEnds(drop)
      PROVE  Held(f)'
  BY <1>3, <1>7 DEF Held, ClosedEnds
<1>. QED BY <1>6, <1>7

LEMMA RewritePipes ==
    ASSUME CountsFit, CountInv, CountInv', PipeInv,
           NEW q, NEW t, NEW drop, NEW add, Rewrites(q, t, drop, add),
           readers' = [k \in Pipes |-> IF ReadEnd(k) \in ClosedEnds(drop) THEN 0 ELSE readers[k]],
           writers' = [k \in Pipes |-> IF WriteEnd(k) \in ClosedEnds(drop) THEN 0 ELSE writers[k]]
    PROVE  /\ EndsUnique' /\ PipeEnds'
           /\ \A o \in Ofiles : file'[o] \in PipeFiles => file'[o] = file[o]
<1>1. ProcessZeroShares' /\ EndsUnique /\ PipeEnds
  BY DEF CountInv, PipeInv
<1>2. \A o \in Ofiles : file'[o] \in PipeFiles => file'[o] = file[o]
  BY <1>1, RewriteFiles, PipeFilesOther
<1>3. EndsUnique'
  BY <1>1, <1>2 DEF EndsUnique, PipeFiles
<1>4. \A f \in PipeFiles : Held(f)' <=> Held(f) /\ f \notin ClosedEnds(drop)
  BY <1>1, HeldAfter
<1>5. PipesHeld
  BY <1>1, HeldIsReferred
<1>6. PipesHeld'
  <2>1. ASSUME NEW k \in Pipes
        PROVE  readers'[k] = 1 <=> Held(ReadEnd(k))'
    <3>1. Held(ReadEnd(k))' <=> Held(ReadEnd(k)) /\ ReadEnd(k) \notin ClosedEnds(drop)
      BY <1>4, PipeFilesOther
    <3>2. readers[k] = 1 <=> Held(ReadEnd(k))
      BY <1>5 DEF PipesHeld
    <3>. QED BY <3>1, <3>2
  <2>2. ASSUME NEW k \in Pipes
        PROVE  writers'[k] = 1 <=> Held(WriteEnd(k))'
    <3>1. Held(WriteEnd(k))' <=> Held(WriteEnd(k)) /\ WriteEnd(k) \notin ClosedEnds(drop)
      BY <1>4, PipeFilesOther
    <3>2. writers[k] = 1 <=> Held(WriteEnd(k))
      BY <1>5 DEF PipesHeld
    <3>. QED BY <3>1, <3>2
  <2>. QED BY <2>1, <2>2 DEF PipesHeld
<1>. QED BY <1>2, <1>3, <1>6, HeldIsReferredNext

\* No open file becomes an end of a pipe.
EndsOnlyClose ==
    \A o \in Ofiles : file'[o] \in PipeFiles => file'[o] = file[o]

\* Every end of a pipe in table t, process p has.
EndsFrom(p, t) ==
    \A i \in Fds : t[i] # NULL /\ file'[t[i]] \in PipeFiles =>
        \E j \in Fds : fd[p][j] = t[i]

\* A process that runs changes its own table, gaining no end of a pipe that it
\* did not have: nobody's parent changes.
LEMMA OwnWindows ==
    ASSUME CountInv, PipeInv, NEW p \in Procs, Runs(p),
           NEW t \in Tables, fd' = [fd EXCEPT ![p] = t],
           parent' = parent \/ parent' = [parent EXCEPT ![p] = NULL],
           live' = live \/ live' = live \ {p},
           EndsOnlyClose, EndsFrom(p, t)
    PROVE  WindowPipes' /\ ParentsLive'
<1>1. TypeOK /\ WindowPipes /\ ParentsLive
  BY DEF CountInv, PipeInv
<1>2. \A c \in Procs : parent[c] # p
  BY DEF Runs
<1>3. ParentsLive'
  BY <1>1, <1>2 DEF ParentsLive, TypeOK
<1>4. ASSUME NEW c \in Procs, NEW i \in Fds, parent'[c] # NULL, fd'[c][i] # NULL,
             file'[fd'[c][i]] \in PipeFiles
      PROVE  \E j \in Fds : fd'[parent'[c]][j] = fd'[c][i]
  <2>1. parent'[c] = parent[c] /\ parent[c] \in Procs /\ parent[c] # p
    BY <1>1, <1>2, <1>4 DEF TypeOK
  <2>2. fd'[parent[c]] = fd[parent[c]]
    BY <1>1, <2>1 DEF TypeOK
  <2>3. PICK m \in Fds : fd[c][m] = fd'[c][i]
    <3>1. CASE c = p
      <4>1. fd'[c] = t
        BY <1>1, <3>1 DEF TypeOK
      <4>. QED BY <1>4, <3>1, <4>1 DEF EndsFrom
    <3>2. CASE c # p
      <4>1. fd'[c] = fd[c]
        BY <1>1, <3>2 DEF TypeOK
      <4>. QED BY <4>1
    <3>. QED BY <3>1, <3>2
  <2>4. fd[c][m] \in Ofiles
    BY <1>1, <1>4, <2>3 DEF TypeOK
  <2>5. file[fd[c][m]] \in PipeFiles
    BY <1>4, <2>3, <2>4 DEF EndsOnlyClose
  <2>. QED BY <1>1, <1>4, <2>1, <2>2, <2>3, <2>5 DEF WindowPipes, IsOpen
<1>. QED BY <1>3, <1>4 DEF WindowPipes, IsOpen, PipeFiles

LEMMA InitPipes == Init => PipeInv
<1>. SUFFICES ASSUME Init PROVE PipeInv
  OBVIOUS
<1>1. ParentsLive /\ WindowPipes
  BY DEF Init, ParentsLive, WindowPipes
<1>2. EndsUnique
  BY PipeFilesOther DEF Init, EndsUnique
<1>3. PipesHeld
  BY DEF Init, PipesHeld, Held, Console, ReadEnd, WriteEnd
<1>4. PipeEnds
  BY <1>3, InitCount, HeldIsReferred
<1>. QED BY <1>1, <1>2, <1>4 DEF PipeInv

LEMMA PipesUnchanged ==
    ASSUME CountInv', PipeInv, UNCHANGED <<fd, file, readers, writers, live, parent>>
    PROVE  PipeInv'
<1>1. ParentsLive' /\ EndsUnique' /\ WindowPipes'
  BY DEF PipeInv, ParentsLive, EndsUnique, WindowPipes, IsOpen, PipeFiles
<1>2. \A o : Refs(o)' = Refs(o)
  BY DEF Refs
<1>3. PipeEnds'
  BY <1>2 DEF PipeInv, PipeEnds
<1>. QED BY <1>1, <1>3 DEF PipeInv

\* close, the dups and exit: Recount by a process that runs.
LEMMA RecountPipes ==
    ASSUME CountsFit, CountInv, CountInv', PipeInv, NEW p \in Procs, Runs(p),
           NEW t, NEW drop, NEW add, Rewrites(p, t, drop, add), Recount(drop, add),
           parent' = parent \/ parent' = [parent EXCEPT ![p] = NULL],
           live' = live \/ live' = live \ {p},
           \A i \in Fds : t[i] # NULL => \E j \in Fds : fd[p][j] = t[i]
    PROVE  PipeInv'
<1>1. /\ readers' = [k \in Pipes |-> IF ReadEnd(k) \in ClosedEnds(drop) THEN 0 ELSE readers[k]]
      /\ writers' = [k \in Pipes |-> IF WriteEnd(k) \in ClosedEnds(drop) THEN 0 ELSE writers[k]]
  BY DEF Recount
<1>2. /\ EndsUnique' /\ PipeEnds'
      /\ \A o \in Ofiles : file'[o] \in PipeFiles => file'[o] = file[o]
  BY <1>1, RewritePipes
<1>3. fd' = [fd EXCEPT ![p] = t] /\ t \in Tables
  BY DEF Rewrites
<1>4. EndsOnlyClose /\ EndsFrom(p, t)
  BY <1>2 DEF EndsOnlyClose, EndsFrom
<1>5. WindowPipes' /\ ParentsLive'
  BY <1>3, <1>4, OwnWindows
<1>. QED BY <1>2, <1>5 DEF PipeInv

LEMMA PipesClose ==
    ASSUME CountsFit, CountInv, CountInv', PipeInv, NEW p \in Procs, Runs(p),
           NEW i \in Fds, IsOpen(p, i), fd' = [fd EXCEPT ![p][i] = NULL],
           Recount(OneRef(fd[p][i]), NoRefs), UNCHANGED <<live, parent>>
    PROVE  PipeInv'
<1>. DEFINE t == [fd[p] EXCEPT ![i] = NULL]
<1>1. Rewrites(p, t, OneRef(fd[p][i]), NoRefs)
  BY CloseRewrites
<1>2. \A k \in Fds : t[k] # NULL => \E j \in Fds : fd[p][j] = t[k]
  BY DEF CountInv, TypeOK
<1>. HIDE DEF t
<1>. QED BY <1>1, <1>2, RecountPipes

LEMMA PipesDup ==
    ASSUME CountsFit, CountInv, CountInv', PipeInv, NEW p \in Procs, Runs(p),
           NEW i \in Fds, NEW n \in Fds, i # n, IsOpen(p, i),
           fd' = [fd EXCEPT ![p][n] = fd[p][i]],
           Recount(IF IsOpen(p, n) THEN OneRef(fd[p][n]) ELSE NoRefs, OneRef(fd[p][i])),
           UNCHANGED <<live, parent>>
    PROVE  PipeInv'
<1>. DEFINE t == [fd[p] EXCEPT ![n] = fd[p][i]]
            drop == IF IsOpen(p, n) THEN OneRef(fd[p][n]) ELSE NoRefs
<1>1. Rewrites(p, t, drop, OneRef(fd[p][i]))
  BY DupRewrites
<1>2. \A k \in Fds : t[k] # NULL => \E j \in Fds : fd[p][j] = t[k]
  BY DEF CountInv, TypeOK
<1>3. Recount(drop, OneRef(fd[p][i]))
  OBVIOUS
<1>. HIDE DEF t, drop
<1>. QED BY <1>1, <1>2, <1>3, RecountPipes

LEMMA PipesDups ==
    ASSUME CountsFit, CountInv, CountInv', PipeInv, NEW p \in Procs,
           SysDup(p) \/ SysDup2(p) \/ FDupfd(p)
    PROVE  PipeInv'
<1>1. Runs(p) /\ UNCHANGED <<live, parent>>
  BY DEF SysDup, SysDup2, FDupfd, RunsProgram
<1>2. ASSUME NEW min, NEW i \in Fds, IsOpen(p, i), FreeFds(p, min) # {},
             Recount(NoRefs, OneRef(fd[p][i])),
             fd' = [fd EXCEPT ![p][Min(FreeFds(p, min))] = fd[p][i]]
      PROVE  PipeInv'
  <2>1. PICK n \in FreeFds(p, min) : fd' = [fd EXCEPT ![p][n] = fd[p][i]]
    BY <1>2, FreeSlots
  <2>2. n \in Fds /\ ~IsOpen(p, n) /\ i # n
    BY <1>2 DEF FreeFds
  <2>3. Recount(IF IsOpen(p, n) THEN OneRef(fd[p][n]) ELSE NoRefs, OneRef(fd[p][i]))
    BY <1>2, <2>2
  <2>. QED BY <1>1, <1>2, <2>1, <2>2, <2>3, PipesDup
<1>3. CASE SysDup(p)
  <2>1. ~FailingDup
    BY DEF CountsFit
  <2>. QED BY <1>2, <1>3, <2>1 DEF SysDup
<1>4. CASE SysDup2(p)
  <2>1. PICK old \in Fds, new \in Fds :
          /\ IsOpen(p, old)
          /\ IF old = new
             THEN /\ fd' = [fd EXCEPT ![p][new] = NULL]
                  /\ Recount(OneRef(fd[p][old]), NoRefs)
             ELSE /\ fd' = [fd EXCEPT ![p][new] = fd[p][old]]
                  /\ Recount(IF IsOpen(p, new) THEN OneRef(fd[p][new]) ELSE NoRefs,
                             OneRef(fd[p][old]))
    BY <1>4 DEF SysDup2
  <2>2. CASE old = new
    BY <1>1, <2>1, <2>2, PipesClose
  <2>3. CASE old # new
    BY <1>1, <2>1, <2>3, PipesDup
  <2>. QED BY <2>2, <2>3
<1>5. CASE FDupfd(p)
  <2>1. CASE UNCHANGED <<fd, refcount, file, readers, writers, iref>>
    BY <1>1, <2>1, PipesUnchanged
  <2>. QED BY <1>2, <1>5, <2>1 DEF FDupfd
<1>. QED BY <1>3, <1>4, <1>5

LEMMA PipesOpen ==
    ASSUME CountsFit, CountInv, CountInv', PipeInv, NEW p \in Procs, SysOpen(p)
    PROVE  PipeInv'
<1>1. Runs(p) /\ UNCHANGED <<fd_flags, readers, writers, live, parent>>
  BY DEF SysOpen
<1>2. CASE UNCHANGED <<refcount, file, fd, iref>>
  BY <1>1, <1>2, PipesUnchanged
<1>3. ASSUME NEW h \in Inodes, FreeOfiles # {}, FreeFds(p, 0) # {},
             file' = [file EXCEPT ![Min(FreeOfiles)] = InodeFile(h)],
             fd' = [fd EXCEPT ![p][Min(FreeFds(p, 0))] = Min(FreeOfiles)]
      PROVE  PipeInv'
  <2>1. PICK o \in FreeOfiles, n \in FreeFds(p, 0) :
           /\ file' = [file EXCEPT ![o] = InodeFile(h)]
           /\ fd' = [fd EXCEPT ![p][n] = o]
    BY <1>3, FreeSlots
  <2>2. o \in Ofiles /\ n \in Fds /\ file[o] = Console
    BY FreeUnreferred DEF FreeFds
  <2>3. \A x \in Ofiles : file'[x] = IF x = o THEN InodeFile(h) ELSE file[x]
    BY <2>1 DEF CountInv, TypeOK
  <2>4. ASSUME NEW x \in Ofiles
        PROVE  file'[x] \in PipeFiles \/ file[x] \in PipeFiles => x # o /\ file'[x] = file[x]
    BY <2>2, <2>3, PipeFilesOther
  <2>5. EndsUnique'
    BY <2>4 DEF PipeInv, EndsUnique, PipeFiles
  <2>6. PipesHeld
    BY HeldIsReferred DEF PipeInv
  <2>7. \A f \in PipeFiles : Held(f)' <=> Held(f)
    BY <2>4 DEF Held
  <2>8. PipesHeld'
    BY <1>1, <2>6, <2>7, PipeFilesOther DEF PipesHeld
  <2>9. PipeEnds'
    BY <2>8, HeldIsReferredNext
  <2>. DEFINE t == [fd[p] EXCEPT ![n] = o]
  <2>10. t \in Tables /\ fd' = [fd EXCEPT ![p] = t]
    BY <2>1, <2>2 DEF CountInv, TypeOK, Tables
  <2>11. ASSUME NEW i \in Fds, t[i] # NULL, file'[t[i]] \in PipeFiles
         PROVE  \E j \in Fds : fd[p][j] = t[i]
    <3>1. t[i] = IF i = n THEN o ELSE fd[p][i]
      BY <2>2 DEF CountInv, TypeOK
    <3>2. t[i] \in Ofiles
      BY <2>10, <2>11 DEF Tables
    <3>3. t[i] # o
      BY <2>4, <2>11, <3>2
    <3>. QED BY <3>1, <3>3
  <2>12. WindowPipes' /\ ParentsLive'
    <3>. HIDE DEF t
    <3>1. EndsOnlyClose /\ EndsFrom(p, t)
      BY <2>4, <2>11 DEF EndsOnlyClose, EndsFrom
    <3>. QED BY <1>1, <2>10, <3>1, OwnWindows
  <2>. QED BY <2>5, <2>9, <2>12 DEF PipeInv
<1>. QED BY <1>2, <1>3 DEF SysOpen

LEMMA PipesPipe ==
    ASSUME CountsFit, ~DirectExec, CountInv, CountInv', PipeInv,
           NEW p \in Procs, DoPipe(p)
    PROVE  PipeInv'
<1>1. Runs(p) /\ parent[p] = NULL /\ UNCHANGED <<live, parent>>
  BY DEF DoPipe
<1>2. CASE UNCHANGED <<readers, writers, refcount, file, fd>>
  BY <1>1, <1>2, PipesUnchanged
<1>3. CASE ~ UNCHANGED <<readers, writers, refcount, file, fd>>
  <2>0. PICK k \in FreePipes, r \in FreeOfiles, w \in FreeOfiles,
             i \in FreeFds(p, 0), j \in FreeFds(p, 0) : MakesPipe(p, k, r, w, i, j)
    BY <1>3, PipeCases DEF DoPipeCases
  <2>1. /\ r # w /\ i # j /\ k \in Pipes
        /\ readers' = [readers EXCEPT ![k] = 1]
        /\ writers' = [writers EXCEPT ![k] = 1]
        /\ file' = [file EXCEPT ![r] = ReadEnd(k), ![w] = WriteEnd(k)]
        /\ fd' = [fd EXCEPT ![p][i] = r, ![p][j] = w]
    BY <2>0 DEF MakesPipe
  <2>2. /\ r \in Ofiles /\ w \in Ofiles
        /\ file[r] \notin PipeFiles /\ file[w] \notin PipeFiles
    BY FreeUnreferred, PipeFilesOther
  <2>3. \A o \in Ofiles : file'[o] = IF o = w THEN WriteEnd(k)
                                     ELSE IF o = r THEN ReadEnd(k) ELSE file[o]
    BY <2>1 DEF CountInv, TypeOK
  <2>4. PipesHeld
    BY HeldIsReferred DEF PipeInv
  <2>5. ~Held(ReadEnd(k)) /\ ~Held(WriteEnd(k))
    <3>1. readers[k] = 0 /\ writers[k] = 0
      BY DEF FreePipes
    <3>. QED BY <2>1, <2>4, <3>1 DEF PipesHeld
  <2>6. EndsUnique'
    <3>1. EndsUnique
      BY DEF PipeInv
    <3>2. ReadEnd(k) # WriteEnd(k)
      BY DEF ReadEnd, WriteEnd
    <3>3. \A o \in Ofiles : file[o] # ReadEnd(k) /\ file[o] # WriteEnd(k)
      BY <2>5 DEF Held
    <3>4. ASSUME NEW x \in Ofiles, NEW y \in Ofiles, file'[x] \in PipeFiles, file'[x] = file'[y]
          PROVE  x = y
      BY <2>3, <3>1, <3>2, <3>3, <3>4 DEF EndsUnique
    <3>. QED BY <3>4 DEF EndsUnique, PipeFiles
  <2>7. PipesHeld'
    <3>1. ASSUME NEW f \in PipeFiles
          PROVE  Held(f)' <=> Held(f) \/ f = ReadEnd(k) \/ f = WriteEnd(k)
      BY <2>1, <2>2, <2>3 DEF Held
    <3>2. ASSUME NEW m \in Pipes
          PROVE  /\ readers'[m] = 1 <=> readers[m] = 1 \/ m = k
                 /\ writers'[m] = 1 <=> writers[m] = 1 \/ m = k
      BY <2>1 DEF CountInv, TypeOK
    <3>3. ASSUME NEW m \in Pipes
          PROVE  /\ ReadEnd(m) = ReadEnd(k) <=> m = k
                 /\ WriteEnd(m) = WriteEnd(k) <=> m = k
                 /\ ReadEnd(m) # WriteEnd(k) /\ WriteEnd(m) # ReadEnd(k)
      BY DEF ReadEnd, WriteEnd
    <3>4. ASSUME NEW m \in Pipes
          PROVE  /\ readers'[m] = 1 <=> Held(ReadEnd(m))'
                 /\ writers'[m] = 1 <=> Held(WriteEnd(m))'
      <4>1. ReadEnd(m) \in PipeFiles /\ WriteEnd(m) \in PipeFiles
        BY PipeFilesOther
      <4>. QED BY <2>4, <3>1, <3>2, <3>3, <4>1 DEF PipesHeld
    <3>. QED BY <3>4 DEF PipesHeld
  <2>8. PipeEnds'
    BY <2>7, HeldIsReferredNext
  <2>9. ParentsLive'
    BY <1>1 DEF PipeInv, ParentsLive
  <2>10. ASSUME NEW c \in Procs, NEW n \in Fds, parent[c] # NULL, fd'[c][n] # NULL,
                file'[fd'[c][n]] \in PipeFiles
         PROVE  \E m \in Fds : fd'[parent[c]][m] = fd'[c][n]
    <3>1. c # p /\ parent[c] # p /\ parent[c] \in Procs
      BY <1>1, <2>10 DEF Runs, CountInv, TypeOK
    <3>2. fd'[c] = fd[c] /\ fd'[parent[c]] = fd[parent[c]]
      BY <2>1, <3>1 DEF CountInv, TypeOK
    <3>3. fd[c][n] # r /\ fd[c][n] # w /\ fd[c][n] \in Ofiles
      BY <2>10, <3>2, FreeUnreferred DEF CountInv, TypeOK
    <3>4. file[fd[c][n]] \in PipeFiles
      BY <2>3, <2>10, <3>2, <3>3
    <3>. QED BY <2>10, <3>2, <3>4 DEF PipeInv, WindowPipes, IsOpen
  <2>11. WindowPipes'
    BY <1>1, <2>10 DEF WindowPipes, IsOpen, PipeFiles
  <2>. QED BY <2>6, <2>8, <2>9, <2>11 DEF PipeInv
<1>. QED BY <1>2, <1>3

\* vfork and spawn: a slot that was not in use gets a table.
LEMMA PipesInherit ==
    ASSUME CountsFit, CountInv, CountInv', PipeInv, NEW c \in Procs \ live,
           NEW t \in Tables, fd' = [fd EXCEPT ![c] = t], Recount(NoRefs, Inherit(t)),
           live' = live \cup {c},
           \/ UNCHANGED parent
           \/ \E p \in live : parent' = [parent EXCEPT ![c] = p] /\ t = fd[p]
    PROVE  PipeInv'
<1>1. Rewrites(c, t, NoRefs, AllRefs(t))
  BY InheritRewrites
<1>2. /\ readers' = [k \in Pipes |-> IF ReadEnd(k) \in ClosedEnds(NoRefs) THEN 0 ELSE readers[k]]
      /\ writers' = [k \in Pipes |-> IF WriteEnd(k) \in ClosedEnds(NoRefs) THEN 0 ELSE writers[k]]
  BY DEF Recount
<1>3. /\ EndsUnique' /\ PipeEnds'
      /\ \A o \in Ofiles : file'[o] \in PipeFiles => file'[o] = file[o]
  BY <1>1, <1>2, RewritePipes
<1>4. TypeOK /\ ParentsLive /\ WindowPipes /\ parent[c] = NULL
  BY DEF CountInv, PipeInv, DeadHoldNothing
<1>5. ParentsLive'
  BY <1>4 DEF ParentsLive, TypeOK
<1>6. ASSUME NEW d \in Procs, NEW n \in Fds, parent'[d] # NULL, fd'[d][n] # NULL,
             file'[fd'[d][n]] \in PipeFiles
      PROVE  \E m \in Fds : fd'[parent'[d]][m] = fd'[d][n]
  <2>1. CASE d = c
    <3>1. parent'[c] # NULL
      BY <1>6, <2>1
    <3>2. PICK p \in live : parent' = [parent EXCEPT ![c] = p] /\ t = fd[p]
      BY <1>4, <3>1
    <3>3. parent'[c] = p /\ p # c /\ p \in Procs
      BY <1>4, <3>2 DEF TypeOK
    <3>4. fd'[p] = fd[p] /\ fd'[c] = t
      BY <1>4, <3>3 DEF TypeOK
    <3>. QED BY <2>1, <3>2, <3>3, <3>4
  <2>2. CASE d # c
    <3>1. parent'[d] = parent[d] /\ parent[d] \in live /\ parent[d] # c
      BY <1>4, <1>6, <2>2 DEF ParentsLive, TypeOK
    <3>2. fd'[d] = fd[d] /\ fd'[parent[d]] = fd[parent[d]]
      BY <1>4, <2>2, <3>1 DEF TypeOK
    <3>3. fd[d][n] \in Ofiles
      BY <1>4, <1>6, <3>2 DEF TypeOK
    <3>4. file[fd[d][n]] \in PipeFiles
      BY <1>3, <1>6, <3>2, <3>3
    <3>. QED BY <1>4, <1>6, <3>1, <3>2, <3>4 DEF WindowPipes, IsOpen
  <2>. QED BY <2>1, <2>2
<1>7. WindowPipes'
  BY <1>6 DEF WindowPipes, IsOpen, PipeFiles
<1>. QED BY <1>3, <1>5, <1>7 DEF PipeInv

\* exec in a vfork window closes no pipe end for good: the parent has it too.
LEMMA PipesExec ==
    ASSUME CountsFit, ~DirectExec, CountInv, CountInv', PipeInv,
           NEW p \in Procs, DoExec(p)
    PROVE  PipeInv'
<1>1. /\ Runs(p) /\ parent[p] # NULL
      /\ parent' = [parent EXCEPT ![p] = NULL]
      /\ UNCHANGED <<readers, writers, live>>
  BY DEF DoExec, RunsProgram
<1>2. Rewrites(p, ExecTable(p), ExecDrop(p), NoRefs)
  BY ExecRewrites
<1>3. fd' = [fd EXCEPT ![p] = ExecTable(p)] /\ ExecTable(p) \in Tables
  BY <1>2 DEF Rewrites
<1>4. ASSUME NEW o \in Gone(ExecDrop(p)), file[o] \in PipeFiles
      PROVE  FALSE
  <2>1. o \in Ofiles /\ refcount[o] \in 1..ExecDrop(p)[o]
    BY DEF Gone
  <2>2. RefsIn(fd[p], o) # {}
    <3>1. ExecDrop(p)[o] = Cardinality(RefsIn(fd[p], o) \cap ExecClosed(p))
      BY <2>1 DEF ExecDrop
    <3>2. RefsIn(fd[p], o) = {} => ExecDrop(p)[o] = 0
      BY <3>1, FS_EmptySet
    <3>. QED BY <2>1, <3>2
  <2>3. PICK i \in Fds : fd[p][i] = o
    BY <2>2 DEF RefsIn
  <2>4. o # NULL
    BY <2>1 DEF Ofiles, NULL
  <2>5. PICK j \in Fds : fd[parent[p]][j] = o
    BY <1>1, <1>4, <2>3, <2>4 DEF PipeInv, WindowPipes, IsOpen
  <2>6. parent[p] \in Procs /\ parent[p] # p
    BY <1>1 DEF CountInv, TypeOK, Runs
  <2>7. fd'[parent[p]][j] = o
    BY <1>3, <2>5, <2>6 DEF CountInv, TypeOK
  <2>8. <<parent[p], j>> \in Refs(o)'
    BY <2>6, <2>7 DEF Refs
  <2>9. refcount'[o] # 0
    <3>1. ProcessZeroShares'
      BY DEF CountInv
    <3>. QED BY <1>2, <2>1, <2>8, <3>1, RewriteFiles
  <2>10. refcount'[o] = 0
    <3>1. ProcessZeroShares'
      BY DEF CountInv
    <3>. QED BY <1>2, <1>4, <2>1, <3>1, RewriteGone
  <2>. QED BY <2>9, <2>10
<1>5. \A k \in Pipes : ReadEnd(k) \notin ClosedEnds(ExecDrop(p))
                       /\ WriteEnd(k) \notin ClosedEnds(ExecDrop(p))
  BY <1>4, PipeFilesOther DEF ClosedEnds
<1>6. readers \in [Pipes -> {0, 1}] /\ writers \in [Pipes -> {0, 1}]
  BY DEF CountInv, TypeOK
<1>7. /\ readers' = [k \in Pipes |-> IF ReadEnd(k) \in ClosedEnds(ExecDrop(p)) THEN 0
                                      ELSE readers[k]]
      /\ writers' = [k \in Pipes |-> IF WriteEnd(k) \in ClosedEnds(ExecDrop(p)) THEN 0
                                      ELSE writers[k]]
  BY <1>1, <1>5, <1>6
<1>8. /\ EndsUnique' /\ PipeEnds'
      /\ \A o \in Ofiles : file'[o] \in PipeFiles => file'[o] = file[o]
  BY <1>2, <1>7, RewritePipes
<1>9. EndsOnlyClose /\ EndsFrom(p, ExecTable(p))
  BY <1>8 DEF EndsOnlyClose, EndsFrom, ExecTable
<1>10. WindowPipes' /\ ParentsLive'
  BY <1>1, <1>3, <1>9, OwnWindows
<1>. QED BY <1>8, <1>10 DEF PipeInv

LEMMA PipesStep ==
    ASSUME CountsFit, ~DirectExec, CountInv, CountInv', PipeInv, [Next]_vars
    PROVE  PipeInv'
<1>1. CASE UNCHANGED vars
  BY <1>1, PipesUnchanged DEF vars
<1>2. ASSUME NEW p \in Procs, SysClose(p)
      PROVE  PipeInv'
  <2>1. PICK i \in Fds : /\ IsOpen(p, i)
                         /\ fd' = [fd EXCEPT ![p][i] = NULL]
                         /\ Recount(OneRef(fd[p][i]), NoRefs)
    BY <1>2 DEF SysClose
  <2>2. Runs(p) /\ UNCHANGED <<live, parent>>
    BY <1>2 DEF SysClose
  <2>. QED BY <2>1, <2>2, PipesClose
<1>3. ASSUME NEW p \in Procs, FSetfd(p)
      PROVE  PipeInv'
  BY <1>3, PipesUnchanged DEF FSetfd
<1>4. ASSUME NEW p \in Procs, Vfork(p)
      PROVE  PipeInv'
  <2>1. PICK c \in Procs \ live :
          /\ fd' = [fd EXCEPT ![c] = fd[p]]
          /\ Recount(NoRefs, Inherit(fd[p]))
          /\ live' = live \cup {c}
          /\ parent' = [parent EXCEPT ![c] = p]
    BY <1>4 DEF Vfork
  <2>2. fd[p] \in Tables /\ p \in live
    BY <1>4 DEF Vfork, RunsProgram, Runs, CountInv, TypeOK, Tables
  <2>. QED BY <2>1, <2>2, PipesInherit
<1>5. ASSUME SpawnFd
      PROVE  PipeInv'
  <2>1. PICK c \in Procs \ live,
             m \in [0..(StdFds - 1) -> {i \in Fds : IsOpen(0, i)} \cup {NULL}] :
          /\ fd' = [fd EXCEPT ![c] = SpawnTable(m)]
          /\ Recount(NoRefs, Inherit(SpawnTable(m)))
          /\ live' = live \cup {c}
    BY <1>5 DEF SpawnFd, SpawnTable
  <2>2. SpawnTable(m) \in Tables
    <3>1. \A i \in Fds : i < StdFds /\ m[i] # NULL => m[i] \in Fds
      BY OpenFilesAssumption DEF Fds
    <3>2. TypeOK /\ 0 \in Procs
      BY DEF CountInv, ProcessZeroShares, TypeOK
    <3>. QED BY <3>1, <3>2 DEF TypeOK, Tables, SpawnTable
  <2>3. UNCHANGED parent
    BY <1>5 DEF SpawnFd
  <2>. QED BY <2>1, <2>2, <2>3, PipesInherit
<1>6. ASSUME NEW p \in Procs, DoExit(p)
      PROVE  PipeInv'
  <2>. DEFINE t == [i \in Fds |-> NULL]
  <2>1. /\ Runs(p)
        /\ fd' = [fd EXCEPT ![p] = t]
        /\ Recount(AllRefs(fd[p]), NoRefs)
        /\ live' = live \ {p}
        /\ parent' = [parent EXCEPT ![p] = NULL]
    BY <1>6 DEF DoExit, RunsProgram
  <2>2. Rewrites(p, t, AllRefs(fd[p]), NoRefs)
    BY <2>1, ExitRewrites
  <2>3. \A i \in Fds : t[i] # NULL => \E j \in Fds : fd[p][j] = t[i]
    OBVIOUS
  <2>. HIDE DEF t
  <2>. QED BY <2>1, <2>2, <2>3, RecountPipes
<1>. QED BY <1>1, <1>2, <1>3, <1>4, <1>5, <1>6, PipesOpen, PipesDups, PipesPipe, PipesExec
         DEF Next

\* As long as programs exec only as vforked children and make pipes only
\* outside vfork windows, pipe_table[k].readers and writers say exactly whether
\* a descriptor for that end is open anywhere.  exec() does not tell the pipe
\* when it closes an end, and need not: the parent that waits has it open too.
THEOREM PipesKnowTheirEnds ==
    ASSUME CountsFit, ~DirectExec
    PROVE  Spec => []PipeEnds
<1>1. Init => CountInv /\ PipeInv
  BY InitCount, InitPipes
<1>2. CountInv /\ PipeInv /\ [Next]_vars => CountInv' /\ PipeInv'
  BY CountStep, PipesStep
<1>3. PipeInv => PipeEnds
  BY DEF PipeInv
<1>. QED BY <1>1, <1>2, <1>3, PTL DEF Spec

=============================================================================
