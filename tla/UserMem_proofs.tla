--------------------------- MODULE UserMem_proofs ---------------------------
(***************************************************************************)
(* Proofs about UserMem, for every pool, table, set of programs and break  *)
(* increments: the first-fit scan of umem_alloc() and what the table of    *)
(* claims keeps apart.                                                     *)
(***************************************************************************)
EXTENDS UserMem, FiniteSetTheorems, WellFoundedInduction, TLAPS

(***************************************************************************)
(* Numbers                                                                 *)
(***************************************************************************)

LEMMA HasLeast ==
    ASSUME NEW S \in SUBSET Nat, S # {}
    PROVE  \E x \in S : \A y \in S : x <= y
  <1>1. PICK x \in S : \A y \in S : ~(<<y, x>> \in OpToRel(<, Nat))
    BY NatLessThanWellFounded, WFMin
  <1>2. \A y \in S : ~(y < x)
    BY <1>1 DEF OpToRel
  <1> QED
    BY <1>2

LEMMA HasGreatest ==
    ASSUME NEW S \in SUBSET Nat, S # {}, NEW u \in Nat, \A y \in S : y <= u
    PROVE  \E x \in S : \A y \in S : x >= y
  <1> DEFINE U == {v \in Nat : \A y \in S : y <= v}
  <1>1. PICK v \in U : \A w \in U : v <= w
    BY HasLeast
  <1>2. v \in S
    <2>1. SUFFICES ASSUME v \notin S PROVE FALSE
      OBVIOUS
    <2>2. \A y \in S : y <= v - 1
      BY <2>1, <1>1
    <2>3. v - 1 \in U
      <3>1. PICK y \in S : TRUE
        OBVIOUS
      <3>2. v - 1 \in Nat
        BY <3>1, <2>2, <1>1
      <3> QED
        BY <3>2, <2>2
    <2> QED
      BY <2>3, <1>1
  <1> QED
    BY <1>1, <1>2

LEMMA LeastOf ==
    ASSUME NEW S \in SUBSET Nat, S # {}
    PROVE  Min(S) \in S /\ \A y \in S : Min(S) <= y
  BY HasLeast DEF Min

LEMMA GreatestOf ==
    ASSUME NEW S \in SUBSET Nat, S # {}, NEW u \in Nat, \A y \in S : y <= u
    PROVE  Max(S) \in S /\ \A y \in S : Max(S) >= y
  BY HasGreatest DEF Max

\* Rounding down to a multiple loses less than the divisor.
LEMMA RoundDown ==
    ASSUME NEW x \in Nat, NEW d \in Nat \ {0}
    PROVE  /\ (x \div d) * d \in Nat
           /\ (x \div d) * d <= x
           /\ x < (x \div d) * d + d
  <1>1. x \div d \in Nat
    OBVIOUS
  <1>2. d * (x \div d) <= x
    OBVIOUS
  <1>3. x < d * (x \div d) + d
    OBVIOUS
  <1>4. PICK q \in Nat : q = x \div d
    BY <1>1
  <1>5. q * d = d * q /\ q * d \in Nat
    OBVIOUS
  <1> QED
    BY <1>2, <1>3, <1>4, <1>5

LEMMA RoundUpFacts ==
    ASSUME NEW need \in Nat
    PROVE  RoundUp(need) \in Nat /\ need <= RoundUp(need)
  <1>1. PICK x \in Nat : x = need + ALIGN - 1
    BY SizesAssumption
  <1>2. /\ (x \div ALIGN) * ALIGN \in Nat
        /\ x < (x \div ALIGN) * ALIGN + ALIGN
    BY RoundDown, SizesAssumption
  <1>3. PICK r \in Nat : r = (x \div ALIGN) * ALIGN
    BY <1>2
  <1>4. RoundUp(need) = r
    BY <1>1, <1>3 DEF RoundUp
  <1> QED
    BY <1>1, <1>2, <1>3, <1>4, SizesAssumption

(***************************************************************************)
(* The scan for a gap                                                      *)
(***************************************************************************)

\* Claims that umem_alloc() can sort: inside the pool and apart.
Laid(claims) ==
    /\ claims \subseteq Procs
    /\ \A p \in claims :
          /\ mem_base[p] \in Nat /\ mem_size[p] \in Nat
          /\ mem_size[p] > 0
          /\ USER_BASE <= mem_base[p]
          /\ mem_base[p] + mem_size[p] <= USER_TOP
    /\ \A p, q \in claims : p # q => Apart(p, q)

Ascending(claims, s) ==
    /\ s \in Bijection(1..Cardinality(claims), claims)
    /\ \A i, j \in DOMAIN s : i < j => mem_base[s[i]] <= mem_base[s[j]]

LEMMA LaidFinite ==
    ASSUME NEW claims, Laid(claims)
    PROVE  IsFiniteSet(claims) /\ Cardinality(claims) \in Nat
  <1>1. IsFiniteSet(Procs)
    BY FS_AddElement, SizesAssumption DEF Procs
  <1> QED
    BY <1>1, FS_Subset, FS_CardinalityType DEF Laid

LEMMA SortedExists ==
    ASSUME NEW claims, Laid(claims)
    PROVE  \E s : Ascending(claims, s)
  <1> DEFINE Bad == {n \in Nat : \E T \in SUBSET Procs :
                        /\ Laid(T) /\ Cardinality(T) = n
                        /\ ~\E s : Ascending(T, s)}
  <1>1. SUFFICES ASSUME Bad # {} PROVE FALSE
    <2>1. Cardinality(claims) \in Nat /\ claims \in SUBSET Procs
      BY LaidFinite DEF Laid
    <2> QED
      BY <1>1, <2>1
  <1>2. PICK n \in Bad : \A m \in Bad : n <= m
    BY <1>1, HasLeast
  <1>3. PICK T \in SUBSET Procs :
            Laid(T) /\ Cardinality(T) = n /\ ~\E s : Ascending(T, s)
    BY <1>2
  <1>4. IsFiniteSet(T) /\ n \in Nat
    BY <1>3, LaidFinite
  <1>5. T # {}
    <2>1. SUFFICES ASSUME T = {} PROVE FALSE
      OBVIOUS
    <2>2. n = 0 /\ 1..n = {}
      BY <2>1, <1>3, FS_EmptySet
    <2>3. Ascending(T, [i \in {} |-> 0])
      BY <2>1, <2>2, <1>3 DEF Ascending, Bijection, Injection, Surjection, IsInjective
    <2> QED
      BY <2>3, <1>3
  <1>6. PICK x \in T : \A y \in T : mem_base[x] <= mem_base[y]
    <2> DEFINE K == {mem_base[y] : y \in T}
    <2>1. K \in SUBSET Nat /\ K # {}
      BY <1>3, <1>5 DEF Laid
    <2>2. PICK k \in K : \A y \in K : k <= y
      BY <2>1, HasLeast
    <2> QED
      BY <2>2
  <1>7. Laid(T \ {x})
    BY <1>3 DEF Laid, Apart
  <1>8. Cardinality(T \ {x}) = n - 1 /\ n - 1 \in Nat
    <2>1. IsFiniteSet(T \ {x}) /\ Cardinality(T \ {x}) = Cardinality(T) - 1
      BY <1>4, FS_RemoveElement
    <2>2. Cardinality(T \ {x}) \in Nat
      BY <2>1, FS_CardinalityType
    <2> QED
      BY <2>1, <2>2, <1>3
  <1>9. PICK s : Ascending(T \ {x}, s)
    BY <1>7, <1>8, <1>2, <1>4
  <1> DEFINE f == [i \in 1..n |-> IF i = 1 THEN x ELSE s[i - 1]]
  <1>10. /\ s \in [1..(n - 1) -> T \ {x}]
         /\ \A i, j \in 1..(n - 1) : s[i] = s[j] => i = j
         /\ \A t \in T \ {x} : \E i \in 1..(n - 1) : s[i] = t
         /\ \A i, j \in 1..(n - 1) : i < j => mem_base[s[i]] <= mem_base[s[j]]
    BY <1>8, <1>9 DEF Ascending, Bijection, Injection, Surjection, IsInjective
  <1>11. \A i \in 1..n : i = 1 \/ i - 1 \in 1..(n - 1)
    BY <1>4
  <1>12. f \in [1..n -> T]
    BY <1>10, <1>11
  <1>13. \A i, j \in 1..n : f[i] = f[j] => i = j
    BY <1>10, <1>11
  <1>14. \A t \in T : \E i \in 1..n : f[i] = t
    <2> TAKE t \in T
    <2>1. CASE t = x
      BY <2>1, <1>8, <1>4
    <2>2. CASE t # x
      <3>1. PICK i \in 1..(n - 1) : s[i] = t
        BY <2>2, <1>10
      <3>2. i + 1 \in 1..n /\ f[i + 1] = t
        BY <3>1, <1>4
      <3> QED
        BY <3>2
    <2> QED
      BY <2>1, <2>2
  <1>15. \A i, j \in 1..n : i < j => mem_base[f[i]] <= mem_base[f[j]]
    <2> SUFFICES ASSUME NEW i \in 1..n, NEW j \in 1..n, i < j
                 PROVE  mem_base[f[i]] <= mem_base[f[j]]
      OBVIOUS
    <2>1. CASE i = 1
      BY <2>1, <1>6, <1>12
    <2>2. CASE i # 1
      <3>1. i - 1 \in 1..(n - 1) /\ j - 1 \in 1..(n - 1) /\ i - 1 < j - 1 /\ j # 1
        BY <2>2, <1>4
      <3> QED
        BY <3>1, <2>2, <1>10
    <2> QED
      BY <2>1, <2>2
  <1>16. Ascending(T, f)
    BY <1>3, <1>12, <1>13, <1>14, <1>15
       DEF Ascending, Bijection, Injection, Surjection, IsInjective
  <1> QED
    BY <1>16, <1>3

LEMMA SortedIs ==
    ASSUME NEW claims, Laid(claims)
    PROVE  Ascending(claims, Sorted(claims))
  BY SortedExists DEF Sorted, Ascending

LEMMA SmallRemainder ==
    ASSUME NEW x \in Nat, NEW w \in Nat, x < w
    PROVE  x % w = x
  OBVIOUS

\* Sorted regions lie one after the other.
LEMMA InOrder ==
    ASSUME NEW claims, NEW s, Laid(claims), Ascending(claims, s)
    PROVE  /\ s \in [1..Cardinality(claims) -> claims]
           /\ \A t \in claims : \E i \in 1..Cardinality(claims) : s[i] = t
           /\ \A i, j \in 1..Cardinality(claims) :
                 i < j => mem_base[s[i]] + mem_size[s[i]] <= mem_base[s[j]]
  <1>1. /\ s \in [1..Cardinality(claims) -> claims]
        /\ \A i, j \in 1..Cardinality(claims) : s[i] = s[j] => i = j
        /\ \A t \in claims : \E i \in 1..Cardinality(claims) : s[i] = t
        /\ \A i, j \in 1..Cardinality(claims) : i < j => mem_base[s[i]] <= mem_base[s[j]]
    BY DEF Ascending, Bijection, Injection, Surjection, IsInjective
  <1>2. ASSUME NEW i \in 1..Cardinality(claims), NEW j \in 1..Cardinality(claims), i < j
        PROVE  mem_base[s[i]] + mem_size[s[i]] <= mem_base[s[j]]
    <2>1. s[i] # s[j] /\ mem_base[s[i]] <= mem_base[s[j]]
      BY <1>1, <1>2, LaidFinite
    <2>2. s[i] \in claims /\ s[j] \in claims
      BY <1>1
    <2> QED
      BY <2>1, <2>2 DEF Laid, Apart
  <1> QED
    BY <1>1, <1>2

\* What a gap is: room inside the pool that no region reaches into.
IsGap(claims, from, to) ==
    /\ from \in Nat /\ to \in Nat
    /\ USER_BASE <= from /\ from <= to /\ to <= USER_TOP
    /\ Gap(from, to) = to - from
    /\ \A p \in claims : mem_base[p] + mem_size[p] <= from \/ to <= mem_base[p]

LEMMA GapsAreGaps ==
    ASSUME NEW claims, NEW s, Laid(claims), Ascending(claims, s), NEW i \in Gaps(claims)
    PROVE  IsGap(claims, GapStart(s, i), GapEnd(s, i))
  <1> DEFINE n == Cardinality(claims)
             from == GapStart(s, i)
             to == GapEnd(s, i)
  <1>1. n \in Nat /\ i \in 1..(n + 1)
    BY LaidFinite DEF Gaps
  <1>2. /\ s \in [1..n -> claims]
        /\ \A t \in claims : \E k \in 1..n : s[k] = t
        /\ \A k, j \in 1..n : k < j => mem_base[s[k]] + mem_size[s[k]] <= mem_base[s[j]]
    BY InOrder
  <1>3. \A p \in claims :
           /\ mem_base[p] \in Nat /\ mem_size[p] \in Nat
           /\ mem_size[p] > 0
           /\ USER_BASE <= mem_base[p]
           /\ mem_base[p] + mem_size[p] <= USER_TOP
    BY DEF Laid
  <1>4. i = 1 => from = USER_BASE
    BY DEF GapStart
  <1>5. i # 1 => /\ i - 1 \in 1..n /\ s[i - 1] \in claims
                 /\ from = mem_base[s[i - 1]] + mem_size[s[i - 1]]
    BY <1>1, <1>2 DEF GapStart, GapAfter
  <1>6. i \in 1..n => s[i] \in claims /\ to = mem_base[s[i]]
    BY <1>2 DEF GapEnd
  <1>7. i \notin 1..n => i = n + 1 /\ to = USER_TOP
    BY <1>1, <1>2 DEF GapEnd
  <1> HIDE DEF n, from, to
  <1>8. from \in Nat /\ USER_BASE <= from /\ from <= USER_TOP
    BY <1>3, <1>4, <1>5, SizesAssumption
  <1>9. to \in Nat /\ to <= USER_TOP
    BY <1>3, <1>6, <1>7, SizesAssumption
  <1>10. from <= to
    <2>1. CASE i \notin 1..n
      BY <2>1, <1>7, <1>8
    <2>2. CASE i \in 1..n /\ i = 1
      BY <2>2, <1>3, <1>4, <1>6
    <2>3. CASE i \in 1..n /\ i # 1
      BY <2>3, <1>1, <1>2, <1>5, <1>6
    <2> QED
      BY <2>1, <2>2, <2>3
  <1>11. Gap(from, to) = to - from
    <2>1. PICK x \in Nat : x = to - from
      BY <1>8, <1>9, <1>10
    <2>2. x < WORD /\ WORD \in Nat
      BY <2>1, <1>8, <1>9, SizesAssumption
    <2> QED
      BY <2>1, <2>2, SmallRemainder DEF Gap
  <1>12. ASSUME NEW p \in claims
         PROVE  mem_base[p] + mem_size[p] <= from \/ to <= mem_base[p]
    <2>1. PICK k \in 1..n : s[k] = p
      BY <1>2
    <2>2. k \in Nat /\ n \in Nat /\ i \in 1..(n + 1)
      BY <1>1
    <2>3. CASE k = i
      BY <2>1, <2>3, <1>3, <1>6
    <2>4. CASE k > i
      <3>1. i \in 1..n /\ i < k
        BY <2>2, <2>4
      <3>2. to + mem_size[s[i]] <= mem_base[p]
        BY <3>1, <2>1, <1>2, <1>6
      <3> QED
        BY <3>1, <3>2, <1>3, <1>6, <1>9
    <2>5. CASE k = i - 1
      BY <2>1, <2>5, <2>2, <1>3, <1>5
    <2>6. CASE k < i - 1
      <3>1. i # 1 /\ i - 1 \in 1..n /\ k < i - 1
        BY <2>2, <2>6
      <3>2. mem_base[p] + mem_size[p] <= mem_base[s[i - 1]]
        BY <3>1, <2>1, <1>2
      <3> QED
        BY <3>1, <3>2, <1>3, <1>5
    <2> QED
      BY <2>2, <2>3, <2>4, <2>5, <2>6
  <1> QED
    BY <1>8, <1>9, <1>10, <1>11, <1>12 DEF IsGap, from, to

\* The gaps come in the order of their addresses.
LEMMA GapsAscend ==
    ASSUME NEW claims, NEW s, Laid(claims), Ascending(claims, s),
           NEW i \in Gaps(claims), NEW j \in Gaps(claims), i <= j
    PROVE  GapStart(s, i) <= GapStart(s, j)
  <1> DEFINE n == Cardinality(claims)
  <1>1. n \in Nat /\ i \in 1..(n + 1) /\ j \in 1..(n + 1)
    BY LaidFinite DEF Gaps
  <1>2. /\ GapStart(s, i) \in Nat /\ GapEnd(s, i) \in Nat /\ GapStart(s, j) \in Nat
        /\ GapStart(s, i) <= GapEnd(s, i)
    BY GapsAreGaps DEF IsGap
  <1>3. CASE i = j
    BY <1>2, <1>3
  <1>4. CASE i < j
    <2>1. i \in 1..n /\ j - 1 \in 1..n /\ j # 1 /\ (i = j - 1 \/ i < j - 1)
      BY <1>1, <1>4
    <2>2. /\ s \in [1..n -> claims]
          /\ \A k, l \in 1..n : k < l => mem_base[s[k]] + mem_size[s[k]] <= mem_base[s[l]]
      BY InOrder
    <2>3. /\ mem_base[s[i]] \in Nat /\ mem_size[s[i]] \in Nat
          /\ mem_base[s[j - 1]] \in Nat /\ mem_size[s[j - 1]] \in Nat
      BY <2>1, <2>2 DEF Laid
    <2>4. GapEnd(s, i) = mem_base[s[i]]
      BY <2>1, <2>2 DEF GapEnd
    <2>5. GapStart(s, j) = mem_base[s[j - 1]] + mem_size[s[j - 1]]
      BY <2>1 DEF GapStart, GapAfter
    <2>6. mem_base[s[i]] <= mem_base[s[j - 1]]
      <3>1. CASE i = j - 1
        BY <3>1, <2>3
      <3>2. CASE i < j - 1
        BY <3>2, <2>1, <2>2, <2>3
      <3> QED
        BY <2>1, <3>1, <3>2
    <2> QED
      BY <1>2, <2>3, <2>4, <2>5, <2>6
  <1> QED
    BY <1>1, <1>3, <1>4

\* n units from a lie in the pool and in no region.
Span(claims, a, n) ==
    /\ a \in Nat /\ n \in Nat
    /\ USER_BASE <= a /\ a + n <= USER_TOP
    /\ \A p \in claims : mem_base[p] + mem_size[p] <= a \/ a + n <= mem_base[p]

Fitting(claims, need) ==
    {i \in Gaps(claims) :
        Fits(GapStart(Sorted(claims), i), GapEnd(Sorted(claims), i), need)}

LEMMA AllocIs ==
    ASSUME NEW claims, NEW need
    PROVE  umem_alloc(claims, need) =
             IF Fitting(claims, need) = {} THEN 0
             ELSE GapStart(Sorted(claims), Min(Fitting(claims, need)))
  BY DEF umem_alloc, Fitting

LEMMA FirstFitting ==
    ASSUME NEW claims, NEW need, Laid(claims), Fitting(claims, need) # {}
    PROVE  /\ Min(Fitting(claims, need)) \in Fitting(claims, need)
           /\ \A i \in Fitting(claims, need) : Min(Fitting(claims, need)) <= i
  <1>1. Fitting(claims, need) \in SUBSET Nat
    BY LaidFinite DEF Fitting, Gaps
  <1> QED
    BY <1>1, LeastOf

\* What umem_alloc() returns is free, and none only if no gap fits.
LEMMA AllocIsFree ==
    ASSUME NEW claims, NEW need \in Nat, Laid(claims)
    PROVE  /\ umem_alloc(claims, need) \in Nat
           /\ (umem_alloc(claims, need) = 0) <=> (Fitting(claims, need) = {})
           /\ umem_alloc(claims, need) # 0 =>
                 Span(claims, umem_alloc(claims, need), RoundUp(need))
  <1>1. CASE Fitting(claims, need) = {}
    BY <1>1, AllocIs
  <1>2. CASE Fitting(claims, need) # {}
    <2> DEFINE i == Min(Fitting(claims, need))
               s == Sorted(claims)
               from == GapStart(s, i)
               to == GapEnd(s, i)
    <2>1. i \in Gaps(claims) /\ Fits(from, to, need)
      BY <1>2, FirstFitting DEF Fitting
    <2>2. IsGap(claims, from, to)
      BY <2>1, SortedIs, GapsAreGaps
    <2>3. umem_alloc(claims, need) = from
      BY <1>2, AllocIs
    <2>4. RoundUp(need) \in Nat
      BY RoundUpFacts
    <2> HIDE DEF from, to
    <2>5. from + RoundUp(need) <= to
      BY <2>1, <2>2, <2>4 DEF Fits, IsGap
    <2>6. \A p \in claims : mem_base[p] \in Nat
      BY DEF Laid
    <2>7. Span(claims, from, RoundUp(need))
      BY <2>2, <2>4, <2>5, <2>6, SizesAssumption DEF Span, IsGap
    <2> QED
      BY <1>2, <2>2, <2>3, <2>7, SizesAssumption DEF IsGap
  <1> QED
    BY <1>1, <1>2

LEMMA SpanShrinks ==
    ASSUME NEW claims, NEW a, NEW n, NEW less, NEW m \in Nat,
           Laid(claims), Span(claims, a, n), less \subseteq claims, m <= n
    PROVE  Span(less, a, m)
  BY SizesAssumption DEF Span, Laid

\* Every free place lies in a gap that fits, above the place umem_alloc() finds.
LEMMA AllocIsFirst ==
    ASSUME NEW claims, NEW need \in Nat, Laid(claims),
           RoundUp(need) > 0, NEW a, Span(claims, a, RoundUp(need))
    PROVE  umem_alloc(claims, need) # 0 /\ umem_alloc(claims, need) <= a
  <1> DEFINE n == Cardinality(claims)
             s == Sorted(claims)
             size == RoundUp(need)
             above == {i \in 1..n : a <= mem_base[s[i]]} \cup {n + 1}
  <1>1. n \in Nat /\ Ascending(claims, s) /\ Gaps(claims) = 1..(n + 1)
    BY LaidFinite, SortedIs DEF Gaps
  <1>2. s \in [1..n -> claims] /\ DOMAIN s = 1..n
    BY <1>1, InOrder
  <1>3. PICK i \in above : \A j \in above : i <= j
    <2>1. above \in SUBSET Nat /\ above # {}
      BY <1>1
    <2> QED
      BY <2>1, HasLeast
  <1>4. i \in Gaps(claims)
    BY <1>1, <1>3
  <1>5. IsGap(claims, GapStart(s, i), GapEnd(s, i))
    BY <1>1, <1>4, GapsAreGaps
  <1>6. /\ a \in Nat /\ size \in Nat /\ size > 0
        /\ USER_BASE <= a /\ a + size <= USER_TOP
        /\ \A p \in claims : mem_base[p] + mem_size[p] <= a \/ a + size <= mem_base[p]
        /\ \A p \in claims : mem_base[p] \in Nat /\ mem_size[p] \in Nat /\ mem_size[p] > 0
    BY DEF Span, Laid
  <1> HIDE DEF size
  <1>7. GapStart(s, i) <= a
    <2>1. CASE i = 1
      BY <2>1, <1>6 DEF GapStart
    <2>2. CASE i # 1
      <3>1. i - 1 \in 1..n /\ s[i - 1] \in claims
        BY <2>2, <1>1, <1>2, <1>4
      <3>2. i - 1 \notin above
        BY <3>1, <1>1, <1>3
      <3>3. ~(a <= mem_base[s[i - 1]])
        BY <3>1, <3>2
      <3>4. mem_base[s[i - 1]] + mem_size[s[i - 1]] <= a
        BY <3>1, <3>3, <1>6
      <3> QED
        BY <2>2, <3>4 DEF GapStart, GapAfter
    <2> QED
      BY <2>1, <2>2
  <1>8. a + size <= GapEnd(s, i)
    <2>1. CASE i \in 1..n
      <3>1. s[i] \in claims
        BY <2>1, <1>2
      <3>2. a <= mem_base[s[i]]
        BY <2>1, <1>1, <1>3
      <3>3. a + size <= mem_base[s[i]]
        BY <3>1, <3>2, <1>6
      <3> QED
        BY <2>1, <3>3, <1>2 DEF GapEnd
    <2>2. CASE i \notin 1..n
      BY <2>2, <1>2, <1>6 DEF GapEnd
    <2> QED
      BY <2>1, <2>2
  <1>9. Fits(GapStart(s, i), GapEnd(s, i), need)
    BY <1>5, <1>6, <1>7, <1>8 DEF Fits, IsGap, size
  <1>10. i \in Fitting(claims, need)
    BY <1>4, <1>9 DEF Fitting
  <1> DEFINE k == Min(Fitting(claims, need))
  <1>11. k \in Gaps(claims) /\ k <= i
    BY <1>10, FirstFitting DEF Fitting
  <1>12. GapStart(s, k) <= GapStart(s, i) /\ GapStart(s, k) \in Nat
    BY <1>1, <1>4, <1>11, GapsAscend, GapsAreGaps DEF IsGap
  <1>13. umem_alloc(claims, need) = GapStart(s, k)
    BY <1>10, AllocIs
  <1> QED
    BY <1>5, <1>6, <1>7, <1>10, <1>12, <1>13, AllocIsFree DEF IsGap

\* umem_stats() reports a gap as large as the need exactly if one fits it.
LEMMA StatsSayWhetherItFits ==
    ASSUME NEW claims, NEW need \in Nat, Laid(claims)
    PROVE  (Fitting(claims, need) # {}) <=> (RoundUp(need) <= umem_stats(claims).largest)
  <1> DEFINE s == Sorted(claims)
             size(i) == Gap(GapStart(s, i), GapEnd(s, i))
             sizes == {size(i) : i \in Gaps(claims)}
  <1>1. umem_stats(claims).largest = Max(sizes)
    BY DEF umem_stats
  <1>2. \A i \in Gaps(claims) : IsGap(claims, GapStart(s, i), GapEnd(s, i))
    BY SortedIs, GapsAreGaps
  <1>3. \A i \in Gaps(claims) : size(i) \in Nat /\ size(i) <= USER_TOP
    BY <1>2, SizesAssumption DEF IsGap
  <1>4. Gaps(claims) # {}
    BY LaidFinite DEF Gaps
  <1>5. \A i \in Gaps(claims) :
            i \in Fitting(claims, need) <=> size(i) >= RoundUp(need)
    BY DEF Fitting, Fits
  <1> HIDE DEF size
  <1>6. sizes \in SUBSET Nat /\ sizes # {} /\ \A y \in sizes : y <= USER_TOP
    BY <1>3, <1>4
  <1>7. Max(sizes) \in sizes /\ \A y \in sizes : Max(sizes) >= y
    BY <1>6, GreatestOf, SizesAssumption
  <1>8. RoundUp(need) \in Nat
    BY RoundUpFacts
  <1>9. ASSUME Fitting(claims, need) # {}
        PROVE  RoundUp(need) <= Max(sizes)
    <2>1. PICK i \in Gaps(claims) : i \in Fitting(claims, need)
      BY <1>9 DEF Fitting
    <2>2. size(i) \in sizes /\ size(i) >= RoundUp(need)
      BY <2>1, <1>5
    <2> QED
      BY <2>2, <1>6, <1>7, <1>8
  <1>10. ASSUME RoundUp(need) <= Max(sizes)
         PROVE  Fitting(claims, need) # {}
    <2>1. PICK i \in Gaps(claims) : size(i) = Max(sizes)
      BY <1>7
    <2>2. i \in Fitting(claims, need)
      BY <2>1, <1>3, <1>5, <1>8, <1>10
    <2> QED
      BY <2>2
  <1> QED
    BY <1>1, <1>9, <1>10

(***************************************************************************)
(* What the table of claims keeps apart                                    *)
(***************************************************************************)

LEMMA ClaimsLaid ==
    ASSUME Claimed
    PROVE  Laid(Claims)
  BY SizesAssumption DEF Claimed, ClaimHeld, Claims, Laid

\* Intervals that are apart have no unit in common, and the other way round.
LEMMA RegionsApart ==
    ASSUME NEW a \in Nat, NEW m \in Nat, NEW b \in Nat, NEW n \in Nat, m > 0, n > 0
    PROVE  (Region(a, m) \cap Region(b, n) = {}) <=> (a + m <= b \/ b + n <= a)
  <1>1. ASSUME Region(a, m) \cap Region(b, n) = {}
        PROVE  a + m <= b \/ b + n <= a
    <2>1. a \notin Region(b, n) \/ a \notin Region(a, m)
      BY <1>1
    <2>2. b \notin Region(a, m) \/ b \notin Region(b, n)
      BY <1>1
    <2> QED
      BY <2>1, <2>2 DEF Region
  <1>2. ASSUME a + m <= b \/ b + n <= a
        PROVE  Region(a, m) \cap Region(b, n) = {}
    BY <1>2 DEF Region
  <1> QED
    BY <1>1, <1>2

LEMMA FreeAtIsSpan ==
    ASSUME Claimed, NEW a \in Nat, NEW n \in Nat, n > 0
    PROVE  FreeAt(a, n) <=> Span(Claims, a, n)
  <1>1. ASSUME NEW p \in Claims
        PROVE  /\ mem_base[p] \in Nat /\ mem_size[p] \in Nat /\ mem_size[p] > 0
               /\ RegionOf(p) = Region(mem_base[p], mem_size[p])
    BY <1>1, SizesAssumption DEF Claimed, ClaimHeld, Claims, RegionOf
  <1>2. ASSUME NEW p \in Claims
        PROVE  (Region(a, n) \cap RegionOf(p) = {}) <=>
                 (mem_base[p] + mem_size[p] <= a \/ a + n <= mem_base[p])
    BY <1>1, RegionsApart
  <1>3. (Region(a, n) \subseteq Region(USER_BASE, USER_TOP - USER_BASE)) <=>
           (USER_BASE <= a /\ a + n <= USER_TOP)
    <2>1. a \in Region(a, n) /\ a + n - 1 \in Region(a, n)
      BY DEF Region
    <2>2. \A x \in Int : x \in Region(USER_BASE, USER_TOP - USER_BASE) <=>
                            USER_BASE <= x /\ x < USER_TOP
      BY SizesAssumption DEF Region
    <2>3. \A x \in Region(a, n) : x \in Int /\ a <= x /\ x < a + n
      BY DEF Region
    <2> QED
      BY <2>1, <2>2, <2>3, SizesAssumption
  <1> QED
    BY <1>2, <1>3 DEF FreeAt, Span

LEMMA FirstFitHolds ==
    Claimed => AllocIsFirstFit
  <1> SUFFICES ASSUME Claimed, NEW need \in 1..(USER_TOP - USER_BASE)
               PROVE  LET found == umem_alloc(Claims, need)
                          places == {a \in USER_BASE..USER_TOP : FreeAt(a, RoundUp(need))}
                      IN  /\ IF found = 0 THEN places = {}
                             ELSE found \in places /\ \A a \in places : found <= a
                          /\ (found # 0) <=> (RoundUp(need) <= umem_stats(Claims).largest)
    BY DEF AllocIsFirstFit
  <1> DEFINE found == umem_alloc(Claims, need)
             places == {a \in USER_BASE..USER_TOP : FreeAt(a, RoundUp(need))}
  <1>1. need \in Nat /\ need > 0 /\ Laid(Claims)
    BY ClaimsLaid, SizesAssumption
  <1>2. RoundUp(need) \in Nat /\ RoundUp(need) > 0
    BY <1>1, RoundUpFacts
  <1>3. \A a \in Nat : FreeAt(a, RoundUp(need)) <=> Span(Claims, a, RoundUp(need))
    BY <1>2, FreeAtIsSpan
  <1>4. \A a \in places : found # 0 /\ found <= a
    <2> TAKE a \in places
    <2>1. Span(Claims, a, RoundUp(need))
      BY <1>3, SizesAssumption
    <2> QED
      BY <2>1, <1>1, <1>2, AllocIsFirst
  <1>5. found # 0 => found \in places
    <2>1. HAVE found # 0
    <2>2. Span(Claims, found, RoundUp(need))
      BY <2>1, <1>1, AllocIsFree
    <2>3. found \in USER_BASE..USER_TOP
      BY <2>2, <1>2, SizesAssumption DEF Span
    <2> QED
      BY <2>2, <2>3, <1>3, SizesAssumption
  <1>6. (found # 0) <=> (RoundUp(need) <= umem_stats(Claims).largest)
    BY <1>1, AllocIsFree, StatsSayWhetherItFits
  <1> QED
    BY <1>4, <1>5, <1>6

LEMMA ClaimsDisjoint ==
    Claimed => RegionsDisjoint
  <1> SUFFICES ASSUME Claimed, NEW p \in Procs
               PROVE  /\ RegionOf(p) \subseteq Region(USER_BASE, USER_TOP - USER_BASE)
                      /\ \A q \in Procs \ {p} : RegionOf(p) \cap RegionOf(q) = {}
    BY DEF RegionsDisjoint
  <1>1. RegionOf(p) \subseteq Region(USER_BASE, USER_TOP - USER_BASE)
    BY SizesAssumption DEF Claimed, ClaimHeld, RegionOf, Region
  <1>2. ASSUME NEW q \in Procs \ {p}
        PROVE  RegionOf(p) \cap RegionOf(q) = {}
    BY <1>2, SizesAssumption DEF Claimed, ClaimHeld, Apart, RegionOf, Region
  <1> QED
    BY <1>1, <1>2

(***************************************************************************)
(* The loaders                                                             *)
(***************************************************************************)

LEMMA ProgramFacts ==
    ASSUME NEW g \in Programs
    PROVE  /\ g.text \in Nat /\ g.data \in Nat /\ g.bss \in Nat /\ g.relocs \in Nat
           /\ g.xip \in BOOLEAN
           /\ Larger(g.bss, g.relocs) \in Nat
           /\ Larger(g.bss, g.relocs) >= g.bss /\ Larger(g.bss, g.relocs) >= g.relocs
           /\ Larger(g.bss, g.relocs) \in {g.bss, g.relocs}
           /\ exec_mem_need(g) \in Nat /\ exec_mem_need(g) >= HEAP + STACK
           /\ exec_mem_need_xip(g) \in Nat /\ exec_mem_need_xip(g) >= HEAP + STACK
           /\ FirstNeed(g) \in Nat
  BY ProgramsAssumption, SizesAssumption
     DEF Larger, exec_mem_need, exec_mem_need_xip, FirstNeed

\* The arguments stay inside the region.
LEMMA StackInside ==
    ASSUME NEW base \in Nat, NEW size \in Nat, NEW args \in Args, size >= HEAP + STACK
    PROVE  \A x \in exec_setup_stack(base + size, args) :
              x \in Nat /\ base <= x /\ x < base + size
  <1>1. args \in Nat /\ args >= 1 /\ args <= STACK
    BY SizesAssumption
  <1>2. PICK t \in Nat : t = base + size - args
    BY <1>1, SizesAssumption
  <1>3. /\ (t \div ALIGN) * ALIGN \in Nat
        /\ (t \div ALIGN) * ALIGN <= t
        /\ t < (t \div ALIGN) * ALIGN + ALIGN
    BY RoundDown, SizesAssumption
  <1>4. PICK r \in Nat : r = (t \div ALIGN) * ALIGN
    BY <1>3
  <1>5. exec_setup_stack(base + size, args) = r..(r + args - 1)
    <2>1. (base + size) - args = t
      BY <1>1, <1>2
    <2>2. exec_setup_stack(base + size, args) = Region((t \div ALIGN) * ALIGN, args)
      BY <2>1 DEF exec_setup_stack
    <2> QED
      BY <2>2, <1>1, <1>4 DEF Region
  <1>6. base <= r /\ r + args <= base + size
    BY <1>1, <1>2, <1>3, <1>4, SizesAssumption
  <1> QED
    BY <1>1, <1>5, <1>6

Inside(l, base, size) ==
    /\ l.brk \in Nat /\ base <= l.brk /\ l.brk <= base + size - STACK
    /\ \A x \in l.bytes : x \in Nat /\ base <= x /\ x < base + size

LEMMA BinaryInside ==
    ASSUME NEW g \in Programs, NEW base \in Nat, NEW size \in Nat, NEW args \in Args,
           size >= exec_mem_need(g)
    PROVE  Inside(load_binary(g, base, size, args), base, size)
  <1> DEFINE n == g.text + g.data + Larger(g.bss, g.relocs)
  <1>1. n \in Nat /\ n + HEAP + STACK <= size
    BY ProgramFacts, SizesAssumption DEF exec_mem_need
  <1>2. \A x \in exec_setup_stack(base + size, args) :
           x \in Nat /\ base <= x /\ x < base + size
    BY <1>1, StackInside, SizesAssumption
  <1>3. \A x \in Region(base, n) : x \in Nat /\ base <= x /\ x < base + size
    BY <1>1, SizesAssumption DEF Region
  <1>4. g.text + g.data + g.bss <= n
    BY ProgramFacts
  <1> QED
    BY <1>1, <1>2, <1>3, <1>4, ProgramFacts, SizesAssumption DEF Inside, load_binary

LEMMA XipInside ==
    ASSUME NEW g \in Programs, NEW base \in Nat, NEW args \in Args,
           g.xip, RelocsFit
    PROVE  \A x \in load_binary_xip(g, base, exec_mem_need_xip(g), args).bytes :
              x \in Nat /\ base <= x /\ x < base + exec_mem_need_xip(g)
  <1> DEFINE n == g.data + Larger(g.bss, g.relocs)
             size == exec_mem_need_xip(g)
  <1>1. n \in Nat /\ size \in Nat /\ size >= HEAP + STACK
    BY ProgramFacts
  <1>2. n <= size
    BY ProgramFacts, SizesAssumption DEF exec_mem_need_xip, RelocsFit
  <1>3. \A x \in exec_setup_stack(base + size, args) :
           x \in Nat /\ base <= x /\ x < base + size
    BY <1>1, StackInside
  <1>4. \A x \in Region(base, n) : x \in Nat /\ base <= x /\ x < base + size
    BY <1>1, <1>2 DEF Region
  <1> QED
    BY <1>3, <1>4 DEF load_binary_xip

LEMMA XipBreak ==
    ASSUME NEW g \in Programs, NEW base \in Nat, NEW args \in Args
    PROVE  LET b == load_binary_xip(g, base, exec_mem_need_xip(g), args).brk
           IN  b \in Nat /\ base <= b /\ b <= base + exec_mem_need_xip(g) - STACK
  BY ProgramFacts, SizesAssumption DEF load_binary_xip, exec_mem_need_xip

\* Where a load may end: the program runs from ROM; it does not, and there is
\* no second region; load_binary() ran in the first region, or in the second.
Tried(g, base, args) ==
    IF g.xip THEN load_binary_xip(g, base, FirstNeed(g), args).bytes ELSE {}
FromRom(g, base, args, l) ==
    /\ g.xip
    /\ l = Done(TRUE, base, FirstNeed(g), load_binary_xip(g, base, FirstNeed(g), args), {})
NoSecond(g, base, args, l) ==
    /\ g.xip
    /\ l = [ok |-> FALSE, base |-> 0, size |-> FirstNeed(g), brk |-> 0,
            bytes |-> Tried(g, base, args)]
InFirst(g, base, args, l) ==
    /\ FirstNeed(g) >= exec_mem_need(g)
    /\ \E ok \in BOOLEAN :
          l = Done(ok, base, FirstNeed(g), load_binary(g, base, FirstNeed(g), args),
                   Tried(g, base, args))
InSecond(g, base, args, l, base2) ==
    /\ base2 # 0 /\ g.xip
    /\ \E ok \in BOOLEAN :
          l = Done(ok, base2, exec_mem_need(g),
                   load_binary(g, base2, exec_mem_need(g), args), Tried(g, base, args))

LEMMA LoadCases ==
    ASSUME NEW g \in Programs, NEW claims, NEW base, NEW args, base # 0,
           NEW l \in Loads(g, claims, base, args)
    PROVE  \/ FromRom(g, base, args, l)
           \/ NoSecond(g, base, args, l)
           \/ InFirst(g, base, args, l)
           \/ InSecond(g, base, args, l, umem_alloc(claims, exec_mem_need(g)))
  <1>1. FirstNeed(g) = IF g.xip THEN exec_mem_need_xip(g) ELSE exec_mem_need(g)
    BY DEF FirstNeed
  <1>2. FirstNeed(g) \in Nat /\ exec_mem_need(g) \in Nat /\ g.xip \in BOOLEAN
    BY ProgramFacts
  <1>3. CASE ~g.xip
    <2>1. FirstNeed(g) >= exec_mem_need(g)
      BY <1>1, <1>2, <1>3
    <2>2. InFirst(g, base, args, l)
      BY <1>3, <2>1 DEF Loads, FirstNeed, InFirst, Tried
    <2> QED
      BY <2>2
  <1>4. CASE g.xip /\ exec_mem_need(g) > FirstNeed(g)
    BY <1>4 DEF Loads, FirstNeed, FromRom, NoSecond, InSecond, Tried
  <1>5. CASE g.xip /\ ~(exec_mem_need(g) > FirstNeed(g))
    <2>1. FirstNeed(g) >= exec_mem_need(g)
      BY <1>2, <1>5
    <2>2. FromRom(g, base, args, l) \/ InFirst(g, base, args, l)
      BY <1>5, <2>1 DEF Loads, FirstNeed, FromRom, InFirst, Tried
    <2> QED
      BY <2>2
  <1> QED
    BY <1>2, <1>3, <1>4, <1>5

\* What a load that succeeds claims is free but for what the caller gave up,
\* and has room for the break below the stack.
LEMMA LoadClaims ==
    ASSUME NEW g \in Programs, NEW claims, NEW base, NEW args \in Args,
           Laid(claims), Span(claims, base, FirstNeed(g)), base # 0,
           NEW l \in Loads(g, claims, base, args)
    PROVE  /\ l.ok \in BOOLEAN /\ l.base \in Nat /\ l.size \in Nat
           /\ l.ok => /\ l.base # 0 /\ l.size > STACK
                      /\ Span(claims, l.base, l.size)
                      /\ l.brk \in Nat /\ l.base <= l.brk
                      /\ l.brk <= l.base + l.size - STACK
  <1> DEFINE need == FirstNeed(g)
             first == load_binary_xip(g, base, need, args)
             base2 == umem_alloc(claims, exec_mem_need(g))
             size2 == exec_mem_need(g)
  <1>1. /\ need \in Nat /\ size2 \in Nat /\ base \in Nat
        /\ need >= HEAP + STACK /\ size2 >= HEAP + STACK
    BY ProgramFacts DEF Span, FirstNeed
  <1>2. need > STACK /\ size2 > STACK
    BY <1>1, SizesAssumption
  <1>3. CASE FromRom(g, base, args, l)
    <2>1. need = exec_mem_need_xip(g)
      BY <1>3 DEF FromRom, FirstNeed
    <2>2. first.brk \in Nat /\ base <= first.brk /\ first.brk <= base + need - STACK
      BY <2>1, <1>1, XipBreak
    <2>3. l.ok = TRUE /\ l.base = base /\ l.size = need /\ l.brk = first.brk
      BY <1>3 DEF FromRom, Done
    <2> HIDE DEF need, first
    <2> QED
      BY <1>1, <1>2, <2>2, <2>3 DEF need
  <1>4. CASE NoSecond(g, base, args, l)
    BY <1>1, <1>4 DEF NoSecond
  <1>5. CASE InFirst(g, base, args, l)
    <2> DEFINE b == load_binary(g, base, need, args)
    <2>1. Inside(b, base, need)
      BY <1>1, <1>5, BinaryInside DEF InFirst
    <2>2. l.ok \in BOOLEAN /\ l.base = base /\ l.size = need /\ l.brk = b.brk
      BY <1>5 DEF InFirst, Done
    <2> HIDE DEF need, b
    <2> QED
      BY <1>1, <1>2, <2>1, <2>2 DEF Inside, need
  <1>6. CASE InSecond(g, base, args, l, base2)
    <2> DEFINE b == load_binary(g, base2, size2, args)
    <2>1. base2 \in Nat /\ Span(claims, base2, RoundUp(size2))
      BY <1>1, <1>6, AllocIsFree DEF InSecond
    <2>2. Span(claims, base2, size2)
      BY <1>1, <2>1, RoundUpFacts, SpanShrinks
    <2>3. Inside(b, base2, size2)
      BY <1>1, <2>1, BinaryInside
    <2>4. l.ok \in BOOLEAN /\ l.base = base2 /\ l.size = size2 /\ l.brk = b.brk
      BY <1>6 DEF InSecond, Done
    <2> HIDE DEF base2, size2, b
    <2> QED
      BY <1>1, <1>2, <1>6, <2>1, <2>2, <2>3, <2>4 DEF InSecond, Inside
  <1> QED
    BY <1>3, <1>4, <1>5, <1>6, LoadCases

\* What a load writes, whether it succeeds or not, lies in no region it was
\* told of.
LEMMA LoadBytes ==
    ASSUME NEW g \in Programs, NEW claims, NEW base, NEW args \in Args, RelocsFit,
           Laid(claims), Span(claims, base, FirstNeed(g)), base # 0,
           NEW l \in Loads(g, claims, base, args),
           NEW x \in l.bytes, NEW p \in claims
    PROVE  x \notin Region(mem_base[p], mem_size[p])
  <1> DEFINE need == FirstNeed(g)
             first == load_binary_xip(g, base, need, args)
             tried == Tried(g, base, args)
             base2 == umem_alloc(claims, exec_mem_need(g))
             size2 == exec_mem_need(g)
  <1>1. need \in Nat /\ size2 \in Nat /\ base \in Nat
    BY ProgramFacts DEF Span, FirstNeed
  <1>2. mem_base[p] \in Nat /\ mem_size[p] \in Nat
    BY DEF Laid
  <1>3. ASSUME NEW a, NEW n, Span(claims, a, n), NEW y \in Nat, a <= y, y < a + n
        PROVE  y \notin Region(mem_base[p], mem_size[p])
    BY <1>2, <1>3 DEF Span, Region
  <1>4. ASSUME NEW y \in tried
        PROVE  y \notin Region(mem_base[p], mem_size[p])
    <2>1. g.xip /\ need = exec_mem_need_xip(g)
      BY <1>4 DEF Tried, FirstNeed
    <2>2. y \in Nat /\ base <= y /\ y < base + need
      BY <2>1, <1>1, <1>4, XipInside DEF Tried
    <2> QED
      BY <2>2, <1>3
  <1>5. CASE FromRom(g, base, args, l)
    <2>1. x \in tried
      BY <1>5 DEF FromRom, Done, Tried
    <2> QED
      BY <2>1, <1>4
  <1>6. CASE NoSecond(g, base, args, l)
    <2>1. x \in tried
      BY <1>6 DEF NoSecond
    <2> QED
      BY <2>1, <1>4
  <1>7. CASE InFirst(g, base, args, l)
    <2>1. x \in load_binary(g, base, need, args).bytes \/ x \in tried
      BY <1>7 DEF InFirst, Done
    <2>2. Inside(load_binary(g, base, need, args), base, need)
      BY <1>1, <1>7, BinaryInside DEF InFirst
    <2> QED
      BY <2>1, <2>2, <1>3, <1>4 DEF Inside
  <1>8. CASE InSecond(g, base, args, l, base2)
    <2>1. x \in load_binary(g, base2, size2, args).bytes \/ x \in tried
      BY <1>8 DEF InSecond, Done
    <2>2. base2 \in Nat /\ Span(claims, base2, RoundUp(size2))
      BY <1>1, <1>8, AllocIsFree DEF InSecond
    <2>3. Span(claims, base2, size2)
      BY <1>1, <2>2, RoundUpFacts, SpanShrinks
    <2>4. Inside(load_binary(g, base2, size2, args), base2, size2)
      BY <1>1, <2>2, BinaryInside
    <2> QED
      BY <2>1, <2>3, <2>4, <1>3, <1>4 DEF Inside
  <1> QED
    BY <1>5, <1>6, <1>7, <1>8, LoadCases

(***************************************************************************)
(* Claims stay apart, whatever programs do                                 *)
(***************************************************************************)

Pool == Region(USER_BASE, USER_TOP - USER_BASE)

LEMMA SpanInPool ==
    ASSUME NEW claims, NEW a, NEW n, Span(claims, a, n)
    PROVE  Region(a, n) \subseteq Pool /\ Region(a, n) \in SUBSET Nat
  BY SizesAssumption DEF Span, Region, Pool

LEMMA FirstRegion ==
    ASSUME Claimed, NEW g \in Programs, NEW p
    PROVE  LET base == umem_alloc(Claims, FirstNeed(g))
           IN  base # 0 => /\ Span(Claims \ {p}, base, FirstNeed(g))
                           /\ Span(Claims, base, FirstNeed(g))
                           /\ Laid(Claims \ {p}) /\ Laid(Claims)
  <1>1. Laid(Claims) /\ Laid(Claims \ {p})
    BY ClaimsLaid DEF Laid
  <1>2. FirstNeed(g) \in Nat
    BY ProgramFacts
  <1>3. umem_alloc(Claims, FirstNeed(g)) # 0 =>
           Span(Claims, umem_alloc(Claims, FirstNeed(g)), RoundUp(FirstNeed(g)))
    BY <1>1, <1>2, AllocIsFree
  <1>4. FirstNeed(g) <= RoundUp(FirstNeed(g))
    BY <1>2, RoundUpFacts
  <1> QED
    BY <1>1, <1>2, <1>3, <1>4, SpanShrinks

\* p has claimed what a load found.
LEMMA NewClaim ==
    ASSUME ClaimInv, NEW p \in Users, NEW l,
           l.base \in Nat, l.size \in Nat, l.base # 0, l.size > STACK,
           Span(Claims \ {p}, l.base, l.size),
           l.brk \in Nat, l.base <= l.brk, l.brk <= l.base + l.size - STACK,
           mem_base' = [mem_base EXCEPT ![p] = l.base],
           mem_size' = [mem_size EXCEPT ![p] = l.size],
           brk' = [brk EXCEPT ![p] = l.brk],
           image' = [image EXCEPT ![p] = Region(l.base, l.size)],
           state' \in [Procs -> {"FREE", "LIVE", "VFORK", "ZOMBIE"}],
           state'[p] = "LIVE", state'[Kernel] = "LIVE",
           \A q \in Procs : state[q] \in {"LIVE", "VFORK"} => state'[q] \in {"LIVE", "VFORK"},
           ppid' \in [Procs -> Procs], exec_active' \in BOOLEAN, homeless' \subseteq homeless
    PROVE  ClaimInv'
  <1>1. p \in Procs /\ p # Kernel /\ Kernel \in Procs
    BY SizesAssumption DEF Procs
  <1>2. TypeOK /\ Claimed
    BY DEF ClaimInv
  <1>3. /\ mem_base \in [Procs -> Nat] /\ mem_size \in [Procs -> Nat]
        /\ brk \in [Procs -> Nat] /\ image \in [Procs -> SUBSET Nat]
    BY <1>2 DEF Claimed
  <1>4. /\ mem_base'[p] = l.base /\ mem_size'[p] = l.size /\ brk'[p] = l.brk
        /\ image'[p] = Region(l.base, l.size)
    BY <1>1, <1>3
  <1>5. \A q \in Procs : q # p => /\ mem_base'[q] = mem_base[q]
                                  /\ mem_size'[q] = mem_size[q]
                                  /\ brk'[q] = brk[q]
                                  /\ image'[q] = image[q]
    BY <1>3
  <1>6. Region(l.base, l.size) \subseteq Pool /\ Region(l.base, l.size) \in SUBSET Nat
    BY SpanInPool
  <1>7. TypeOK'
    <2>1. (homeless \subseteq Live)'
      BY <1>2 DEF TypeOK, Live, Procs
    <2>2. \A q \in Procs : image'[q] \subseteq Pool
      BY <1>2, <1>4, <1>5, <1>6 DEF TypeOK, Pool
    <2>3. ASSUME NEW q \in Procs, mem_base'[q] # 0
          PROVE  brk'[q] \in mem_base'[q]..(mem_base'[q] + mem_size'[q] - STACK)
      <3>1. CASE q = p
        BY <3>1, <1>4, SizesAssumption
      <3>2. CASE q # p
        BY <3>2, <2>3, <1>2, <1>5 DEF TypeOK
      <3> QED
        BY <3>1, <3>2
    <2> QED
      BY <2>1, <2>2, <2>3 DEF TypeOK, Pool
  <1>8. Claimed'
    <2>1. /\ mem_base' \in [Procs -> Nat] /\ mem_size' \in [Procs -> Nat]
          /\ brk' \in [Procs -> Nat] /\ image' \in [Procs -> SUBSET Nat]
      BY <1>3, <1>6
    <2>2. state'[Kernel] = "LIVE" /\ mem_base'[Kernel] = 0
      BY <1>1, <1>2, <1>5 DEF Claimed
    <2>3. ASSUME NEW q \in Procs, mem_base'[q] # 0
          PROVE  ClaimHeld(q)'
      <3>1. CASE q = p
        BY <3>1, <1>4 DEF ClaimHeld, Span
      <3>2. CASE q # p
        BY <3>2, <2>3, <1>2, <1>5 DEF Claimed, ClaimHeld
      <3> QED
        BY <3>1, <3>2
    <2>4. ASSUME NEW q \in Procs, mem_base'[q] # 0, q # p
          PROVE  /\ l.base + l.size <= mem_base[q] \/ mem_base[q] + mem_size[q] <= l.base
                 /\ mem_base[q] # 0
      <3>1. mem_base[q] # 0
        BY <2>4, <1>5
      <3>2. q \in Claims \ {p}
        BY <3>1, <2>4, <1>2 DEF Claimed, ClaimHeld, Claims
      <3> QED
        BY <3>1, <3>2 DEF Span
    <2>5. ASSUME NEW q \in Procs, NEW r \in Procs,
                 mem_base'[q] # 0, mem_base'[r] # 0, q # r
          PROVE  Apart(q, r)'
      <3>1. CASE q = p
        BY <3>1, <2>4, <2>5, <1>4, <1>5 DEF Apart
      <3>2. CASE r = p
        BY <3>2, <2>4, <2>5, <1>4, <1>5 DEF Apart
      <3>3. CASE q # p /\ r # p
        <4>1. Apart(q, r)
          BY <3>3, <2>4, <2>5, <1>2 DEF Claimed
        <4> QED
          BY <4>1, <3>3, <1>5 DEF Apart
      <3> QED
        BY <3>1, <3>2, <3>3
    <2> QED
      BY <2>1, <2>2, <2>3, <2>5 DEF Claimed
  <1> QED
    BY <1>7, <1>8 DEF ClaimInv

\* p has given up what it claimed, or it has claimed nothing.
LEMMA ClaimDropped ==
    ASSUME ClaimInv, NEW p \in Users, NEW size \in Nat,
           mem_base' = [mem_base EXCEPT ![p] = 0],
           mem_size' = [mem_size EXCEPT ![p] = size],
           brk' \in [Procs -> Nat],
           \A q \in Procs : q # p => brk'[q] = brk[q],
           image' \in [Procs -> SUBSET Nat],
           \A q \in Procs : image'[q] \subseteq Pool,
           state' \in [Procs -> {"FREE", "LIVE", "VFORK", "ZOMBIE"}],
           state'[Kernel] = "LIVE",
           \A q \in Procs \ {p} :
              state[q] \in {"LIVE", "VFORK"} => state'[q] \in {"LIVE", "VFORK"},
           ppid' \in [Procs -> Procs], exec_active' \in BOOLEAN,
           homeless' \subseteq Live'
    PROVE  ClaimInv'
  <1>1. p \in Procs /\ p # Kernel /\ Kernel \in Procs
    BY SizesAssumption DEF Procs
  <1>2. TypeOK /\ Claimed
    BY DEF ClaimInv
  <1>3. /\ mem_base \in [Procs -> Nat] /\ mem_size \in [Procs -> Nat]
        /\ mem_base' \in [Procs -> Nat] /\ mem_size' \in [Procs -> Nat]
    BY <1>2 DEF Claimed
  <1>4. \A q \in Procs : mem_base'[q] # 0 =>
           q # p /\ mem_base'[q] = mem_base[q] /\ mem_size'[q] = mem_size[q]
                 /\ brk'[q] = brk[q]
    BY <1>1, <1>3
  <1>5. TypeOK'
    BY <1>2, <1>4 DEF TypeOK, Pool
  <1>6. mem_base'[Kernel] = 0
    BY <1>1, <1>2, <1>3 DEF Claimed
  <1>7. \A q \in Procs : mem_base'[q] # 0 => ClaimHeld(q)'
    BY <1>2, <1>4 DEF Claimed, ClaimHeld
  <1>8. \A q, r \in Procs : mem_base'[q] # 0 /\ mem_base'[r] # 0 /\ q # r => Apart(q, r)'
    <2> SUFFICES ASSUME NEW q \in Procs, NEW r \in Procs,
                        mem_base'[q] # 0, mem_base'[r] # 0, q # r
                 PROVE  Apart(q, r)'
      OBVIOUS
    <2>1. Apart(q, r)
      BY <1>2, <1>4 DEF Claimed
    <2> QED
      BY <2>1, <1>4 DEF Apart
  <1>9. Claimed'
    BY <1>3, <1>6, <1>7, <1>8 DEF Claimed
  <1> QED
    BY <1>5, <1>9 DEF ClaimInv

LEMMA ClaimTypes ==
    ASSUME ClaimInv
    PROVE  /\ state \in [Procs -> {"FREE", "LIVE", "VFORK", "ZOMBIE"}]
           /\ ppid \in [Procs -> Procs] /\ exec_active \in BOOLEAN
           /\ mem_base \in [Procs -> Nat] /\ mem_size \in [Procs -> Nat]
           /\ brk \in [Procs -> Nat] /\ image \in [Procs -> SUBSET Nat]
           /\ \A q \in Procs : image[q] \subseteq Pool
           /\ state[Kernel] = "LIVE" /\ mem_base[Kernel] = 0
           /\ homeless \subseteq Live
           /\ Kernel \in Procs /\ Kernel \notin Users /\ Users \subseteq Procs
  BY SizesAssumption DEF ClaimInv, TypeOK, Claimed, Procs, Pool

LEMMA InitClaims ==
    Init => ClaimInv
  <1> SUFFICES ASSUME Init PROVE ClaimInv
    OBVIOUS
  <1>1. TypeOK
    BY SizesAssumption DEF Init, TypeOK, Live, Procs
  <1>2. Claimed
    BY SizesAssumption DEF Init, Claimed, Procs
  <1> QED
    BY <1>1, <1>2 DEF ClaimInv

LEMMA StutterClaims ==
    ASSUME ClaimInv, UNCHANGED <<table, image, homeless>>
    PROVE  ClaimInv'
  BY DEF ClaimInv, TypeOK, Claimed, ClaimHeld, Apart, Live, table

LEMMA SpawnClaims ==
    ASSUME ClaimInv, NEW c \in Users, NEW g \in Programs, NEW args \in Args, Spawn(c, g, args)
    PROVE  ClaimInv'
  <1> DEFINE base == umem_alloc(Claims, FirstNeed(g))
  <1>1. PICK l \in Loads(g, Claims, base, args) :
            IF l.ok
            THEN /\ state' = [state EXCEPT ![c] = "LIVE"]
                 /\ ppid' = [ppid EXCEPT ![c] = Kernel]
                 /\ mem_base' = [mem_base EXCEPT ![c] = l.base]
                 /\ mem_size' = [mem_size EXCEPT ![c] = l.size]
                 /\ brk' = [brk EXCEPT ![c] = l.brk]
                 /\ image' = [image EXCEPT ![c] = Region(l.base, l.size)]
            ELSE UNCHANGED <<state, ppid, mem_base, mem_size, brk, image>>
    BY DEF Spawn
  <1>2. base # 0 /\ UNCHANGED <<exec_active, homeless>> /\ state[c] = "FREE"
    BY DEF Spawn
  <1>3. CASE ~l.ok
    BY <1>1, <1>2, <1>3, StutterClaims DEF table
  <1>4. CASE l.ok
    <2>1. Claimed
      BY DEF ClaimInv
    <2>2. Laid(Claims) /\ Span(Claims, base, FirstNeed(g))
      BY <2>1, <1>2, FirstRegion
    <2>3. /\ l.base \in Nat /\ l.size \in Nat /\ l.base # 0 /\ l.size > STACK
          /\ Span(Claims, l.base, l.size)
          /\ l.brk \in Nat /\ l.base <= l.brk /\ l.brk <= l.base + l.size - STACK
      BY <1>2, <1>4, <2>2, LoadClaims
    <2>4. Claims \ {c} = Claims
      BY <1>2 DEF Claims
    <2>5. /\ state' \in [Procs -> {"FREE", "LIVE", "VFORK", "ZOMBIE"}]
          /\ state'[c] = "LIVE" /\ state'[Kernel] = "LIVE"
          /\ \A q \in Procs : state[q] \in {"LIVE", "VFORK"} => state'[q] \in {"LIVE", "VFORK"}
          /\ ppid' \in [Procs -> Procs]
          /\ exec_active' \in BOOLEAN /\ homeless' \subseteq homeless
      BY <1>1, <1>2, <1>4, ClaimTypes
    <2>6. Span(Claims \ {c}, l.base, l.size)
      BY <2>3, <2>4
    <2> HIDE DEF base
    <2> QED
      BY <1>1, <1>4, <2>3, <2>5, <2>6, NewClaim
  <1> QED
    BY <1>3, <1>4

LEMMA VforkClaims ==
    ASSUME ClaimInv, NEW p \in Users, NEW c \in Users, Vfork(p, c)
    PROVE  ClaimInv'
  <1>1. /\ state[p] = "LIVE" /\ state[c] = "FREE" /\ p # c
        /\ state' = [state EXCEPT ![c] = "LIVE", ![p] = "VFORK"]
        /\ ppid' = [ppid EXCEPT ![c] = p]
        /\ mem_base' = [mem_base EXCEPT ![c] = 0]
        /\ mem_size' = [mem_size EXCEPT ![c] = 0]
        /\ brk' = [brk EXCEPT ![c] = brk[p]]
        /\ image' = [image EXCEPT ![c] = image[p]]
        /\ homeless' \subseteq homeless \cup {c}
        /\ exec_active' = exec_active
    BY DEF Vfork, ChildBase
  <1>2. brk' \in [Procs -> Nat] /\ \A q \in Procs : q # c => brk'[q] = brk[q]
    BY <1>1, ClaimTypes
  <1>3. image' \in [Procs -> SUBSET Nat] /\ \A q \in Procs : image'[q] \subseteq Pool
    BY <1>1, ClaimTypes
  <1>4. /\ state' \in [Procs -> {"FREE", "LIVE", "VFORK", "ZOMBIE"}]
        /\ state'[Kernel] = "LIVE"
        /\ \A q \in Procs \ {c} :
              state[q] \in {"LIVE", "VFORK"} => state'[q] \in {"LIVE", "VFORK"}
    BY <1>1, ClaimTypes
  <1>5. homeless' \subseteq Live'
    BY <1>1, ClaimTypes DEF Live
  <1>6. ppid' \in [Procs -> Procs] /\ exec_active' \in BOOLEAN
    BY <1>1, ClaimTypes
  <1> QED
    BY <1>1, <1>2, <1>3, <1>4, <1>5, <1>6, ClaimDropped

LEMMA GiveUpClaims ==
    ASSUME ClaimInv, NEW p \in Users, NEW size \in Nat, GiveUp(p, size), state[p] = "LIVE",
           UNCHANGED <<state, ppid, brk, image>>, exec_active' \in BOOLEAN
    PROVE  ClaimInv'
  <1>1. /\ mem_base' = [mem_base EXCEPT ![p] = 0]
        /\ mem_size' = [mem_size EXCEPT ![p] = size]
        /\ homeless' \subseteq homeless \cup {p}
    BY DEF GiveUp
  <1>2. homeless' \subseteq Live'
    BY <1>1, ClaimTypes DEF Live
  <1> QED
    BY <1>1, <1>2, ClaimTypes, ClaimDropped

LEMMA ExecClaims ==
    ASSUME ClaimInv, NEW p \in Users, NEW g \in Programs, NEW args \in Args, Exec(p, g, args)
    PROVE  ClaimInv'
  <1> DEFINE base == umem_alloc(Claims, FirstNeed(g))
  <1>1. PICK l \in Loads(g, Claims \ {p}, base, args) :
            IF l.ok THEN Enter(p, l)
            ELSE /\ GiveUp(p, IF l.base = 0 THEN l.size ELSE 0)
                 /\ UNCHANGED <<state, brk, exec_active, image>>
    BY DEF Exec
  <1>2. base # 0 /\ ppid' = ppid /\ state[p] = "LIVE"
    BY DEF Exec
  <1>3. Claimed
    BY DEF ClaimInv
  <1>4. Laid(Claims \ {p}) /\ Span(Claims \ {p}, base, FirstNeed(g))
    BY <1>2, <1>3, FirstRegion
  <1>5. /\ l.ok \in BOOLEAN /\ l.base \in Nat /\ l.size \in Nat
        /\ l.ok => /\ l.base # 0 /\ l.size > STACK
                   /\ Span(Claims \ {p}, l.base, l.size)
                   /\ l.brk \in Nat /\ l.base <= l.brk /\ l.brk <= l.base + l.size - STACK
    BY <1>2, <1>4, LoadClaims
  <1>6. CASE ~l.ok
    <2>1. (IF l.base = 0 THEN l.size ELSE 0) \in Nat
      BY <1>5
    <2>2. exec_active' \in BOOLEAN
      BY <1>1, <1>6, ClaimTypes
    <2> QED
      BY <1>1, <1>2, <1>6, <2>1, <2>2, GiveUpClaims
  <1>7. CASE l.ok
    <2>1. /\ mem_base' = [mem_base EXCEPT ![p] = l.base]
          /\ mem_size' = [mem_size EXCEPT ![p] = l.size]
          /\ brk' = [brk EXCEPT ![p] = l.brk]
          /\ image' = [image EXCEPT ![p] = Region(l.base, l.size)]
          /\ homeless' \subseteq homeless
      BY <1>1, <1>7 DEF Enter
    <2>2. state' = state \/ (/\ state[ppid[p]] = "VFORK"
                             /\ state' = [state EXCEPT ![ppid[p]] = "LIVE"])
      BY <1>1, <1>7 DEF Enter
    <2>3. /\ state' \in [Procs -> {"FREE", "LIVE", "VFORK", "ZOMBIE"}]
          /\ state'[p] = "LIVE" /\ state'[Kernel] = "LIVE"
          /\ \A q \in Procs : state[q] \in {"LIVE", "VFORK"} => state'[q] \in {"LIVE", "VFORK"}
      BY <1>2, <2>2, ClaimTypes
    <2>4. exec_active' \in BOOLEAN /\ ppid' \in [Procs -> Procs]
      BY <1>1, <1>2, <1>7, ClaimTypes DEF Enter
    <2> QED
      BY <1>5, <1>7, <2>1, <2>3, <2>4, NewClaim
  <1> QED
    BY <1>5, <1>6, <1>7

LEMMA ExitClaims ==
    ASSUME ClaimInv, NEW p \in Users, ExitProcess(p)
    PROVE  ClaimInv'
  <1>1. /\ mem_base' = [mem_base EXCEPT ![p] = 0]
        /\ mem_size' = [mem_size EXCEPT ![p] = 0]
        /\ brk' = brk /\ exec_active' = exec_active
        /\ image' = [image EXCEPT ![p] = {}]
        /\ homeless' = homeless \ {p}
    BY DEF ExitProcess
  <1>2. ppid' \in [Procs -> Procs]
    BY ClaimTypes DEF ExitProcess
  <1>3. /\ state' \in [Procs -> {"FREE", "LIVE", "VFORK", "ZOMBIE"}]
        /\ state'[Kernel] = "LIVE"
        /\ \A q \in Procs \ {p} :
              state[q] \in {"LIVE", "VFORK"} => state'[q] \in {"LIVE", "VFORK"}
    BY ClaimTypes DEF ExitProcess
  <1>4. image' \in [Procs -> SUBSET Nat] /\ \A q \in Procs : image'[q] \subseteq Pool
    BY <1>1, ClaimTypes
  <1>5. homeless' \subseteq Live'
    BY <1>1, <1>3, ClaimTypes DEF Live
  <1> QED
    BY <1>1, <1>2, <1>3, <1>4, <1>5, ClaimTypes, ClaimDropped

LEMMA ReapClaims ==
    ASSUME ClaimInv, NEW q \in Users, Reap(q)
    PROVE  ClaimInv'
  <1>1. /\ state[q] = "ZOMBIE" /\ state' = [state EXCEPT ![q] = "FREE"]
        /\ UNCHANGED <<ppid, mem_base, mem_size, brk, exec_active, image, homeless>>
    BY DEF Reap
  <1>2. mem_base[q] = 0 /\ q \in Procs
    BY <1>1, ClaimTypes DEF ClaimInv, Claimed, ClaimHeld
  <1>3. PICK n \in Nat : n = mem_size[q]
    BY <1>2, ClaimTypes
  <1>4. /\ mem_base' = [mem_base EXCEPT ![q] = 0]
        /\ mem_size' = [mem_size EXCEPT ![q] = n]
    BY <1>1, <1>2, <1>3, ClaimTypes
  <1>5. /\ state' \in [Procs -> {"FREE", "LIVE", "VFORK", "ZOMBIE"}]
        /\ state'[Kernel] = "LIVE"
        /\ \A r \in Procs \ {q} :
              state[r] \in {"LIVE", "VFORK"} => state'[r] \in {"LIVE", "VFORK"}
        /\ homeless' \subseteq Live'
    BY <1>1, ClaimTypes DEF Live
  <1>6. /\ brk' \in [Procs -> Nat] /\ \A r \in Procs : r # q => brk'[r] = brk[r]
        /\ image' \in [Procs -> SUBSET Nat]
        /\ \A r \in Procs : image'[r] \subseteq Pool
        /\ ppid' \in [Procs -> Procs] /\ exec_active' \in BOOLEAN
    BY <1>1, ClaimTypes
  <1> QED
    BY <1>4, <1>5, <1>6, ClaimDropped

LEMMA SbrkClaims ==
    ASSUME ClaimInv, NEW p \in Users, NEW incr \in Increments, Sbrk(p, incr)
    PROVE  ClaimInv'
  <1> DEFINE o == BreakOwner(p)
             new == brk[o] + incr
  <1>1. o \in Procs
    BY ClaimTypes DEF BreakOwner
  <1>2. /\ mem_base[o] # 0 /\ new >= mem_base[o]
        /\ new <= mem_base[o] + mem_size[o] - STACK
        /\ brk' = [brk EXCEPT ![o] = new]
        /\ UNCHANGED <<state, ppid, mem_base, mem_size, exec_active, image, homeless>>
    BY DEF Sbrk, BreakLimit
  <1>3. brk[o] \in Nat /\ incr \in Int /\ mem_base[o] \in Nat /\ mem_size[o] \in Nat
    BY <1>1, ClaimTypes, SizesAssumption
  <1>4. new \in Nat
    BY <1>2, <1>3
  <1> HIDE DEF new, o
  <1>5. brk' \in [Procs -> Nat]
    BY <1>2, <1>4, ClaimTypes
  <1>6. ASSUME NEW q \in Procs, mem_base[q] # 0
        PROVE  brk'[q] \in mem_base[q]..(mem_base[q] + mem_size[q] - STACK)
    <2>1. CASE q = o
      BY <2>1, <1>1, <1>2, <1>3, <1>4, ClaimTypes, SizesAssumption
    <2>2. CASE q # o
      BY <2>2, <1>2, <1>6, ClaimTypes DEF ClaimInv, TypeOK
    <2> QED
      BY <2>1, <2>2
  <1>7. TypeOK'
    BY <1>2, <1>6 DEF ClaimInv, TypeOK, Live
  <1>8. Claimed'
    BY <1>2, <1>5 DEF ClaimInv, Claimed, ClaimHeld, Apart
  <1> QED
    BY <1>7, <1>8 DEF ClaimInv

LEMMA NextClaims ==
    ClaimInv /\ [Next]_vars => ClaimInv'
  <1> SUFFICES ASSUME ClaimInv, [Next]_vars PROVE ClaimInv'
    OBVIOUS
  <1>1. CASE UNCHANGED vars
    BY <1>1, StutterClaims DEF vars
  <1>2. CASE \E c \in Users, g \in Programs, args \in Args : Spawn(c, g, args)
    BY <1>2, SpawnClaims
  <1>3. CASE \E p, c \in Users : Vfork(p, c)
    BY <1>3, VforkClaims
  <1>4. CASE \E p \in Users, g \in Programs, args \in Args : Exec(p, g, args)
    BY <1>4, ExecClaims
  <1>5. CASE \E p \in Users : ExitProcess(p)
    BY <1>5, ExitClaims
  <1>6. CASE \E p \in Users : ExecLeave(p)
    <2>1. PICK p \in Users : ExecLeave(p)
      BY <1>6
    <2>2. GiveUp(p, 0) /\ state[p] = "LIVE" /\ exec_active' = FALSE
      BY <2>1 DEF ExecLeave
    <2>3. UNCHANGED <<state, ppid, brk, image>>
      BY <2>1 DEF ExecLeave
    <2> QED
      BY <2>2, <2>3, GiveUpClaims
  <1>7. CASE \E p \in Users : Reap(p)
    BY <1>7, ReapClaims
  <1>8. CASE \E p \in Users, incr \in Increments : Sbrk(p, incr)
    BY <1>8, SbrkClaims
  <1> QED
    BY <1>1, <1>2, <1>3, <1>4, <1>5, <1>6, <1>7, <1>8 DEF Next

LEMMA AlwaysClaims ==
    Spec => []ClaimInv
  BY InitClaims, NextClaims, PTL DEF Spec

\* Types, for every pool and whatever programs do: breaks stay between the start
\* of a region and the stack that sbrk_proc() keeps free (mem.c:111), and no
\* program executes outside the pool.
THEOREM UserMemTypes == Spec => []TypeOK
  <1>1. ClaimInv => TypeOK
    BY DEF ClaimInv
  <1> QED
    BY <1>1, AlwaysClaims, PTL

\* No two entries of the process table ever claim the same memory, nor any
\* outside the pool, with exec in place, failing loads, second regions and
\* vforks in every order (umem_alloc(), mem.c:168).
THEOREM ClaimsApart == Spec => []RegionsDisjoint
  <1>1. ClaimInv => RegionsDisjoint
    BY ClaimsDisjoint DEF ClaimInv
  <1> QED
    BY <1>1, AlwaysClaims, PTL

\* Whatever is claimed, umem_alloc() returns the lowest free place, and finds
\* one exactly if umem_stats() reports a gap as large.
THEOREM FirstFit == Spec => []AllocIsFirstFit
  <1>1. ClaimInv => AllocIsFirstFit
    BY FirstFitHolds DEF ClaimInv
  <1> QED
    BY <1>1, AlwaysClaims, PTL

(***************************************************************************)
(* Programs keep the memory they execute in                                *)
(***************************************************************************)

LEMMA KeepFacts ==
    ASSUME KeepInv, NEW p \in Live, p \notin homeless
    PROVE  /\ p \in Procs /\ p \in Users /\ ppid[p] \in Procs
           /\ mem_base[p] # 0 => image[p] = RegionOf(p)
           /\ mem_base[p] = 0 => image[p] = RegionOf(ppid[p]) /\ state[ppid[p]] = "VFORK"
  BY ClaimTypes DEF KeepInv, ProgramsKeepMemory, Live

\* A step that leaves a process what it had: its own region, or its parent's
\* while that waits.
LEMMA Kept ==
    ASSUME KeepInv, NEW p \in Live, p \notin homeless,
           ppid'[p] = ppid[p] \/ mem_base[p] # 0,
           mem_base'[p] = mem_base[p], mem_size'[p] = mem_size[p], image'[p] = image[p],
           mem_base[p] = 0 => /\ state'[ppid[p]] = "VFORK"
                              /\ mem_base'[ppid[p]] = mem_base[ppid[p]]
                              /\ mem_size'[ppid[p]] = mem_size[ppid[p]]
    PROVE  /\ image'[p] = (RegionOf(IF mem_base[p] # 0 THEN p ELSE ppid[p]))'
           /\ mem_base'[p] = 0 => state'[ppid'[p]] = "VFORK"
  <1>1. CASE mem_base[p] # 0
    BY <1>1, KeepFacts DEF RegionOf
  <1>2. CASE mem_base[p] = 0
    BY <1>2, KeepFacts DEF RegionOf
  <1> QED
    BY <1>1, <1>2

LEMMA InitKeeps ==
    Init => KeepInv
  <1> SUFFICES ASSUME Init PROVE KeepInv
    OBVIOUS
  <1>1. Live = {}
    BY SizesAssumption DEF Init, Live, Procs
  <1> QED
    BY <1>1, InitClaims DEF KeepInv, ProgramsKeepMemory, Windows

LEMMA StutterKeeps ==
    ASSUME KeepInv, UNCHANGED <<state, ppid, mem_base, mem_size, image, homeless>>, ClaimInv'
    PROVE  KeepInv'
  BY DEF KeepInv, ProgramsKeepMemory, Windows, Live, RegionOf, Region

LEMMA SpawnKeeps ==
    ASSUME KeepInv, NEW c \in Users, NEW g \in Programs, NEW args \in Args,
           Spawn(c, g, args), ClaimInv'
    PROVE  KeepInv'
  <1> DEFINE base == umem_alloc(Claims, FirstNeed(g))
  <1>1. PICK l \in Loads(g, Claims, base, args) :
            IF l.ok
            THEN /\ state' = [state EXCEPT ![c] = "LIVE"]
                 /\ ppid' = [ppid EXCEPT ![c] = Kernel]
                 /\ mem_base' = [mem_base EXCEPT ![c] = l.base]
                 /\ mem_size' = [mem_size EXCEPT ![c] = l.size]
                 /\ brk' = [brk EXCEPT ![c] = l.brk]
                 /\ image' = [image EXCEPT ![c] = Region(l.base, l.size)]
            ELSE UNCHANGED <<state, ppid, mem_base, mem_size, brk, image>>
    BY DEF Spawn
  <1>2. base # 0 /\ homeless' = homeless /\ state[c] = "FREE"
    BY DEF Spawn
  <1>3. ClaimInv /\ Claimed
    BY DEF KeepInv, ClaimInv
  <1>4. CASE ~l.ok
    BY <1>1, <1>2, <1>4, StutterKeeps
  <1>5. CASE l.ok
    <2>1. l.base # 0
      <3>1. Laid(Claims) /\ Span(Claims, base, FirstNeed(g))
        BY <1>2, <1>3, FirstRegion
      <3> QED
        BY <3>1, <1>2, <1>5, LoadClaims
    <2> HIDE DEF base
    <2>2. /\ state'[c] = "LIVE" /\ ppid'[c] = Kernel /\ mem_base'[c] = l.base
          /\ mem_size'[c] = l.size /\ image'[c] = Region(l.base, l.size)
      BY <1>1, <1>3, <1>5, ClaimTypes
    <2>3. \A q \in Procs : q # c =>
             /\ state'[q] = state[q] /\ ppid'[q] = ppid[q] /\ mem_base'[q] = mem_base[q]
             /\ mem_size'[q] = mem_size[q] /\ image'[q] = image[q]
      BY <1>1, <1>3, <1>5, ClaimTypes
    <2>4. Live' = Live \cup {c} /\ c \notin Live
      BY <1>2, <1>3, <2>2, <2>3, ClaimTypes DEF Live
    <2>5. ProgramsKeepMemory'
      <3> SUFFICES ASSUME NEW p \in Live', p \notin homeless'
                   PROVE  /\ image'[p] = RegionOf(IF mem_base[p] # 0 THEN p ELSE ppid[p])'
                          /\ mem_base'[p] = 0 => state'[ppid'[p]] = "VFORK"
        BY DEF ProgramsKeepMemory
      <3>1. CASE p = c
        BY <3>1, <2>1, <2>2 DEF RegionOf
      <3>2. CASE p # c
        <4>1. p \in Live /\ p \notin homeless /\ p \in Procs
          BY <3>2, <2>4, <1>2, <1>3, ClaimTypes DEF Live
        <4>2. mem_base[p] = 0 => ppid[p] # c /\ ppid[p] \in Procs /\ state[ppid[p]] = "VFORK"
          BY <4>1, <1>2, KeepFacts
        <4> QED
          BY <3>2, <4>1, <4>2, <2>3, Kept
      <3> QED
        BY <3>1, <3>2
    <2>6. Windows'
      <3> SUFFICES ASSUME NEW p \in Live', state'[ppid'[p]] = "VFORK"
                   PROVE  /\ state'[p] = "LIVE"
                          /\ \A q \in Live' : ppid'[q] = ppid'[p] => q = p
        BY DEF Windows
      <3>1. p # c /\ p \in Live
        BY <1>2, <1>3, <2>2, <2>3, <2>4, ClaimTypes
      <3>2. ppid'[p] = ppid[p] /\ state'[p] = state[p] /\ p \in Procs
        BY <3>1, <1>3, <2>3, ClaimTypes DEF Live
      <3>3. ppid[p] # c /\ ppid[p] # Kernel /\ state[ppid[p]] = "VFORK"
        BY <3>2, <1>3, <2>2, <2>3, ClaimTypes
      <3>4. \A q \in Live' : ppid'[q] = ppid[p] => q \in Live /\ ppid[q] = ppid[p]
        BY <3>3, <1>3, <2>2, <2>3, <2>4, ClaimTypes DEF Live
      <3> QED
        BY <3>1, <3>2, <3>3, <3>4 DEF KeepInv, Windows
    <2> QED
      BY <2>5, <2>6 DEF KeepInv
  <1> QED
    BY <1>4, <1>5

LEMMA VforkKeeps ==
    ASSUME KeepInv, ~Background, NEW p \in Users, NEW c \in Users, Vfork(p, c), ClaimInv'
    PROVE  KeepInv'
  <1>1. /\ state[p] = "LIVE" /\ state[c] = "FREE" /\ p # c
        /\ LiveChildren(p) = {} /\ state[ppid[p]] # "VFORK"
        /\ state' = [state EXCEPT ![c] = "LIVE", ![p] = "VFORK"]
        /\ ppid' = [ppid EXCEPT ![c] = p]
        /\ mem_base' = [mem_base EXCEPT ![c] = 0]
        /\ mem_size' = [mem_size EXCEPT ![c] = 0]
        /\ image' = [image EXCEPT ![c] = image[p]]
        /\ homeless' = IF p \in homeless THEN homeless \cup {c} ELSE homeless
    BY DEF Vfork, ChildBase
  <1>2. ClaimInv
    BY DEF KeepInv
  <1>3. /\ state'[c] = "LIVE" /\ ppid'[c] = p /\ mem_base'[c] = 0 /\ image'[c] = image[p]
        /\ state'[p] = "VFORK"
    BY <1>1, <1>2, ClaimTypes
  <1>4. \A q \in Procs : q # c =>
           /\ ppid'[q] = ppid[q] /\ mem_base'[q] = mem_base[q]
           /\ mem_size'[q] = mem_size[q] /\ image'[q] = image[q]
           /\ (q # p => state'[q] = state[q])
    BY <1>1, <1>2, ClaimTypes
  <1>5. Live' = Live \cup {c} /\ c \notin Live /\ p \in Live /\ Live \subseteq Procs
    BY <1>1, <1>2, <1>3, <1>4, ClaimTypes DEF Live
  <1>6. \A q \in Live : ppid[q] # p
    BY <1>1 DEF LiveChildren, Live
  <1>7. ProgramsKeepMemory'
    <2> SUFFICES ASSUME NEW q \in Live', q \notin homeless'
                 PROVE  /\ image'[q] = RegionOf(IF mem_base[q] # 0 THEN q ELSE ppid[q])'
                        /\ mem_base'[q] = 0 => state'[ppid'[q]] = "VFORK"
      BY DEF ProgramsKeepMemory
    <2>1. CASE q = c
      <3>1. p \notin homeless
        BY <2>1, <1>1
      <3>2. mem_base[p] # 0 /\ image[p] = RegionOf(p)
        BY <3>1, <1>1, <1>5, KeepFacts
      <3>3. RegionOf(p)' = RegionOf(p)
        BY <1>1, <1>4, <1>5 DEF RegionOf
      <3> QED
        BY <2>1, <3>2, <3>3, <1>3
    <2>2. CASE q # c
      <3>1. q \in Live /\ q \notin homeless /\ q \in Procs
        BY <2>2, <1>1, <1>5
      <3>2. mem_base[q] = 0 => /\ ppid[q] # c /\ ppid[q] \in Procs /\ ppid[q] # p
                               /\ state[ppid[q]] = "VFORK"
        BY <3>1, <1>1, <1>6, KeepFacts
      <3> QED
        BY <2>2, <3>1, <3>2, <1>4, Kept
    <2> QED
      BY <2>1, <2>2
  <1>8. Windows'
    <2> SUFFICES ASSUME NEW q \in Live', state'[ppid'[q]] = "VFORK"
                 PROVE  /\ state'[q] = "LIVE"
                        /\ \A r \in Live' : ppid'[r] = ppid'[q] => r = q
      BY DEF Windows
    <2>1. CASE q = c
      <3>1. \A r \in Live' : r # c => ppid'[r] = ppid[r] /\ ppid[r] # p
        BY <1>4, <1>5, <1>6
      <3> QED
        BY <2>1, <3>1, <1>3
    <2>2. CASE q # c
      <3>1. q \in Live /\ ppid'[q] = ppid[q] /\ ppid[q] # p /\ ppid[q] \in Procs
        BY <2>2, <1>2, <1>4, <1>5, <1>6, ClaimTypes
      <3>2. ppid[q] # c /\ state[ppid[q]] = "VFORK"
        BY <3>1, <1>3, <1>4
      <3>3. q # p
        BY <3>2, <1>1
      <3>4. \A r \in Live' : ppid'[r] = ppid[q] => r \in Live /\ ppid[r] = ppid[q]
        BY <3>1, <1>3, <1>4, <1>5
      <3> QED
        BY <3>1, <3>2, <3>3, <3>4, <1>4, <1>5, <2>2 DEF KeepInv, Windows
    <2> QED
      BY <2>1, <2>2
  <1> QED
    BY <1>7, <1>8 DEF KeepInv

LEMMA GiveUpKeeps ==
    ASSUME KeepInv, NEW p \in Users, NEW size \in Nat, GiveUp(p, size), state[p] = "LIVE",
           UNCHANGED <<state, ppid, image>>, ClaimInv'
    PROVE  KeepInv'
  <1>1. /\ mem_base' = [mem_base EXCEPT ![p] = 0]
        /\ mem_size' = [mem_size EXCEPT ![p] = size]
        /\ homeless' = IF mem_base[p] # 0 THEN homeless \cup {p} ELSE homeless
    BY DEF GiveUp
  <1>2. ClaimInv
    BY DEF KeepInv
  <1>3. \A q \in Procs : q # p => mem_base'[q] = mem_base[q] /\ mem_size'[q] = mem_size[q]
    BY <1>1, <1>2, ClaimTypes
  <1>4. Live' = Live /\ Live \subseteq Procs
    BY <1>2, ClaimTypes DEF Live
  <1>5. ProgramsKeepMemory'
    <2> SUFFICES ASSUME NEW q \in Live', q \notin homeless'
                 PROVE  /\ image'[q] = RegionOf(IF mem_base[q] # 0 THEN q ELSE ppid[q])'
                        /\ mem_base'[q] = 0 => state'[ppid'[q]] = "VFORK"
      BY DEF ProgramsKeepMemory
    <2>1. q \in Live /\ q \notin homeless /\ q \in Procs
      BY <1>1, <1>4
    <2>2. mem_base[q] = 0 => /\ image[q] = RegionOf(ppid[q]) /\ state[ppid[q]] = "VFORK"
                             /\ ppid[q] \in Procs /\ ppid[q] # p
      BY <2>1, KeepFacts
    <2>3. CASE q = p
      <3>1. mem_base[p] = 0 /\ mem_base'[p] = 0
        BY <2>3, <1>1, <1>2, ClaimTypes
      <3>2. RegionOf(ppid[p])' = RegionOf(ppid[p])
        BY <3>1, <2>2, <2>3, <1>3 DEF RegionOf
      <3> QED
        BY <2>2, <2>3, <3>1, <3>2
    <2>4. CASE q # p
      BY <2>1, <2>2, <2>4, <1>3, Kept
    <2> QED
      BY <2>3, <2>4
  <1>6. Windows'
    BY <1>4 DEF KeepInv, Windows
  <1> QED
    BY <1>5, <1>6 DEF KeepInv

LEMMA EnterKeeps ==
    ASSUME KeepInv, NEW p \in Users, NEW l, Enter(p, l), state[p] = "LIVE", ppid' = ppid,
           l.base # 0, ClaimInv'
    PROVE  KeepInv'
  <1>1. /\ mem_base' = [mem_base EXCEPT ![p] = l.base]
        /\ mem_size' = [mem_size EXCEPT ![p] = l.size]
        /\ image' = [image EXCEPT ![p] = Region(l.base, l.size)]
        /\ homeless' = homeless \ {p}
    BY DEF Enter
  <1>2. state' = IF state[ppid[p]] = "VFORK" THEN [state EXCEPT ![ppid[p]] = "LIVE"] ELSE state
    BY DEF Enter
  <1>3. ClaimInv
    BY DEF KeepInv
  <1>4. /\ mem_base'[p] = l.base /\ mem_size'[p] = l.size
        /\ image'[p] = Region(l.base, l.size)
        /\ \A q \in Procs : q # p => /\ mem_base'[q] = mem_base[q]
                                     /\ mem_size'[q] = mem_size[q]
                                     /\ image'[q] = image[q]
    BY <1>1, <1>3, ClaimTypes
  <1>5. Live' = Live /\ Live \subseteq Procs /\ p \in Live
    BY <1>2, <1>3, ClaimTypes DEF Live
  <1>6. \A q \in Procs : state'[q] = "VFORK" => state[q] = "VFORK"
    BY <1>2, <1>3, ClaimTypes
  <1>7. \A q \in Live : q # p /\ state[ppid[q]] = "VFORK" =>
           ppid[q] \in Procs /\ ppid[q] # p /\ state'[ppid[q]] = "VFORK"
    <2> SUFFICES ASSUME NEW q \in Live, q # p, state[ppid[q]] = "VFORK"
                 PROVE  ppid[q] \in Procs /\ ppid[q] # p /\ state'[ppid[q]] = "VFORK"
      OBVIOUS
    <2>1. ppid[q] # ppid[p]
      BY <1>5 DEF KeepInv, Windows
    <2> QED
      BY <2>1, <1>2, <1>3, <1>5, ClaimTypes
  <1>8. ProgramsKeepMemory'
    <2> SUFFICES ASSUME NEW q \in Live', q \notin homeless'
                 PROVE  /\ image'[q] = RegionOf(IF mem_base[q] # 0 THEN q ELSE ppid[q])'
                        /\ mem_base'[q] = 0 => state'[ppid'[q]] = "VFORK"
      BY DEF ProgramsKeepMemory
    <2>1. CASE q = p
      BY <2>1, <1>4 DEF RegionOf
    <2>2. CASE q # p
      <3>1. q \in Live /\ q \notin homeless /\ q \in Procs
        BY <2>2, <1>1, <1>5
      <3>2. mem_base[q] = 0 => state[ppid[q]] = "VFORK"
        BY <3>1, KeepFacts
      <3> QED
        BY <3>1, <3>2, <2>2, <1>4, <1>7, Kept
    <2> QED
      BY <2>1, <2>2
  <1>9. Windows'
    <2> SUFFICES ASSUME NEW q \in Live', state'[ppid'[q]] = "VFORK"
                 PROVE  /\ state'[q] = "LIVE"
                        /\ \A r \in Live' : ppid'[r] = ppid'[q] => r = q
      BY DEF Windows
    <2>1. q \in Live /\ ppid[q] \in Procs
      BY <1>3, <1>5, ClaimTypes
    <2>2. state[ppid[q]] = "VFORK"
      BY <2>1, <1>6
    <2>3. state[q] = "LIVE" /\ \A r \in Live : ppid[r] = ppid[q] => r = q
      BY <2>1, <2>2 DEF KeepInv, Windows
    <2>4. state'[q] = "LIVE"
      BY <2>1, <2>3, <1>2, <1>3, <1>5, ClaimTypes
    <2> QED
      BY <2>3, <2>4, <1>5
  <1> QED
    BY <1>8, <1>9 DEF KeepInv

LEMMA ExecKeeps ==
    ASSUME KeepInv, NEW p \in Users, NEW g \in Programs, NEW args \in Args,
           Exec(p, g, args), ClaimInv'
    PROVE  KeepInv'
  <1> DEFINE base == umem_alloc(Claims, FirstNeed(g))
  <1>1. PICK l \in Loads(g, Claims \ {p}, base, args) :
            IF l.ok THEN Enter(p, l)
            ELSE /\ GiveUp(p, IF l.base = 0 THEN l.size ELSE 0)
                 /\ UNCHANGED <<state, brk, exec_active, image>>
    BY DEF Exec
  <1>2. base # 0 /\ ppid' = ppid /\ state[p] = "LIVE"
    BY DEF Exec
  <1>3. Claimed
    BY DEF KeepInv, ClaimInv
  <1>4. Laid(Claims \ {p}) /\ Span(Claims \ {p}, base, FirstNeed(g))
    BY <1>2, <1>3, FirstRegion
  <1>5. l.ok \in BOOLEAN /\ l.size \in Nat /\ (l.ok => l.base # 0)
    BY <1>2, <1>4, LoadClaims
  <1>6. CASE l.ok
    BY <1>1, <1>2, <1>5, <1>6, EnterKeeps
  <1>7. CASE ~l.ok
    <2>1. (IF l.base = 0 THEN l.size ELSE 0) \in Nat
      BY <1>5
    <2> QED
      BY <1>1, <1>2, <1>7, <2>1, GiveUpKeeps
  <1> QED
    BY <1>5, <1>6, <1>7

LEMMA ExitKeeps ==
    ASSUME KeepInv, NEW p \in Users, ExitProcess(p), ClaimInv'
    PROVE  KeepInv'
  <1>1. /\ state[p] = "LIVE"
        /\ mem_base' = [mem_base EXCEPT ![p] = 0]
        /\ mem_size' = [mem_size EXCEPT ![p] = 0]
        /\ image' = [image EXCEPT ![p] = {}]
        /\ homeless' = homeless \ {p}
    BY DEF ExitProcess
  <1>2. /\ state' = [state EXCEPT ![p] = "ZOMBIE",
                                  ![ppid[p]] = IF @ = "VFORK" THEN "LIVE" ELSE @]
        /\ ppid' = [q \in Procs |->
                       IF state[q] # "FREE" /\ ppid[q] = p THEN Kernel ELSE ppid[q]]
    BY DEF ExitProcess
  <1>3. ClaimInv
    BY DEF KeepInv
  <1>4. \A q \in Procs : q # p => /\ mem_base'[q] = mem_base[q]
                                  /\ mem_size'[q] = mem_size[q]
                                  /\ image'[q] = image[q]
    BY <1>1, <1>3, ClaimTypes
  <1>5. /\ state'[p] = "ZOMBIE"
        /\ \A q \in Procs : q # p =>
              state'[q] = IF q = ppid[p] /\ state[q] = "VFORK" THEN "LIVE" ELSE state[q]
    BY <1>1, <1>2, <1>3, ClaimTypes
  <1>6. Live' = Live \ {p} /\ Live \subseteq Procs /\ p \in Live
    BY <1>1, <1>3, <1>5, ClaimTypes DEF Live
  <1>7. ASSUME NEW q \in Live, q # p, state[ppid[q]] = "VFORK"
        PROVE  /\ ppid[q] \in Procs /\ ppid[q] # p
               /\ ppid'[q] = ppid[q] /\ state'[ppid[q]] = "VFORK"
    <2>1. ppid[q] # ppid[p]
      BY <1>6, <1>7 DEF KeepInv, Windows
    <2>2. ppid[q] \in Procs /\ ppid[q] # p /\ q \in Procs
      BY <1>1, <1>3, <1>6, <1>7, ClaimTypes
    <2> QED
      BY <2>1, <2>2, <1>2, <1>5, <1>7
  <1>8. ProgramsKeepMemory'
    <2> SUFFICES ASSUME NEW q \in Live', q \notin homeless'
                 PROVE  /\ image'[q] = RegionOf(IF mem_base[q] # 0 THEN q ELSE ppid[q])'
                        /\ mem_base'[q] = 0 => state'[ppid'[q]] = "VFORK"
      BY DEF ProgramsKeepMemory
    <2>1. q \in Live /\ q # p /\ q \notin homeless /\ q \in Procs
      BY <1>1, <1>6
    <2>2. mem_base[q] = 0 => state[ppid[q]] = "VFORK"
      BY <2>1, KeepFacts
    <2> QED
      BY <2>1, <2>2, <1>4, <1>7, Kept
  <1>9. Windows'
    <2> SUFFICES ASSUME NEW q \in Live', state'[ppid'[q]] = "VFORK"
                 PROVE  /\ state'[q] = "LIVE"
                        /\ \A r \in Live' : ppid'[r] = ppid'[q] => r = q
      BY DEF Windows
    <2>1. q \in Live /\ q # p /\ q \in Procs /\ ppid[q] \in Procs
      BY <1>3, <1>6, ClaimTypes
    <2>2. ppid'[q] # Kernel
      BY <1>3, ClaimTypes DEF ClaimInv, Claimed
    <2>3. ppid'[q] = ppid[q] /\ ppid[q] # p
      BY <2>1, <2>2, <1>2, <1>5
    <2>4. state[ppid[q]] = "VFORK"
      BY <2>1, <2>3, <1>5
    <2>5. state[q] = "LIVE" /\ \A r \in Live : ppid[r] = ppid[q] => r = q
      BY <2>1, <2>4 DEF KeepInv, Windows
    <2>6. state'[q] = "LIVE"
      BY <2>1, <2>5, <1>5
    <2>7. \A r \in Live' : ppid'[r] = ppid'[q] => ppid[r] = ppid[q] /\ r \in Live
      BY <2>2, <2>3, <1>2, <1>6
    <2> QED
      BY <2>5, <2>6, <2>7
  <1> QED
    BY <1>8, <1>9 DEF KeepInv

LEMMA ReapKeeps ==
    ASSUME KeepInv, NEW z \in Users, Reap(z), ClaimInv'
    PROVE  KeepInv'
  <1>1. /\ state[z] = "ZOMBIE" /\ state' = [state EXCEPT ![z] = "FREE"]
        /\ UNCHANGED <<ppid, mem_base, mem_size, image, homeless>>
    BY DEF Reap
  <1>2. ClaimInv
    BY DEF KeepInv
  <1>3. Live' = Live /\ \A q \in Procs : (state'[q] = "VFORK") <=> (state[q] = "VFORK")
    BY <1>1, <1>2, ClaimTypes DEF Live
  <1>4. ProgramsKeepMemory'
    <2> SUFFICES ASSUME NEW q \in Live', q \notin homeless'
                 PROVE  /\ image'[q] = RegionOf(IF mem_base[q] # 0 THEN q ELSE ppid[q])'
                        /\ mem_base'[q] = 0 => state'[ppid'[q]] = "VFORK"
      BY DEF ProgramsKeepMemory
    <2>1. q \in Live /\ q \notin homeless
      BY <1>1, <1>3
    <2> QED
      BY <2>1, <1>1, <1>3, KeepFacts, Kept
  <1>5. Windows'
    <2> SUFFICES ASSUME NEW q \in Live', state'[ppid'[q]] = "VFORK"
                 PROVE  /\ state'[q] = "LIVE"
                        /\ \A r \in Live' : ppid'[r] = ppid'[q] => r = q
      BY DEF Windows
    <2>1. q \in Live /\ q \in Procs /\ ppid[q] \in Procs /\ ppid'[q] = ppid[q]
      BY <1>1, <1>2, <1>3, ClaimTypes DEF Live
    <2>2. state[ppid[q]] = "VFORK"
      BY <2>1, <1>3
    <2>3. state[q] = "LIVE" /\ \A r \in Live : ppid[r] = ppid[q] => r = q
      BY <2>1, <2>2 DEF KeepInv, Windows
    <2> QED
      BY <2>1, <2>3, <1>1, <1>2, <1>3, ClaimTypes
  <1> QED
    BY <1>4, <1>5 DEF KeepInv

LEMMA NextKeeps ==
    ASSUME ~Background
    PROVE  KeepInv /\ [Next]_vars => KeepInv'
  <1> SUFFICES ASSUME KeepInv, [Next]_vars PROVE KeepInv'
    OBVIOUS
  <1>1. ClaimInv'
    BY NextClaims DEF KeepInv
  <1>2. CASE UNCHANGED vars
    BY <1>1, <1>2, StutterKeeps DEF vars, table
  <1>3. CASE \E c \in Users, g \in Programs, args \in Args : Spawn(c, g, args)
    BY <1>1, <1>3, SpawnKeeps
  <1>4. CASE \E p, c \in Users : Vfork(p, c)
    BY <1>1, <1>4, VforkKeeps
  <1>5. CASE \E p \in Users, g \in Programs, args \in Args : Exec(p, g, args)
    BY <1>1, <1>5, ExecKeeps
  <1>6. CASE \E p \in Users : ExitProcess(p)
    BY <1>1, <1>6, ExitKeeps
  <1>7. CASE \E p \in Users : ExecLeave(p)
    <2>1. PICK p \in Users : ExecLeave(p)
      BY <1>7
    <2>2. GiveUp(p, 0) /\ state[p] = "LIVE" /\ UNCHANGED <<state, ppid, image>>
      BY <2>1 DEF ExecLeave
    <2> QED
      BY <1>1, <2>2, GiveUpKeeps
  <1>8. CASE \E p \in Users : Reap(p)
    BY <1>1, <1>8, ReapKeeps
  <1>9. CASE \E p \in Users, incr \in Increments : Sbrk(p, incr)
    BY <1>1, <1>9, StutterKeeps DEF Sbrk
  <1> QED
    BY <1>2, <1>3, <1>4, <1>5, <1>6, <1>7, <1>8, <1>9 DEF Next

LEMMA AlwaysKeeps ==
    ASSUME ~Background
    PROVE  Spec => []KeepInv
  BY InitKeeps, NextKeeps, PTL DEF Spec

\* While every process vforks one child at a time, a program that has not lost
\* its memory to an exec in place runs in a region of the table: its own, or its
\* frozen parent's (do_vfork(), proc.c:533).
THEOREM MemoryKept ==
    ASSUME ~Background
    PROVE  Spec => []ProgramsKeepMemory
  <1>1. KeepInv => ProgramsKeepMemory
    BY DEF KeepInv
  <1> QED
    BY <1>1, AlwaysKeeps, PTL

(***************************************************************************)
(* What is written or handed out is nobody else's                          *)
(***************************************************************************)

Private ==
    \A q \in (Live' \ homeless') \ {touched'.by} :
        \/ touched'.bytes \cap image'[q] = {}
        \/ state'[q] = "VFORK" /\ ppid'[touched'.by] = q
             /\ mem_base'[touched'.by] = 0 /\ brk'[q] # brk[q]

\* A program that has its memory executes in what somebody claims, but not in
\* what a running process other than itself does.
LEMMA Home ==
    ASSUME KeepInv, NEW p, state[p] # "VFORK", NEW q \in Live, q \notin homeless, q # p
    PROVE  image[q] = {} \/ \E r \in Claims \ {p} :
                               image[q] = Region(mem_base[r], mem_size[r])
  <1>1. ClaimInv
    BY DEF KeepInv
  <1>2. CASE mem_base[q] # 0
    <2>1. q \in Claims \ {p} /\ image[q] = Region(mem_base[q], mem_size[q])
      BY <1>1, <1>2, KeepFacts, ClaimTypes DEF Claims, Live, RegionOf
    <2> QED
      BY <2>1
  <1>3. CASE mem_base[q] = 0
    <2>1. image[q] = RegionOf(ppid[q]) /\ state[ppid[q]] = "VFORK" /\ ppid[q] \in Procs
      BY <1>3, KeepFacts
    <2>2. CASE mem_base[ppid[q]] = 0
      BY <2>1, <2>2 DEF RegionOf
    <2>3. CASE mem_base[ppid[q]] # 0
      <3>1. ppid[q] \in Claims \ {p}
        BY <2>1, <2>3 DEF Claims
      <3>2. image[q] = Region(mem_base[ppid[q]], mem_size[ppid[q]])
        BY <2>1, <2>3 DEF RegionOf
      <3> QED
        BY <3>1, <3>2
    <2> QED
      BY <2>2, <2>3
  <1> QED
    BY <1>2, <1>3

\* A load on behalf of p writes into nobody else's memory.
LEMMA LoadPrivate ==
    ASSUME KeepInv, RelocsFit, NEW p, state[p] # "VFORK", NEW g \in Programs,
           NEW args \in Args,
           NEW base, base = umem_alloc(Claims, FirstNeed(g)), base # 0,
           NEW l \in Loads(g, Claims \ {p}, base, args),
           NEW q \in Live, q \notin homeless, q # p
    PROVE  l.bytes \cap image[q] = {}
  <1>1. Claimed
    BY DEF KeepInv, ClaimInv
  <1>2. Laid(Claims \ {p}) /\ Span(Claims \ {p}, base, FirstNeed(g))
    BY <1>1, FirstRegion
  <1>3. \A x \in l.bytes : \A r \in Claims \ {p} : x \notin Region(mem_base[r], mem_size[r])
    BY <1>2, LoadBytes
  <1> QED
    BY <1>3, Home

LEMMA SpawnPrivate ==
    ASSUME KeepInv, RelocsFit, NEW c \in Users, NEW g \in Programs, NEW args \in Args,
           Spawn(c, g, args)
    PROVE  Private
  <1> DEFINE base == umem_alloc(Claims, FirstNeed(g))
  <1>1. PICK l \in Loads(g, Claims, base, args) :
            /\ touched' = [by |-> c, bytes |-> l.bytes]
            /\ IF l.ok
               THEN /\ state' = [state EXCEPT ![c] = "LIVE"]
                    /\ image' = [image EXCEPT ![c] = Region(l.base, l.size)]
               ELSE UNCHANGED <<state, image>>
    BY DEF Spawn
  <1>2. base # 0 /\ homeless' = homeless /\ state[c] = "FREE" /\ Claims \ {c} = Claims
    BY DEF Spawn, Claims
  <1>3. ClaimInv
    BY DEF KeepInv
  <1> SUFFICES ASSUME NEW q \in Live', q \notin homeless', q # c
               PROVE  l.bytes \cap image'[q] = {}
    BY <1>1 DEF Private
  <1>4. q \in Live /\ q \notin homeless /\ q \in Procs
    BY <1>1, <1>2, <1>3, ClaimTypes DEF Live
  <1>5. image'[q] = image[q]
    BY <1>1, <1>3, <1>4, ClaimTypes
  <1>6. l \in Loads(g, Claims \ {c}, base, args)
    BY <1>1, <1>2
  <1> HIDE DEF base
  <1>7. l.bytes \cap image[q] = {}
    BY <1>2, <1>4, <1>6, LoadPrivate DEF base
  <1> QED
    BY <1>5, <1>7

LEMMA ExecPrivate ==
    ASSUME KeepInv, RelocsFit, NEW p \in Users, NEW g \in Programs, NEW args \in Args,
           Exec(p, g, args)
    PROVE  Private
  <1> DEFINE base == umem_alloc(Claims, FirstNeed(g))
  <1>1. PICK l \in Loads(g, Claims \ {p}, base, args) :
            /\ touched' = [by |-> p, bytes |-> l.bytes]
            /\ IF l.ok THEN Enter(p, l)
               ELSE /\ GiveUp(p, IF l.base = 0 THEN l.size ELSE 0)
                    /\ UNCHANGED <<state, brk, exec_active, image>>
    BY DEF Exec
  <1>2. base # 0 /\ state[p] = "LIVE"
    BY DEF Exec
  <1>3. ClaimInv
    BY DEF KeepInv
  <1> SUFFICES ASSUME NEW q \in Live', q \notin homeless', q # p
               PROVE  l.bytes \cap image'[q] = {}
    BY <1>1 DEF Private
  <1>4. q \in Live /\ q \in Procs
    BY <1>1, <1>3, ClaimTypes DEF Live, Enter
  <1>5. q \notin homeless
    BY <1>1 DEF Enter, GiveUp
  <1>6. image'[q] = image[q]
    BY <1>1, <1>3, <1>4, ClaimTypes DEF Enter
  <1> HIDE DEF base
  <1>7. l.bytes \cap image[q] = {}
    BY <1>1, <1>2, <1>4, <1>5, LoadPrivate DEF base
  <1> QED
    BY <1>6, <1>7

LEMMA BelowStack ==
    ASSUME NEW from \in Int, NEW to \in Int, NEW base \in Nat, NEW size \in Nat,
           base <= from, to <= base + size - STACK
    PROVE  from..(to - 1) \subseteq Region(base, size)
  BY SizesAssumption DEF Region

LEMMA SbrkPrivate ==
    ASSUME KeepInv, NEW p \in Users, NEW incr \in Increments, Sbrk(p, incr)
    PROVE  Private
  <1> DEFINE o == BreakOwner(p)
             new == brk[o] + incr
  <1>1. /\ state[p] = "LIVE"
        /\ mem_base[o] # 0 /\ new <= mem_base[o] + mem_size[o] - STACK
        /\ brk' = [brk EXCEPT ![o] = new]
        /\ touched' = [by |-> p, bytes |-> brk[o]..(new - 1)]
        /\ UNCHANGED <<state, ppid, mem_base, image, homeless>>
    BY DEF Sbrk, BreakLimit
  <1>2. ClaimInv /\ Claimed /\ TypeOK
    BY DEF KeepInv, ClaimInv
  <1>3. o \in Procs /\ p \in Live /\ p \in Procs
    BY <1>1, <1>2, ClaimTypes DEF BreakOwner, Live
  <1>4. /\ brk[o] \in Nat /\ mem_base[o] \in Nat /\ mem_size[o] \in Nat /\ incr \in Int
        /\ mem_base[o] <= brk[o]
    BY <1>1, <1>2, <1>3, ClaimTypes, SizesAssumption DEF TypeOK
  <1> SUFFICES ASSUME NEW q \in Live, q \notin homeless, q # p
               PROVE  \/ (brk[o]..(new - 1)) \cap image[q] = {}
                      \/ /\ state[q] = "VFORK" /\ ppid[p] = q /\ mem_base[p] = 0
                         /\ brk'[q] # brk[q]
    BY <1>1 DEF Private, Live
  <1>5. brk[o]..(new - 1) \subseteq Region(mem_base[o], mem_size[o])
    <2>1. PICK to \in Int : to = new
      BY <1>4
    <2> HIDE DEF new, o
    <2>2. PICK from \in Nat, base \in Nat, size \in Nat :
              from = brk[o] /\ base = mem_base[o] /\ size = mem_size[o]
      BY <1>4
    <2>3. base <= from /\ to <= base + size - STACK
      BY <1>1, <1>4, <2>1, <2>2
    <2>4. from..(to - 1) \subseteq Region(base, size)
      BY <2>3, BelowStack
    <2> QED
      BY <2>1, <2>2, <2>4
  <1>6. \A r \in Procs \ {o} : RegionOf(r) \cap Region(mem_base[o], mem_size[o]) = {}
    <2>1. RegionOf(o) = Region(mem_base[o], mem_size[o])
      BY <1>1 DEF RegionOf
    <2>2. \A r \in Procs \ {o} : RegionOf(r) \cap RegionOf(o) = {}
      BY <1>2, <1>3, ClaimsDisjoint DEF RegionsDisjoint
    <2> QED
      BY <2>1, <2>2
  <1>7. \/ o = p
        \/ o = ppid[p] /\ mem_base[p] = 0 /\ state[o] = "VFORK"
    BY DEF BreakOwner
  <1>8. q \in Procs /\ ppid[q] \in Procs
    BY <1>2, ClaimTypes DEF Live
  <1> HIDE DEF o
  <1>9. CASE mem_base[q] # 0 /\ q # o
    BY <1>5, <1>6, <1>8, <1>9, KeepFacts
  <1>10. CASE mem_base[q] = 0 /\ ppid[q] # o
    BY <1>5, <1>6, <1>8, <1>10, KeepFacts
  <1>11. CASE mem_base[q] = 0 /\ ppid[q] = o
    <2>1. state[o] = "VFORK"
      BY <1>11, KeepFacts
    <2>2. ppid[p] = o
      BY <1>1, <1>7, <2>1
    <2> QED
      BY <1>3, <1>11, <2>1, <2>2 DEF KeepInv, Windows
  <1>12. CASE q = o
    <2>1. ppid[p] = q /\ mem_base[p] = 0 /\ state[q] = "VFORK"
      BY <1>7, <1>12
    <2>2. CASE incr = 0
      <3>1. brk[o]..(new - 1) = {}
        BY <2>2, <1>4
      <3> QED
        BY <3>1
    <2>3. CASE incr # 0
      <3>1. brk'[q] = brk[q] + incr
        BY <1>1, <1>2, <1>3, <1>12, ClaimTypes
      <3>2. brk'[q] # brk[q]
        BY <3>1, <2>3, <1>4, <1>12
      <3> QED
        BY <2>1, <3>2
    <2> QED
      BY <2>2, <2>3
  <1> QED
    BY <1>9, <1>10, <1>11, <1>12

LEMMA NextPrivate ==
    ASSUME RelocsFit
    PROVE  KeepInv /\ [Next]_vars => [Private]_vars
  <1> SUFFICES ASSUME KeepInv, Next PROVE Private
    OBVIOUS
  <1>1. CASE touched' = Untouched
    BY <1>1 DEF Private, Untouched
  <1>2. CASE \E c \in Users, g \in Programs, args \in Args : Spawn(c, g, args)
    BY <1>2, SpawnPrivate
  <1>3. CASE \E p, c \in Users : Vfork(p, c)
    BY <1>1, <1>3 DEF Vfork
  <1>4. CASE \E p \in Users, g \in Programs, args \in Args : Exec(p, g, args)
    BY <1>4, ExecPrivate
  <1>5. CASE \E p \in Users : ExitProcess(p) \/ ExecLeave(p) \/ Reap(p)
    BY <1>1, <1>5 DEF ExitProcess, ExecLeave, Reap
  <1>6. CASE \E p \in Users, incr \in Increments : Sbrk(p, incr)
    BY <1>6, SbrkPrivate
  <1> QED
    BY <1>2, <1>3, <1>4, <1>5, <1>6 DEF Next

\* What a loader writes (exec.c:314, exec.c:426), in loads that fail too, and what
\* sbrk() hands out (mem.c:88) is memory no other program executes in, but a
\* frozen parent whose break its child moves.  The table of relocations of a
\* program that runs from ROM must fit its region, as the need computed for it
\* does not count them (exec.c:49).
THEOREM MemoryPrivate ==
    ASSUME ~Background, RelocsFit
    PROVE  Spec => MemoryIsPrivate
  BY AlwaysKeeps, NextPrivate, PTL DEF Spec, MemoryIsPrivate, Private
=============================================================================
