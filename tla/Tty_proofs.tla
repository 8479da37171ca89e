---------------------------- MODULE Tty_proofs ----------------------------
(***************************************************************************)
(* Theorems about Tty, for every size of the ring, every set of processes  *)
(* and readers, and everything that is typed and set.                      *)
(***************************************************************************)
EXTENDS Tty, TLAPS, WellFoundedInduction, SequenceTheorems

-----------------------------------------------------------------------------
(* The loop over canon_buf.  Nothing is known of a recursive function until   *)
(* its defining equation has been shown to have a solution; both that and     *)
(* what the loop computes are shown by the least counterexample.              *)

LEMMA HasLeast ==
    ASSUME NEW S \in SUBSET Nat, S # {}
    PROVE  \E x \in S : \A y \in S : x <= y
<1>1. PICK x \in S : \A y \in S : ~ (<<y, x>> \in OpToRel(<, Nat))
  BY NatLessThanWellFounded, WFMin
<1>2. \A y \in S : ~ (y < x)
  BY <1>1 DEF OpToRel
<1>. QED BY <1>2

\* The equation that defines the fold of PutIfRoom over the first k characters
\* of b.
FoldEquation(f, t, b, k) ==
    f = [s \in SUBSET (1..k) |->
            IF s = {} THEN t ELSE PutIfRoom(f[s \ {Max(s)}], b[Max(s)])]

LEMMA MaxIsIn ==
    ASSUME NEW k \in Nat, NEW s \in SUBSET (1..k), s # {}
    PROVE  Max(s) \in s /\ \A y \in s : Max(s) >= y
<1> DEFINE above == {n \in Nat : \A y \in s : n >= y}
<1>1. k \in above /\ above \in SUBSET Nat
  OBVIOUS
<1>2. PICK x \in above : \A y \in above : x <= y
  BY <1>1, HasLeast
<1>3. x \in s
  <2> SUFFICES ASSUME x \notin s PROVE FALSE
    OBVIOUS
  <2>1. PICK y \in s : TRUE
    OBVIOUS
  <2>2. x \in Nat /\ \A z \in s : x >= z /\ x # z /\ z \in Nat /\ z >= 1
    BY <1>2
  <2>3. x - 1 \in above
    BY <2>2, <2>1
  <2> QED
    BY <1>2, <2>3, <2>2
<1> QED
  BY <1>2, <1>3 DEF Max

LEMMA FoldDefined ==
    ASSUME NEW t, NEW b, NEW n \in Nat
    PROVE  \E f : FoldEquation(f, t, b, n)
<1> DEFINE bad == {k \in Nat : ~ \E f : FoldEquation(f, t, b, k)}
<1> SUFFICES ASSUME bad # {} PROVE FALSE
  OBVIOUS
<1>1. PICK m \in bad : \A y \in bad : m <= y
  BY HasLeast
<1>2. m # 0
  <2>1. FoldEquation([s \in SUBSET (1..0) |-> t], t, b, 0)
    BY DEF FoldEquation
  <2> QED
    BY <2>1
<1>3. m - 1 \in Nat /\ m - 1 \notin bad
  BY <1>1, <1>2
<1>4. PICK f : FoldEquation(f, t, b, m - 1)
  BY <1>3
<1> DEFINE g == [s \in SUBSET (1..m) |->
                    IF s = {} THEN t
                    ELSE IF m \in s THEN PutIfRoom(f[s \ {m}], b[m]) ELSE f[s]]
           h == [s \in SUBSET (1..m) |->
                    IF s = {} THEN t ELSE PutIfRoom(g[s \ {Max(s)}], b[Max(s)])]
<1>5. ASSUME NEW s \in SUBSET (1..(m - 1))
      PROVE  f[s] = IF s = {} THEN t ELSE PutIfRoom(f[s \ {Max(s)}], b[Max(s)])
  BY <1>4 DEF FoldEquation
<1>6. ASSUME NEW s \in SUBSET (1..m), m \notin s
      PROVE  s \in SUBSET (1..(m - 1)) /\ g[s] = f[s]
  <2>1. s \in SUBSET (1..(m - 1))
    BY <1>6, <1>2
  <2>2. s = {} => f[s] = t
    BY <2>1, <1>5
  <2>3. g[s] = IF s = {} THEN t
               ELSE IF m \in s THEN PutIfRoom(f[s \ {m}], b[m]) ELSE f[s]
    OBVIOUS
  <2> QED
    BY <2>1, <2>2, <2>3, <1>6
<1>7. ASSUME NEW s \in SUBSET (1..m), s # {}
      PROVE  g[s] = PutIfRoom(g[s \ {Max(s)}], b[Max(s)])
  <2>1. Max(s) \in s /\ \A y \in s : Max(s) >= y
    BY <1>7, MaxIsIn
  <2>2. CASE m \in s
    <3>1. Max(s) = m
      <4>1. Max(s) \in 1..m /\ Max(s) >= m /\ m \in Nat
        BY <2>1, <2>2
      <4> QED
        BY <4>1
    <3>2. g[s \ {m}] = f[s \ {m}]
      BY <1>6
    <3> QED
      BY <3>1, <3>2, <2>2, <1>7
  <2>3. CASE m \notin s
    <3>1. g[s] = f[s] /\ s \in SUBSET (1..(m - 1))
      BY <2>3, <1>6
    <3>2. g[s \ {Max(s)}] = f[s \ {Max(s)}]
      BY <2>3, <1>6
    <3> QED
      BY <3>1, <3>2, <1>5, <1>7
  <2> QED
    BY <2>2, <2>3
<1>8. g = h
  <2>1. \A s \in SUBSET (1..m) : g[s] = h[s]
    BY <1>7
  <2> QED
    BY <2>1
<1>9. FoldEquation(g, t, b, m)
  BY <1>8 DEF FoldEquation
<1> QED
  BY <1>9

\* What the loop of tty_inproc() over canon_buf has done after k turns.
LEMMA FoldIs ==
    ASSUME NEW t, NEW b \in Seq(Keys)
    PROVE  \E g : /\ g[0] = t
                  /\ \A k \in 1..Len(b) : g[k] = PutIfRoom(g[k - 1], b[k])
                  /\ FoldLeft(PutIfRoom, t, b) = g[Len(b)]
<1> DEFINE n == Len(b)
           f == CHOOSE f : FoldEquation(f, t, b, n)
           g == [k \in 0..n |-> f[1..k]]
<1>0. n \in Nat /\ DOMAIN b = 1..n
  OBVIOUS
<1>1. FoldEquation(f, t, b, n)
  BY <1>0, FoldDefined
<1>2. FoldLeft(PutIfRoom, t, b) = f[1..n]
  BY <1>0 DEF FoldLeft, MapThenFoldSet, FoldEquation
<1> HIDE DEF f
<1>3. ASSUME NEW s \in SUBSET (1..n)
      PROVE  f[s] = IF s = {} THEN t ELSE PutIfRoom(f[s \ {Max(s)}], b[Max(s)])
  BY <1>1 DEF FoldEquation
<1>4. g[0] = t
  <2>1. 1..0 = {} /\ {} \in SUBSET (1..n)
    OBVIOUS
  <2>2. f[{}] = t
    BY <2>1, <1>3
  <2> QED
    BY <1>0, <2>1, <2>2
<1>5. ASSUME NEW k \in 1..n
      PROVE  g[k] = PutIfRoom(g[k - 1], b[k])
  <2>1. 1..k \in SUBSET (1..n) /\ k \in 1..k /\ k \in Nat
    BY <1>0
  <2>2. Max(1..k) \in 1..k /\ Max(1..k) >= k
    BY <2>1, MaxIsIn
  <2>3. Max(1..k) = k
    BY <2>1, <2>2
  <2>4. (1..k) \ {k} = 1..(k - 1)
    BY <2>1
  <2>5. f[1..k] = PutIfRoom(f[1..(k - 1)], b[k])
    BY <2>1, <2>3, <2>4, <1>3
  <2> QED
    BY <2>5, <1>0
<1> QED
  <2>1. FoldLeft(PutIfRoom, t, b) = g[n]
    BY <1>0, <1>2
  <2> HIDE DEF g
  <2> QED
    BY <1>4, <1>5, <2>1

-----------------------------------------------------------------------------
(* The ring *)

LEMMA RingSize == TTY_BUFSZ \in Nat /\ TTY_BUFSZ >= 2
BY TtyAssumption

LEMMA DistanceIs ==
    ASSUME NEW h \in 0..(TTY_BUFSZ - 1), NEW k \in 0..(TTY_BUFSZ - 1)
    PROVE  /\ (h - k) % TTY_BUFSZ = IF h >= k THEN h - k ELSE h - k + TTY_BUFSZ
           /\ (h - k) % TTY_BUFSZ \in 0..(TTY_BUFSZ - 1)
<1>1. ASSUME NEW m \in Nat, m >= 2, h \in 0..(m - 1), k \in 0..(m - 1)
      PROVE  /\ (h - k) % m = IF h >= k THEN h - k ELSE h - k + m
             /\ (h - k) % m \in 0..(m - 1)
  <2>1. CASE h >= k
    BY <1>1, <2>1
  <2>2. CASE h < k
    BY <1>1, <2>2
  <2> QED
    BY <2>1, <2>2, <1>1
<1> QED
  BY <1>1, RingSize

LEMMA CountIs ==
    ASSUME NEW t \in Terminals
    PROVE  /\ inq_count(t) = IF t.head >= t.tail THEN t.head - t.tail
                             ELSE t.head - t.tail + TTY_BUFSZ
           /\ inq_count(t) \in 0..(TTY_BUFSZ - 1)
<1>1. t.head \in 0..(TTY_BUFSZ - 1) /\ t.tail \in 0..(TTY_BUFSZ - 1)
  BY DEF Terminals
<1> QED
  BY <1>1, DistanceIs DEF inq_count

LEMMA WrapIs ==
    ASSUME NEW k \in Nat, k < 2 * TTY_BUFSZ
    PROVE  /\ k % TTY_BUFSZ = IF k < TTY_BUFSZ THEN k ELSE k - TTY_BUFSZ
           /\ k % TTY_BUFSZ \in 0..(TTY_BUFSZ - 1)
BY RingSize

LEMMA StepIs ==
    ASSUME NEW h \in 0..(TTY_BUFSZ - 1)
    PROVE  /\ (h + 1) % TTY_BUFSZ = IF h + 1 < TTY_BUFSZ THEN h + 1 ELSE 0
           /\ (h + 1) % TTY_BUFSZ \in 0..(TTY_BUFSZ - 1)
<1>1. h + 1 \in Nat /\ h + 1 < 2 * TTY_BUFSZ /\ (h + 1 >= TTY_BUFSZ => h + 1 - TTY_BUFSZ = 0)
  BY RingSize
<1>2. PICK x \in Nat : x = h + 1
  BY <1>1
<1>3. /\ x % TTY_BUFSZ = IF x < TTY_BUFSZ THEN x ELSE x - TTY_BUFSZ
      /\ x % TTY_BUFSZ \in 0..(TTY_BUFSZ - 1)
  BY <1>1, <1>2, WrapIs
<1> QED
  BY <1>1, <1>2, <1>3, RingSize

\* Of the first n + 1 places from the tail k the last is the head h.
LEMMA PlaceIs ==
    ASSUME NEW h \in 0..(TTY_BUFSZ - 1), NEW k \in 0..(TTY_BUFSZ - 1), NEW n \in Nat,
           n = IF h >= k THEN h - k ELSE h - k + TTY_BUFSZ,
           NEW i \in 1..(n + 1)
    PROVE  /\ (k + i - 1) % TTY_BUFSZ \in 0..(TTY_BUFSZ - 1)
           /\ ((k + i - 1) % TTY_BUFSZ = h) <=> (i = n + 1)
<1>1. k + i - 1 \in Nat /\ k + i - 1 < 2 * TTY_BUFSZ
  BY RingSize
<1>2. PICK y \in Nat : y = k + i - 1
  BY <1>1
<1>4. /\ y % TTY_BUFSZ = IF y < TTY_BUFSZ THEN y ELSE y - TTY_BUFSZ
      /\ y % TTY_BUFSZ \in 0..(TTY_BUFSZ - 1)
  BY <1>1, <1>2, WrapIs
<1>3. ASSUME NEW x \in Int,
             x = IF k + i - 1 < TTY_BUFSZ THEN k + i - 1 ELSE k + i - 1 - TTY_BUFSZ
      PROVE  (x = h) <=> (i = n + 1)
  BY <1>3, RingSize
<1>5. ((y % TTY_BUFSZ) = h) <=> (i = n + 1)
  BY <1>2, <1>3, <1>4, RingSize
<1> QED
  BY <1>2, <1>4, <1>5

LEMMA RingIs ==
    ASSUME NEW t \in Terminals
    PROVE  /\ Ring(t) \in Seq(Keys) /\ Len(Ring(t)) = inq_count(t)
           /\ \A i \in 1..inq_count(t) : Ring(t)[i] = t.inq[(t.tail + i - 1) % TTY_BUFSZ]
           /\ inq_count(t) > 0 => Ring(t)[1] = t.inq[t.tail]
<1>1. inq_count(t) \in 0..(TTY_BUFSZ - 1) /\ inq_count(t) \in Nat
  BY CountIs, RingSize
<1>2. ASSUME NEW i \in 1..inq_count(t)
      PROVE  t.inq[(t.tail + i - 1) % TTY_BUFSZ] \in Keys
  <2>1. t.tail + i - 1 \in Nat /\ t.tail + i - 1 < 2 * TTY_BUFSZ
    BY <1>1, RingSize DEF Terminals
  <2> QED
    BY <2>1, WrapIs DEF Terminals
<1>3. Ring(t) \in [1..inq_count(t) -> Keys]
  BY <1>2 DEF Ring
<1>4. Ring(t) \in Seq(Keys) /\ Len(Ring(t)) = inq_count(t)
  BY <1>1, <1>3
<1>5. inq_count(t) > 0 => Ring(t)[1] = t.inq[(t.tail + 1 - 1) % TTY_BUFSZ]
  BY <1>1 DEF Ring
<1>6. (t.tail + 1 - 1) % TTY_BUFSZ = t.tail
  <2>1. t.tail \in Nat /\ t.tail + 1 - 1 = t.tail /\ t.tail < TTY_BUFSZ
    BY RingSize DEF Terminals
  <2> QED
    BY <2>1, RingSize, WrapIs
<1> QED
  BY <1>4, <1>5, <1>6 DEF Ring

\* n and m are the distances from k to h, which is not just before k, and to j, the
\* place after h.
Steps(h, k, j, n, m) ==
    /\ h \in 0..(TTY_BUFSZ - 1) /\ k \in 0..(TTY_BUFSZ - 1) /\ n \in 0..(TTY_BUFSZ - 2)
    /\ j = IF h + 1 < TTY_BUFSZ THEN h + 1 ELSE 0
    /\ n = IF h >= k THEN h - k ELSE h - k + TTY_BUFSZ
    /\ m = IF j >= k THEN j - k ELSE j - k + TTY_BUFSZ

LEMMA CountAfterPut ==
    ASSUME NEW h, NEW k, NEW j, NEW n, NEW m, Steps(h, k, j, n, m)
    PROVE  m = n + 1
<1>1. TTY_BUFSZ \in Nat /\ TTY_BUFSZ >= 2
  BY RingSize
<1>2. CASE h + 1 < TTY_BUFSZ
  BY <1>1, <1>2 DEF Steps
<1>3. CASE ~(h + 1 < TTY_BUFSZ)
  BY <1>1, <1>3 DEF Steps
<1> QED
  BY <1>2, <1>3

LEMMA PutFacts ==
    ASSUME NEW t \in Terminals, NEW c \in Keys, ~inq_full(t)
    PROVE  /\ inq_put(t, c) \in Terminals
           /\ inq_put(t, c).tail = t.tail /\ inq_put(t, c).mode = t.mode
           /\ inq_put(t, c).canon_buf = t.canon_buf /\ inq_put(t, c).ready = t.ready
           /\ inq_count(inq_put(t, c)) = inq_count(t) + 1
           /\ Ring(inq_put(t, c)) = Append(Ring(t), c)
<1> DEFINE u == inq_put(t, c)
           n == inq_count(t)
<1>0. n \in 0..(TTY_BUFSZ - 2) /\ n \in Nat
  BY CountIs, RingSize DEF inq_full
<1>1. /\ t.head \in 0..(TTY_BUFSZ - 1) /\ t.tail \in 0..(TTY_BUFSZ - 1)
      /\ t.inq \in [0..(TTY_BUFSZ - 1) -> Keys]
  BY DEF Terminals
<1>2. (t.head + 1) % TTY_BUFSZ = (IF t.head + 1 < TTY_BUFSZ THEN t.head + 1 ELSE 0)
      /\ (t.head + 1) % TTY_BUFSZ \in 0..(TTY_BUFSZ - 1)
  BY <1>1, StepIs
<1>3. /\ u \in Terminals /\ u.tail = t.tail /\ u.mode = t.mode
      /\ u.canon_buf = t.canon_buf /\ u.ready = t.ready
      /\ u.head = (t.head + 1) % TTY_BUFSZ
      /\ u.inq = [t.inq EXCEPT ![t.head] = c]
  BY <1>1, <1>2 DEF inq_put, Terminals
<1>4. inq_count(u) = n + 1
  <2>1. inq_count(u) = (IF u.head >= u.tail THEN u.head - u.tail
                        ELSE u.head - u.tail + TTY_BUFSZ)
    BY <1>3, CountIs
  <2>2. n = IF t.head >= t.tail THEN t.head - t.tail ELSE t.head - t.tail + TTY_BUFSZ
    BY CountIs
  <2>3. /\ u.head = IF t.head + 1 < TTY_BUFSZ THEN t.head + 1 ELSE 0
        /\ u.tail = t.tail
    BY <1>2, <1>3
  <2> HIDE DEF u, n
  <2>4. Steps(t.head, t.tail, u.head, n, inq_count(u))
    BY <2>1, <2>2, <2>3, <1>0, <1>1 DEF Steps
  <2> QED
    BY <2>4, CountAfterPut
<1>5. ASSUME NEW i \in 1..(n + 1)
      PROVE  Ring(u)[i] = IF i <= n THEN Ring(t)[i] ELSE c
  <2>1. n = IF t.head >= t.tail THEN t.head - t.tail ELSE t.head - t.tail + TTY_BUFSZ
    BY CountIs
  <2> DEFINE j == (t.tail + i - 1) % TTY_BUFSZ
  <2>2. j \in 0..(TTY_BUFSZ - 1) /\ (j = t.head <=> i = n + 1)
    <3> HIDE DEF n
    <3> QED
      BY <2>1, <1>0, <1>1, PlaceIs
  <2>3. Ring(u)[i] = u.inq[j]
    BY <1>3, <1>4, RingIs
  <2>4. i <= n => Ring(t)[i] = t.inq[j]
    BY <1>0, RingIs
  <2>5. i \in Nat /\ (i <= n <=> i # n + 1)
    <3> HIDE DEF n
    <3> QED
      BY <1>0
  <2> HIDE DEF u, n, j
  <2> QED
    BY <2>2, <2>3, <2>4, <2>5, <1>1, <1>3
<1>6. Ring(u) \in Seq(Keys) /\ Len(Ring(u)) = n + 1
  BY <1>3, <1>4, RingIs
<1>7. Ring(t) \in Seq(Keys) /\ Len(Ring(t)) = n
  BY RingIs
<1>8. /\ Append(Ring(t), c) \in Seq(Keys) /\ Len(Append(Ring(t), c)) = n + 1
      /\ \A i \in 1..(n + 1) : Append(Ring(t), c)[i] = IF i <= n THEN Ring(t)[i] ELSE c
  <2> HIDE DEF n
  <2> QED
    BY <1>7, <1>0, AppendProperties
<1>9. Ring(u) = Append(Ring(t), c)
  <2> HIDE DEF u, n
  <2> QED
    BY <1>5, <1>6, <1>8, <1>0, SeqEqual
<1> QED
  BY <1>3, <1>4, <1>9

-----------------------------------------------------------------------------
(* What a key does *)

LEMMA SameRing ==
    ASSUME NEW t, NEW u, u.inq = t.inq, u.head = t.head, u.tail = t.tail
    PROVE  inq_count(u) = inq_count(t) /\ Ring(u) = Ring(t)
<1>1. inq_count(u) = inq_count(t)
  BY DEF inq_count
<1> QED
  BY <1>1 DEF Ring

\* u is t with n more characters in the queue.
GrowsBy(t, u, n) ==
    /\ n \in 0..(TTY_BUFSZ - 1 - inq_count(t))
    /\ \E chars \in [1..n -> Keys] : Ring(u) = Ring(t) \o chars

Grows(t, u) ==
    /\ u \in Terminals
    /\ u.tail = t.tail /\ u.mode = t.mode
    /\ \E n \in Nat : GrowsBy(t, u, n)

LEMMA GrowsNot ==
    ASSUME NEW t \in Terminals, NEW u \in Terminals, u.mode = t.mode,
           u.inq = t.inq, u.head = t.head, u.tail = t.tail
    PROVE  Grows(t, u)
<1>1. Ring(u) = Ring(t) /\ Ring(t) \in Seq(Keys)
  BY SameRing, RingIs
<1>2. <<>> \in [1..0 -> Keys] /\ Ring(u) = Ring(t) \o <<>>
  BY <1>1, ConcatEmptySeq
<1>3. 0 \in 0..(TTY_BUFSZ - 1 - inq_count(t))
  BY CountIs, RingSize
<1>4. GrowsBy(t, u, 0)
  BY <1>2, <1>3 DEF GrowsBy
<1> QED
  BY <1>4 DEF Grows

LEMMA GrowsStep ==
    ASSUME NEW t \in Terminals, NEW u, Grows(t, u), NEW c \in Keys
    PROVE  Grows(t, PutIfRoom(u, c))
<1>1. CASE inq_full(u)
  BY <1>1 DEF PutIfRoom
<1>2. CASE ~inq_full(u)
  <2> DEFINE v == inq_put(u, c)
  <2>1. PICK n \in Nat : GrowsBy(t, u, n)
    BY DEF Grows
  <2>2. PICK chars \in [1..n -> Keys] : Ring(u) = Ring(t) \o chars
    BY <2>1 DEF GrowsBy
  <2>3. u \in Terminals /\ u.tail = t.tail /\ u.mode = t.mode
    BY DEF Grows
  <2>4. /\ v \in Terminals /\ v.tail = u.tail /\ v.mode = u.mode
        /\ Ring(v) = Append(Ring(u), c)
    BY <1>2, <2>3, PutFacts
  <2>5. Ring(t) \in Seq(Keys) /\ chars \in Seq(Keys) /\ Len(chars) = n
        /\ Len(Ring(t)) = inq_count(t) /\ Len(Ring(u)) = inq_count(u)
    <3>1. chars \in Seq(Keys) /\ Len(chars) = n
      OBVIOUS
    <3> QED
      BY <3>1, <2>3, RingIs
  <2>6. /\ Append(chars, c) \in [1..(n + 1) -> Keys]
        /\ Append(Ring(t) \o chars, c) = Ring(t) \o Append(chars, c)
    <3>1. Append(chars, c) \in Seq(Keys) /\ Len(Append(chars, c)) = n + 1
      BY <2>5, AppendProperties
    <3>2. Append(chars, c) \in [1..(n + 1) -> Keys]
      BY <3>1, LenProperties
    <3>3. Append(Ring(t) \o chars, c) = Ring(t) \o Append(chars, c)
      BY <2>5
    <3> QED
      BY <3>2, <3>3
  <2>7. n + 1 \in 0..(TTY_BUFSZ - 1 - inq_count(t))
    <3>1. inq_count(u) = inq_count(t) + n
      BY <2>2, <2>5, ConcatProperties
    <3>2. inq_count(u) \in 0..(TTY_BUFSZ - 1) /\ inq_count(u) # TTY_BUFSZ - 1
      BY <1>2, <2>3, CountIs DEF inq_full
    <3>3. inq_count(t) \in 0..(TTY_BUFSZ - 1)
      BY CountIs
    <3> QED
      BY <3>1, <3>2, <3>3, RingSize
  <2>8. GrowsBy(t, v, n + 1)
    BY <2>2, <2>4, <2>6, <2>7 DEF GrowsBy
  <2> QED
    BY <1>2, <2>3, <2>4, <2>8 DEF Grows, PutIfRoom
<1> QED
  BY <1>1, <1>2

\* The loop over canon_buf fills the queue with the line, or the part of it for
\* which there is room.
LEMMA FoldGrows ==
    ASSUME NEW t \in Terminals
    PROVE  Grows(t, FoldLeft(PutIfRoom, t, t.canon_buf))
<1> DEFINE b == t.canon_buf
<1>0. b \in Seq(Keys) /\ Len(b) \in Nat
  BY DEF Terminals
<1>1. PICK g : /\ g[0] = t
               /\ \A k \in 1..Len(b) : g[k] = PutIfRoom(g[k - 1], b[k])
               /\ FoldLeft(PutIfRoom, t, b) = g[Len(b)]
  BY <1>0, FoldIs
<1> DEFINE bad == {k \in 0..Len(b) : ~Grows(t, g[k])}
<1>2. ASSUME bad # {} PROVE FALSE
  <2>1. bad \in SUBSET Nat
    BY <1>0
  <2>2. PICK m \in bad : \A y \in bad : m <= y
    BY <1>2, <2>1, HasLeast
  <2>3. CASE m = 0
    BY <2>2, <2>3, <1>1, GrowsNot
  <2>4. CASE m # 0
    <3>1. m \in 1..Len(b) /\ m - 1 \in 0..Len(b) /\ m - 1 < m
      BY <2>4, <1>0
    <3>2. Grows(t, g[m - 1])
      BY <2>2, <3>1
    <3>3. b[m] \in Keys
      BY <3>1, <1>0
    <3>4. Grows(t, g[m])
      BY <3>1, <3>2, <3>3, <1>1, GrowsStep
    <3> QED
      BY <3>4
  <2> QED
    BY <2>3, <2>4
<1> QED
  BY <1>0, <1>1, <1>2

LEMMA TransferFacts ==
    ASSUME NEW t \in Terminals
    PROVE  /\ Grows(t, Transfer(t))
           /\ Transfer(t).ready = TRUE /\ Transfer(t).canon_buf = <<>>
<1> DEFINE u == FoldLeft(PutIfRoom, t, t.canon_buf)
<1>1. Grows(t, u)
  BY FoldGrows
<1>2. u \in Terminals
  BY <1>1 DEF Grows
<1> HIDE DEF u
<1> DEFINE v == [u EXCEPT !.canon_buf = <<>>, !.ready = TRUE]
<1>3. /\ v \in Terminals /\ v.inq = u.inq /\ v.head = u.head /\ v.tail = u.tail
      /\ v.mode = u.mode /\ v.ready = TRUE /\ v.canon_buf = <<>>
  <2>1. <<>> \in Seq(Keys)
    OBVIOUS
  <2> QED
    BY <1>2, <2>1 DEF Terminals
<1>4. Transfer(t) = v
  BY DEF Transfer, u
<1> HIDE DEF v
<1>5. Ring(v) = Ring(u)
  BY <1>3, SameRing
<1>6. Grows(t, v)
  BY <1>1, <1>3, <1>5 DEF Grows, GrowsBy
<1> QED
  BY <1>3, <1>4, <1>6

\* A flush leaves nothing.
LEMMA FlushFacts ==
    ASSUME NEW t \in Terminals
    PROVE  /\ inq_flush(t) \in Terminals /\ inq_flush(t).mode = t.mode
           /\ inq_count(inq_flush(t)) = 0 /\ Ring(inq_flush(t)) = <<>>
           /\ inq_flush(t).ready = FALSE /\ inq_flush(t).canon_buf = <<>>
<1> DEFINE u == inq_flush(t)
<1>1. <<>> \in Seq(Keys) /\ 0 \in 0..(TTY_BUFSZ - 1)
  BY RingSize
<1>2. /\ u \in Terminals /\ u.mode = t.mode /\ u.head = 0 /\ u.tail = 0
      /\ u.ready = FALSE /\ u.canon_buf = <<>>
  BY <1>1 DEF Terminals, inq_flush
<1>3. inq_count(u) = 0
  BY <1>2, CountIs
<1>4. Ring(u) = <<>>
  BY <1>2, <1>3, RingIs, EmptySeq
<1> QED
  BY <1>2, <1>3, <1>4

\* A character that only changes the line being typed.
EditsLine(t, u) ==
    /\ u \in Terminals /\ Len(u.canon_buf) < TTY_BUFSZ
    /\ u.inq = t.inq /\ u.head = t.head /\ u.tail = t.tail
    /\ u.ready = t.ready /\ u.mode = t.mode

LEMMA EditsLineFacts ==
    ASSUME NEW t \in Terminals, NEW b \in Seq(Keys), Len(b) < TTY_BUFSZ
    PROVE  EditsLine(t, [t EXCEPT !.canon_buf = b])
BY DEF EditsLine, Terminals

\* What a key in canonical mode does: change the line, or complete it.
LEMMA EditFacts ==
    ASSUME NEW t \in Terminals, Len(t.canon_buf) < TTY_BUFSZ, NEW c \in Keys
    PROVE  IF c \in {"eof", "nl"}
           THEN /\ Grows(t, Edit(t, c)) /\ Edit(t, c).ready = TRUE
                /\ Len(Edit(t, c).canon_buf) < TTY_BUFSZ
           ELSE EditsLine(t, Edit(t, c))
<1> DEFINE b == t.canon_buf
           longer == [t EXCEPT !.canon_buf = Append(b, c)]
           added == IF Len(b) < TTY_BUFSZ - 1 THEN longer ELSE t
<1>1. b \in Seq(Keys) /\ Len(b) \in Nat
  BY DEF Terminals
<1>2. EditsLine(t, t)
  BY DEF EditsLine
<1>3. EditsLine(t, added)
  <2>1. CASE Len(b) < TTY_BUFSZ - 1
    <3>1. Append(b, c) \in Seq(Keys) /\ Len(Append(b, c)) < TTY_BUFSZ
      BY <2>1, <1>1, RingSize, AppendProperties
    <3> QED
      BY <2>1, <3>1, EditsLineFacts
  <2> QED
    BY <2>1, <1>2
<1>4. Len(<<>>) < TTY_BUFSZ /\ <<>> \in Seq(Keys)
  BY RingSize
<1>5. CASE c = "erase"
  <2>1. Edit(t, c) = [t EXCEPT !.canon_buf = IF b = <<>> THEN b ELSE Front(b)]
    BY <1>5 DEF Edit
  <2>2. b # <<>> => Front(b) \in Seq(Keys) /\ Len(Front(b)) < TTY_BUFSZ
    BY <1>1, RingSize DEF Front
  <2> QED
    BY <1>1, <1>5, <2>1, <2>2, EditsLineFacts
<1>6. CASE c = "kill"
  <2>1. Edit(t, c) = [t EXCEPT !.canon_buf = <<>>]
    BY <1>6 DEF Edit
  <2> QED
    BY <1>4, <1>6, <2>1, EditsLineFacts
<1>7. CASE c = "eof"
  <2>1. Edit(t, c) = Transfer(t)
    BY <1>7 DEF Edit
  <2> QED
    BY <1>4, <1>7, <2>1, TransferFacts
<1>8. CASE c = "nl"
  <2>1. Edit(t, c) = Transfer(added)
    BY <1>8 DEF Edit
  <2>2. added \in Terminals /\ added.tail = t.tail /\ added.mode = t.mode
        /\ inq_count(added) = inq_count(t) /\ Ring(added) = Ring(t)
    <3> HIDE DEF added
    <3> QED
      BY <1>3, SameRing DEF EditsLine
  <2> HIDE DEF added
  <2>3. /\ Grows(added, Transfer(added)) /\ Transfer(added).ready = TRUE
        /\ Transfer(added).canon_buf = <<>>
    BY <2>2, TransferFacts
  <2>4. Grows(t, Transfer(added))
    BY <2>2, <2>3 DEF Grows, GrowsBy
  <2> QED
    BY <1>4, <1>8, <2>1, <2>3, <2>4
<1>9. CASE c \notin {"erase", "kill", "eof", "nl"}
  <2>1. Edit(t, c) = added
    BY <1>9 DEF Edit
  <2> QED
    BY <1>3, <1>9, <2>1
<1> QED
  BY <1>5, <1>6, <1>7, <1>8, <1>9

\* What tty_inproc() does to the terminal.
LEMMA ProcessFacts ==
    ASSUME NEW t \in Terminals, Len(t.canon_buf) < TTY_BUFSZ, NEW c \in Keys
    PROVE  /\ Process(t, c) \in Terminals /\ Len(Process(t, c).canon_buf) < TTY_BUFSZ
           /\ Process(t, c).mode = t.mode
           /\ IF Flushes(t, c)
              THEN Ring(Process(t, c)) = <<>> /\ inq_count(Process(t, c)) = 0
              ELSE Grows(t, Process(t, c)) /\ (t.ready => Process(t, c).ready)
           /\ \/ Wakes(t, c)
              \/ EditsLine(t, Process(t, c))
           /\ t.mode.icanon => \/ EditsLine(t, Process(t, c))
                               \/ inq_count(Process(t, c)) = 0
                               \/ Process(t, c).ready
           /\ Flushes(t, c) => Wakes(t, c)
<1> USE DEF Process, Wakes
<1>0. EditsLine(t, t) /\ Grows(t, t)
  BY GrowsNot DEF EditsLine
<1>1. CASE IsSignal(t, c) /\ t.mode.noflsh
  BY <1>0, <1>1 DEF Flushes
<1>2. CASE IsSignal(t, c) /\ ~t.mode.noflsh
  <2>1. Process(t, c) = inq_flush(t) /\ Flushes(t, c) /\ Wakes(t, c)
    BY <1>2 DEF Flushes
  <2>2. Len(<<>>) < TTY_BUFSZ
    BY RingSize
  <2> QED
    BY <2>1, <2>2, FlushFacts
<1>3. CASE ~IsSignal(t, c) /\ t.mode.icanon
  <2> DEFINE u == Edit(t, c)
  <2>1. Process(t, c) = u /\ ~Flushes(t, c) /\ (Wakes(t, c) <=> c \in {"eof", "nl"})
    BY <1>3 DEF Flushes
  <2>2. CASE c \in {"eof", "nl"}
    <3>1. Grows(t, u) /\ u.ready = TRUE /\ Len(u.canon_buf) < TTY_BUFSZ
      BY <2>2, EditFacts
    <3> HIDE DEF u
    <3> QED
      BY <2>1, <2>2, <3>1 DEF Grows
  <2>3. CASE c \notin {"eof", "nl"}
    <3>1. EditsLine(t, u)
      BY <2>3, EditFacts
    <3>2. Grows(t, u)
      BY <3>1, GrowsNot DEF EditsLine
    <3> HIDE DEF u
    <3> QED
      BY <2>1, <3>1, <3>2 DEF EditsLine
  <2> QED
    BY <2>2, <2>3
<1>4. CASE ~IsSignal(t, c) /\ ~t.mode.icanon
  <2>1. Process(t, c) = PutIfRoom(t, c) /\ ~Flushes(t, c) /\ (Wakes(t, c) <=> ~inq_full(t))
    BY <1>4 DEF Flushes
  <2>2. Grows(t, PutIfRoom(t, c))
    BY <1>0, GrowsStep
  <2>3. CASE inq_full(t)
    BY <1>0, <1>4, <2>1, <2>3 DEF PutIfRoom
  <2>4. CASE ~inq_full(t)
    <3>1. PutIfRoom(t, c) = inq_put(t, c)
      BY <2>4 DEF PutIfRoom
    <3>2. /\ inq_put(t, c) \in Terminals /\ inq_put(t, c).mode = t.mode
          /\ inq_put(t, c).canon_buf = t.canon_buf /\ inq_put(t, c).ready = t.ready
      BY <2>4, PutFacts
    <3> QED
      BY <1>4, <2>1, <2>2, <2>4, <3>1, <3>2
  <2> QED
    BY <2>3, <2>4
<1> QED
  BY <1>1, <1>2, <1>3, <1>4

\* What is added to the queue leaves its head alone.
LEMMA GrowsHead ==
    ASSUME NEW t \in Terminals, NEW u, Grows(t, u), inq_count(t) > 0
    PROVE  inq_count(u) > 0 /\ u.inq[u.tail] = t.inq[t.tail]
<1>1. PICK n \in Nat : GrowsBy(t, u, n)
  BY DEF Grows
<1>2. PICK chars \in [1..n -> Keys] : Ring(u) = Ring(t) \o chars
  BY <1>1 DEF GrowsBy
<1>3. u \in Terminals
  BY DEF Grows
<1>4. chars \in Seq(Keys) /\ Len(chars) = n
  OBVIOUS
<1>5. /\ Ring(t) \in Seq(Keys) /\ Len(Ring(t)) = inq_count(t)
      /\ Ring(t)[1] = t.inq[t.tail] /\ Len(Ring(u)) = inq_count(u)
      /\ inq_count(u) > 0 => Ring(u)[1] = u.inq[u.tail]
  BY <1>3, RingIs
<1>6. inq_count(t) \in Nat /\ inq_count(u) = inq_count(t) + n
  <2>1. inq_count(t) \in Nat
    BY CountIs, RingSize
  <2>2. Len(Ring(t) \o chars) = inq_count(t) + n
    BY <1>4, <1>5, ConcatProperties
  <2> QED
    BY <1>2, <1>5, <2>1, <2>2
<1>7. Ring(u)[1] = Ring(t)[1]
  BY <1>2, <1>4, <1>5, <1>6, ConcatProperties
<1> QED
  BY <1>5, <1>6, <1>7

-----------------------------------------------------------------------------
(* Types *)

LEMMA ProcFacts == Users \subseteq Procs /\ 0 \notin Users /\ Procs \subseteq Nat
BY TtyAssumption, MaxprocAssumption DEF Procs

OnlyUsersReady(s) == \A p \in Procs : s[p] = "P_READY" => p \in Users

\* schedule() gives the CPU to a user process, and puts nobody to sleep.
LEMMA ScheduleFacts ==
    ASSUME NEW s \in [Procs -> ProcStates], curproc \in Users, OnlyUsersReady(s), Schedule(s)
    PROVE  /\ state' \in [Procs -> ProcStates] /\ curproc' \in Users
           /\ OnlyUsersReady(state')
           /\ \A p \in Procs : state'[p] = "P_SLEEPING" => s[p] = "P_SLEEPING"
<1>1. CASE Runnable(s) = {}
  BY <1>1 DEF Schedule
<1>2. CASE Runnable(s) # {}
  <2>1. PICK n \in Runnable(s) : state' = SwitchTo(s, n) /\ curproc' = n
    BY <1>2 DEF Schedule
  <2>2. n \in Procs /\ s[n] = "P_READY" /\ n \in Users
    BY DEF Runnable, OnlyUsersReady
  <2>3. state' = [s EXCEPT ![curproc] = IF s[curproc] = "P_RUNNING" THEN "P_READY"
                                        ELSE s[curproc],
                           ![n] = "P_RUNNING"]
    BY <2>1 DEF SwitchTo
  <2>4. state' \in [Procs -> ProcStates]
    BY <2>2, <2>3, ProcFacts DEF ProcStates
  <2>5. \A p \in Procs : state'[p] = IF p = n THEN "P_RUNNING"
                          ELSE IF p = curproc /\ s[p] = "P_RUNNING" THEN "P_READY" ELSE s[p]
    BY <2>2, <2>3, ProcFacts
  <2> QED
    BY <2>1, <2>2, <2>4, <2>5 DEF OnlyUsersReady
<1> QED
  BY <1>1, <1>2

LEMMA WakeupFacts ==
    ASSUME NEW s \in [Procs -> ProcStates], OnlyUsersReady(s), NEW p \in Users
    PROVE  /\ Wakeup(s, p) \in [Procs -> ProcStates] /\ OnlyUsersReady(Wakeup(s, p))
           /\ \A q \in Procs : Wakeup(s, p)[q] = "P_SLEEPING" => s[q] = "P_SLEEPING" /\ q # p
BY ProcFacts DEF Wakeup, OnlyUsersReady, ProcStates

LEMMA KeyFacts ==
    ASSUME TypeOK, OneInKernel, NEW c \in Keys
    PROVE  /\ AfterKey(c) \in [Procs -> ProcStates] /\ OnlyUsersReady(AfterKey(c))
           /\ \A q \in Procs : AfterKey(c)[q] = "P_SLEEPING" =>
                 state[q] = "P_SLEEPING" /\ (Wakes(tty, c) => waiting # q + 1)
           /\ Signalled(c) \subseteq Users
<1>0. state \in [Procs -> ProcStates] /\ OnlyUsersReady(state)
  BY DEF TypeOK, OneInKernel, OnlyUsersReady
<1>1. Signalled(c) \subseteq Users
  BY DEF Signalled, TypeOK, OneInKernel
<1>2. CASE ~Wakes(tty, c)
  BY <1>0, <1>1, <1>2 DEF AfterKey
<1>3. CASE Wakes(tty, c) /\ waiting = 0
  BY <1>0, <1>1, <1>3, ProcFacts DEF AfterKey, tty_wake_reader
<1>4. CASE Wakes(tty, c) /\ waiting # 0
  <2>1. PICK p \in Users : waiting = p + 1
    BY <1>4 DEF TypeOK
  <2>2. p \in Nat /\ waiting - 1 = p /\ \A q \in Procs : q \in Nat /\ (waiting = q + 1 <=> q = p)
    BY <2>1, ProcFacts
  <2>3. AfterKey(c) = Wakeup(state, p)
    BY <1>4, <2>2 DEF AfterKey, tty_wake_reader
  <2> QED
    BY <1>0, <1>1, <2>2, <2>3, WakeupFacts
<1> QED
  BY <1>2, <1>3, <1>4

LEMMA ReturnTypes ==
    ASSUME TypeOK, NEW p \in Users, NEW windows \in SUBSET Windows, Return(p, windows)
    PROVE  /\ pc' \in [Procs -> Points]
           /\ call' \in [Procs -> [len : Nat, canon : BOOLEAN, c : Keys \cup {NoChar}]]
           /\ \A q \in Procs : call'[q].len = 0 \/ \E n \in Lens : call'[q].len <= n
           /\ sig_pending' \subseteq Users /\ lost' \subseteq Windows
<1>1. p \in Procs /\ pc' = [pc EXCEPT ![p] = "user"] /\ call' = [call EXCEPT ![p] = NoCall]
  BY ProcFacts DEF Return, GoTo
<1>2. pc' \in [Procs -> Points]
  BY <1>1 DEF TypeOK, Points
<1>3. NoCall \in [len : Nat, canon : BOOLEAN, c : Keys \cup {NoChar}] /\ NoCall.len = 0
  BY DEF NoCall
<1>4. call' \in [Procs -> [len : Nat, canon : BOOLEAN, c : Keys \cup {NoChar}]]
  BY <1>1, <1>3 DEF TypeOK
<1>5. \A q \in Procs : call'[q] = IF q = p THEN NoCall ELSE call[q]
  BY <1>1 DEF TypeOK
<1>6. sig_pending' \subseteq Users /\ lost' \subseteq Windows
  BY DEF Return, TypeOK, Windows
<1> QED
  BY <1>2, <1>3, <1>4, <1>5, <1>6 DEF TypeOK

LEMMA GoToTypes ==
    ASSUME TypeOK, NEW p \in Users, NEW where \in Points, GoTo(p, where)
    PROVE  pc' \in [Procs -> Points]
BY ProcFacts DEF GoTo, TypeOK

\* The others stay where they are when p goes on, and p is where it may be left.
LEMMA StaysOne ==
    ASSUME OneInKernel, TypeOK, NEW where \in Points, GoTo(curproc, where),
           curproc' \in Users, OnlyUsersReady(state'),
           curproc' = curproc \/ where \in {"user", "elsewhere", "woken"}
    PROVE  OneInKernel'
<1>1. \A q \in Users : pc'[q] = IF q = curproc THEN where ELSE pc[q]
  BY ProcFacts DEF GoTo, TypeOK
<1> QED
  BY <1>1 DEF OneInKernel, OnlyUsersReady

\* The same when nobody moves.
LEMMA StaysOneStill ==
    ASSUME OneInKernel, pc' = pc, curproc' \in Users, OnlyUsersReady(state'),
           curproc' = curproc \/ pc[curproc] = "user"
    PROVE  OneInKernel'
BY DEF OneInKernel, OnlyUsersReady

LEMMA TypesInit == Init => TypeOK /\ OneInKernel
<1> SUFFICES ASSUME Init PROVE TypeOK /\ OneInKernel
  OBVIOUS
<1> USE DEF Init
<1>1. state \in [Procs -> ProcStates] /\ curproc \in Procs
  BY ProcFacts DEF ProcStates
<1>2. tty \in Terminals /\ Len(tty.canon_buf) < TTY_BUFSZ
  <2>1. <<>> \in Seq(Keys) /\ Len(<<>>) = 0 /\ 0 \in 0..(TTY_BUFSZ - 1) /\ 0 < TTY_BUFSZ
    BY RingSize
  <2>2. [i \in 0..(TTY_BUFSZ - 1) |-> "nl"] \in [0..(TTY_BUFSZ - 1) -> Keys]
        /\ Cooked \in Modes
    BY TtyAssumption
  <2> QED
    BY <2>1, <2>2 DEF Terminals
<1>3. pc \in [Procs -> Points]
  BY DEF Points
<1>4. call \in [Procs -> [len : Nat, canon : BOOLEAN, c : Keys \cup {NoChar}]]
      /\ \A p \in Procs : call[p].len = 0
  BY DEF NoCall
<1>5. TypeOK
  BY <1>1, <1>2, <1>3, <1>4 DEF TypeOK
<1>6. OneInKernel
  BY ProcFacts DEF OneInKernel
<1> QED
  BY <1>5, <1>6

LEMMA ReadStepTypes ==
    ASSUME TypeOK, OneInKernel, RoomForNext, NEW p \in Users, ReadStep(p)
    PROVE  TypeOK' /\ OneInKernel'
<1>0. curproc = p /\ p \in Procs /\ p \in Nat /\ OnlyUsersReady(state)
      /\ state \in [Procs -> ProcStates]
  BY ProcFacts DEF ReadStep, Test, Mark, Doze, Swtch, Woken, Copy, CopyNext, Clear, At, TypeOK,
                   OneInKernel, OnlyUsersReady
<1> USE DEF Points
<1>1. CASE Test(p)
  <2>1. UNCHANGED <<state, curproc, tty, waiting, keyboard>>
    BY <1>1 DEF Test
  <2>2. CASE Return(p, {})
    <3>1. TypeOK'
      BY <2>1, <2>2, ReturnTypes DEF TypeOK
    <3> QED
      BY <3>1, <1>0, <2>1, <2>2, StaysOne DEF Return, OneInKernel
  <2>3. ASSUME NEW where \in Points, GoTo(p, where), UNCHANGED <<call, sig_pending, taken, lost>>
        PROVE  TypeOK' /\ OneInKernel'
    <3>1. TypeOK'
      BY <2>1, <2>3, GoToTypes DEF TypeOK
    <3> QED
      BY <3>1, <1>0, <2>1, <2>3, StaysOne DEF OneInKernel
  <2> QED
    BY <1>1, <2>2, <2>3 DEF Test
<1>2. CASE Mark(p)
  <2>1. pc' \in [Procs -> Points]
    BY <1>2, GoToTypes DEF Mark
  <2>2. TypeOK'
    BY <1>2, <2>1 DEF Mark, TypeOK, Windows
  <2>3. OneInKernel'
    BY <1>2, <1>0, StaysOne DEF Mark, OneInKernel
  <2> QED
    BY <2>2, <2>3
<1>3. CASE Doze(p)
  <2>1. pc' \in [Procs -> Points]
    BY <1>3, GoToTypes DEF Doze
  <2>2. state' \in [Procs -> ProcStates] /\ OnlyUsersReady(state')
    BY <1>3, <1>0 DEF Doze, ProcStates, OnlyUsersReady
  <2>3. TypeOK'
    BY <1>3, <2>1, <2>2 DEF Doze, TypeOK
  <2>4. OneInKernel'
    BY <1>3, <1>0, <2>2, StaysOne DEF Doze, OneInKernel
  <2> QED
    BY <2>3, <2>4
<1>4. CASE Swtch(p)
  <2>1. pc' \in [Procs -> Points]
    BY <1>4, GoToTypes DEF Swtch
  <2>2. /\ state' \in [Procs -> ProcStates] /\ OnlyUsersReady(state')
        /\ curproc' \in Users /\ curproc' \in Procs
    BY <1>4, <1>0, ScheduleFacts, ProcFacts DEF Swtch
  <2>3. TypeOK'
    BY <1>4, <2>1, <2>2 DEF Swtch, TypeOK
  <2>4. OneInKernel'
    BY <1>4, <1>0, <2>2, StaysOne DEF Swtch
  <2> QED
    BY <2>3, <2>4
<1>5. CASE Woken(p)
  <2> DEFINE windows == IF waiting \in {0, p + 1} THEN {} ELSE {"overwritten"}
  <2>1. waiting' = 0 /\ UNCHANGED <<state, curproc, tty, keyboard>> /\ windows \in SUBSET Windows
    BY <1>5 DEF Woken, Windows
  <2>2. CASE Return(p, windows)
    <3>1. TypeOK'
      <4> HIDE DEF windows
      <4> QED
        BY <2>1, <2>2, ReturnTypes DEF TypeOK
    <3> QED
      BY <3>1, <1>0, <2>1, <2>2, StaysOne DEF Return, OneInKernel
  <2>3. CASE GoTo(p, "test") /\ lost' = lost \cup windows /\ UNCHANGED <<call, sig_pending, taken>>
    <3>1. TypeOK'
      <4> HIDE DEF windows
      <4> QED
        BY <2>1, <2>3, GoToTypes DEF TypeOK
    <3> QED
      BY <3>1, <1>0, <2>1, <2>3, StaysOne DEF OneInKernel
  <2> QED
    BY <1>5, <2>2, <2>3 DEF Woken
<1>6. CASE Copy(p)
  <2>1. UNCHANGED <<state, curproc, tty, waiting, keyboard>>
    BY <1>6 DEF Copy
  <2>2. CASE Return(p, {})
    <3>1. TypeOK'
      BY <2>1, <2>2, ReturnTypes DEF TypeOK
    <3> QED
      BY <3>1, <1>0, <2>1, <2>2, StaysOne DEF Return, OneInKernel
  <2>3. CASE GoTo(p, "clear") /\ UNCHANGED <<call, sig_pending, taken, lost>>
    <3>1. TypeOK'
      BY <2>1, <2>3, GoToTypes DEF TypeOK
    <3> QED
      BY <3>1, <1>0, <2>1, <2>3, StaysOne DEF OneInKernel
  <2>4. CASE /\ GoTo(p, "next") /\ call' = [call EXCEPT ![p].c = tty.inq[tty.tail]]
             /\ UNCHANGED <<sig_pending, taken, lost>>
    <3>1. tty.inq[tty.tail] \in Keys
      BY DEF TypeOK, Terminals
    <3>2. /\ call' \in [Procs -> [len : Nat, canon : BOOLEAN, c : Keys \cup {NoChar}]]
          /\ \A q \in Procs : call'[q].len = call[q].len
      BY <1>0, <2>4, <3>1 DEF TypeOK
    <3>3. TypeOK'
      BY <2>1, <2>4, <3>2, GoToTypes DEF TypeOK
    <3> QED
      BY <3>3, <1>0, <2>1, <2>4, StaysOne DEF OneInKernel
  <2> QED
    BY <1>6, <2>2, <2>3, <2>4 DEF Copy
<1>7. CASE CopyNext(p)
  <2>1. tty' \in Terminals /\ Len(tty'.canon_buf) < TTY_BUFSZ
    <3>1. tty.tail \in 0..(TTY_BUFSZ - 1) /\ tty \in Terminals
      BY DEF TypeOK, Terminals
    <3>2. (tty.tail + 1) % TTY_BUFSZ \in 0..(TTY_BUFSZ - 1)
      BY <3>1, StepIs
    <3>3. tty' = [tty EXCEPT !.tail = (tty.tail + 1) % TTY_BUFSZ]
      BY <1>7 DEF CopyNext
    <3>4. tty' \in Terminals /\ tty'.canon_buf = tty.canon_buf
      BY <3>1, <3>2, <3>3 DEF Terminals
    <3> QED
      BY <3>4 DEF TypeOK
  <2>2. call[p].len \in Nat /\ call[p].len > 0
    BY <1>0, <1>7 DEF CopyNext, At, RoomForNext, TypeOK
  <2>3. call' = [call EXCEPT ![p].len = call[p].len - 1]
    BY <1>7 DEF CopyNext
  <2>4. call' \in [Procs -> [len : Nat, canon : BOOLEAN, c : Keys \cup {NoChar}]]
    <3>1. call[p].len - 1 \in Nat
      BY <2>2
    <3>2. call \in [Procs -> [len : Nat, canon : BOOLEAN, c : Keys \cup {NoChar}]]
      BY DEF TypeOK
    <3> QED
      BY <1>0, <3>1, <3>2, <2>3
  <2>5. ASSUME NEW q \in Procs
        PROVE  call'[q].len = 0 \/ \E n \in Lens : call'[q].len <= n
    <3>1. CASE q # p
      BY <3>1, <2>3, <1>0 DEF TypeOK
    <3>2. CASE q = p
      <4>1. PICK n \in Lens : call[p].len <= n
        BY <1>0, <2>2 DEF TypeOK
      <4>2. n \in Nat /\ call'[q].len = call[p].len - 1
        BY <3>2, <2>3, <1>0, TtyAssumption DEF TypeOK
      <4> QED
        BY <4>1, <4>2, <2>2
    <3> QED
      BY <3>1, <3>2
  <2>6. TypeOK'
    BY <1>7, <2>1, <2>4, <2>5, GoToTypes DEF CopyNext, TypeOK
  <2> QED
    BY <2>6, <1>0, <1>7, StaysOne DEF OneInKernel, CopyNext
<1>8. CASE Clear(p)
  <2>1. tty' \in Terminals /\ Len(tty'.canon_buf) < TTY_BUFSZ
    BY <1>8 DEF Clear, TypeOK, Terminals
  <2>2. TypeOK'
    BY <1>8, <2>1, ReturnTypes DEF Clear, TypeOK
  <2> QED
    BY <2>2, <1>0, <1>8, StaysOne DEF Return, OneInKernel, Clear
<1> QED
  BY <1>1, <1>2, <1>3, <1>4, <1>5, <1>6, <1>7, <1>8 DEF ReadStep

\* Everything else that happens.
\* What TCSETS and the statements of a flush do, and where they go.
LEMMA SetModeFacts ==
    ASSUME TypeOK, NEW p \in Users, NEW mode \in Modes, NEW flush \in BOOLEAN,
           SetMode(p, mode, flush)
    PROVE  /\ curproc = p /\ pc[p] = "user"
           /\ UNCHANGED <<state, curproc, waiting, sig_pending, call, taken, keyboard>>
           /\ tty' \in Terminals /\ Len(tty'.canon_buf) < TTY_BUFSZ
           /\ tty'.inq = tty.inq /\ tty'.head = tty.head /\ tty'.tail = tty.tail
           /\ tty'.ready = tty.ready /\ tty'.mode = mode
           /\ inq_count(tty') = inq_count(tty)
           /\ lost' \subseteq Windows
           /\ \E where \in {"flush", "user"} : GoTo(p, where)
<1>1. tty \in Terminals /\ tty' = [tty EXCEPT !.mode = mode]
  BY DEF TypeOK, SetMode
<1>2. /\ tty' \in Terminals /\ tty'.canon_buf = tty.canon_buf
      /\ tty'.inq = tty.inq /\ tty'.head = tty.head /\ tty'.tail = tty.tail
      /\ tty'.ready = tty.ready /\ tty'.mode = mode
  BY <1>1 DEF Terminals
<1>3. lost' \subseteq Windows
  BY DEF SetMode, TypeOK, Windows
<1>4. \E where \in {"flush", "user"} : GoTo(p, where)
  BY DEF SetMode
<1> QED
  BY <1>2, <1>3, <1>4, SameRing DEF SetMode, InUser, TypeOK

LEMMA FlushInputFacts ==
    ASSUME TypeOK, NEW p \in Users, FlushInput(p)
    PROVE  /\ curproc = p
           /\ UNCHANGED <<state, curproc, waiting, sig_pending, call, taken, keyboard, lost>>
           /\ tty' \in Terminals /\ Len(tty'.canon_buf) < TTY_BUFSZ
           /\ tty'.mode = tty.mode /\ (tty'.ready => tty.ready)
           /\ \/ /\ pc[p] = "flush" /\ GoTo(p, "drop")
                 /\ inq_count(tty') = 0 /\ Ring(tty') = <<>>
              \/ /\ inq_count(tty') = inq_count(tty)
                 /\ tty'.inq = tty.inq /\ tty'.head = tty.head /\ tty'.tail = tty.tail
                 /\ \/ pc[p] = "drop" /\ GoTo(p, "unready") /\ tty'.ready = tty.ready
                    \/ pc[p] = "unready" /\ GoTo(p, "user")
<1>0. tty \in Terminals /\ Len(tty.canon_buf) < TTY_BUFSZ
  BY DEF TypeOK
<1>1. <<>> \in Seq(Keys) /\ Len(<<>>) < TTY_BUFSZ /\ 0 \in 0..(TTY_BUFSZ - 1)
  BY RingSize
<1>2. CASE FlushStep(p, "flush", [tty EXCEPT !.head = 0, !.tail = 0], "drop")
  <2>1. /\ tty' \in Terminals /\ tty'.head = 0 /\ tty'.tail = 0 /\ tty'.mode = tty.mode
        /\ tty'.canon_buf = tty.canon_buf /\ tty'.ready = tty.ready
    BY <1>0, <1>1, <1>2 DEF FlushStep, Terminals
  <2>2. inq_count(tty') = 0
    BY <2>1, CountIs
  <2>3. Ring(tty') = <<>>
    BY <2>1, <2>2, RingIs, EmptySeq
  <2> QED
    BY <1>0, <1>2, <2>1, <2>2, <2>3 DEF FlushStep, At
<1>3. CASE FlushStep(p, "drop", [tty EXCEPT !.canon_buf = <<>>], "unready")
  <2>1. /\ tty' \in Terminals /\ tty'.inq = tty.inq /\ tty'.head = tty.head
        /\ tty'.tail = tty.tail /\ tty'.mode = tty.mode
        /\ tty'.canon_buf = <<>> /\ tty'.ready = tty.ready
    BY <1>0, <1>1, <1>3 DEF FlushStep, Terminals
  <2> QED
    BY <1>1, <1>3, <2>1, SameRing DEF FlushStep, At
<1>4. CASE FlushStep(p, "unready", [tty EXCEPT !.ready = FALSE], "user")
  <2>1. /\ tty' \in Terminals /\ tty'.inq = tty.inq /\ tty'.head = tty.head
        /\ tty'.tail = tty.tail /\ tty'.mode = tty.mode
        /\ tty'.canon_buf = tty.canon_buf /\ tty'.ready = FALSE
    BY <1>0, <1>4 DEF FlushStep, Terminals
  <2> QED
    BY <1>0, <1>4, <2>1, SameRing DEF FlushStep, At
<1> QED
  BY <1>2, <1>3, <1>4 DEF FlushInput

LEMMA OtherStepTypes ==
    ASSUME TypeOK, OneInKernel, Next,
           ~ \E p \in Users : ReadStep(p)
    PROVE  TypeOK' /\ OneInKernel'
<1>0. /\ curproc \in Users /\ curproc \in Procs /\ OnlyUsersReady(state)
      /\ state \in [Procs -> ProcStates]
  BY ProcFacts DEF TypeOK, OneInKernel, OnlyUsersReady
<1> USE DEF Points
<1>1. ASSUME NEW p \in Users, Block(p) PROVE TypeOK' /\ OneInKernel'
  <2>1. curproc = p /\ pc' \in [Procs -> Points]
    BY <1>1, GoToTypes DEF Block, InUser, At
  <2> DEFINE s == [state EXCEPT ![p] = "P_SLEEPING"]
  <2>2. s \in [Procs -> ProcStates] /\ OnlyUsersReady(s) /\ Schedule(s)
    BY <1>0, <1>1, ProcFacts DEF ProcStates, OnlyUsersReady, Block
  <2>3. /\ state' \in [Procs -> ProcStates] /\ OnlyUsersReady(state')
        /\ curproc' \in Users /\ curproc' \in Procs
    BY <1>0, <2>2, ScheduleFacts, ProcFacts
  <2>4. TypeOK'
    BY <1>1, <2>1, <2>3 DEF Block, TypeOK
  <2> QED
    BY <1>1, <2>1, <2>3, <2>4, StaysOne DEF Block
<1>2. ASSUME NEW p \in Users, Unblock(p) PROVE TypeOK' /\ OneInKernel'
  <2>1. TypeOK'
    BY <1>2, ReturnTypes DEF Unblock, TypeOK
  <2> QED
    BY <1>0, <1>2, <2>1, StaysOne DEF Unblock, At, Return, OneInKernel
<1>3. ASSUME NEW p \in Readers, NEW len \in Lens, Read(p, len) PROVE TypeOK' /\ OneInKernel'
  <2> DEFINE r == [NoCall EXCEPT !.len = len, !.canon = tty.mode.icanon]
  <2>0. p \in Users /\ p \in Procs /\ len \in Nat /\ curproc = p
    BY <1>3, TtyAssumption, ProcFacts DEF Read, InUser
  <2>1. tty.mode.icanon \in BOOLEAN
    BY TtyAssumption DEF TypeOK, Terminals
  <2>2. r \in [len : Nat, canon : BOOLEAN, c : Keys \cup {NoChar}] /\ r.len = len
    BY <2>0, <2>1 DEF NoCall
  <2>3. call' = [call EXCEPT ![p] = r]
    BY <1>3 DEF Read
  <2> HIDE DEF r
  <2>4. call' \in [Procs -> [len : Nat, canon : BOOLEAN, c : Keys \cup {NoChar}]]
    BY <2>2, <2>3 DEF TypeOK
  <2>5. \A q \in Procs : call'[q].len = 0 \/ \E n \in Lens : call'[q].len <= n
    BY <2>0, <2>2, <2>3 DEF TypeOK
  <2>6. TypeOK'
    BY <1>3, <2>0, <2>4, <2>5, GoToTypes DEF Read, TypeOK
  <2> QED
    BY <1>0, <1>3, <2>0, <2>6, StaysOne DEF Read, OneInKernel
<1>4. ASSUME NEW c \in Keys, tty_inproc(c)
      PROVE  tty' \in Terminals /\ Len(tty'.canon_buf) < TTY_BUFSZ
             /\ waiting' \in {0} \cup {p + 1 : p \in Users}
  BY <1>4, ProcessFacts DEF tty_inproc, TypeOK
<1>5. ASSUME NEW p \in Readers, NEW c \in Keys, Poll(p, c) PROVE TypeOK' /\ OneInKernel'
  <2>1. TypeOK'
    BY <1>4, <1>5, KeyFacts DEF Poll, TypeOK
  <2> QED
    BY <1>0, <1>5, <2>1, KeyFacts, StaysOneStill DEF Poll
<1>6. ASSUME NEW p \in Users, NEW mode \in Modes, NEW flush \in BOOLEAN, SetMode(p, mode, flush)
      PROVE  TypeOK' /\ OneInKernel'
  <2>1. /\ curproc = p
        /\ UNCHANGED <<state, curproc, waiting, sig_pending, call, taken, keyboard>>
        /\ tty' \in Terminals /\ Len(tty'.canon_buf) < TTY_BUFSZ /\ lost' \subseteq Windows
    BY <1>6, SetModeFacts
  <2>2. PICK where \in {"flush", "user"} : GoTo(p, where)
    BY <1>6, SetModeFacts
  <2>3. pc' \in [Procs -> Points]
    BY <2>2, GoToTypes
  <2>4. TypeOK'
    BY <2>1, <2>3 DEF TypeOK
  <2> QED
    BY <1>0, <2>1, <2>2, <2>4, StaysOne
<1>11. ASSUME NEW p \in Users, FlushInput(p) PROVE TypeOK' /\ OneInKernel'
  <2>1. /\ curproc = p
        /\ UNCHANGED <<state, curproc, waiting, sig_pending, call, taken, keyboard, lost>>
        /\ tty' \in Terminals /\ Len(tty'.canon_buf) < TTY_BUFSZ
    BY <1>11, FlushInputFacts
  <2>2. PICK where \in {"drop", "unready", "user"} : GoTo(p, where)
    BY <1>11, FlushInputFacts
  <2>3. pc' \in [Procs -> Points]
    BY <2>2, GoToTypes
  <2>4. TypeOK'
    BY <2>1, <2>3 DEF TypeOK
  <2> QED
    BY <1>0, <2>1, <2>2, <2>4, StaysOne
<1>7. ASSUME NEW p \in Users, NEW q \in Users, Kill(p, q) PROVE TypeOK' /\ OneInKernel'
  <2>1. state' \in [Procs -> ProcStates] /\ OnlyUsersReady(state')
    BY <1>0, <1>7, WakeupFacts DEF Kill
  <2>2. TypeOK'
    BY <1>7, <2>1 DEF Kill, TypeOK
  <2> QED
    BY <1>0, <1>7, <2>1, <2>2, StaysOneStill DEF Kill
<1>8. ASSUME NEW s \in [Procs -> ProcStates], OnlyUsersReady(s), Resume(s)
      PROVE  /\ state' \in [Procs -> ProcStates] /\ OnlyUsersReady(state')
             /\ curproc' \in Users /\ curproc' \in Procs
             /\ curproc' = curproc \/ pc[curproc] = "user"
  BY <1>0, <1>8, ScheduleFacts, ProcFacts DEF Resume
<1>9. CASE Tick
  <2>1. /\ state' \in [Procs -> ProcStates] /\ OnlyUsersReady(state')
        /\ curproc' \in Users /\ curproc' \in Procs
        /\ curproc' = curproc \/ pc[curproc] = "user"
    BY <1>0, <1>8, <1>9 DEF Tick
  <2>2. TypeOK'
    BY <1>9, <2>1 DEF Tick, Delivered, TypeOK
  <2> QED
    BY <1>9, <2>1, <2>2, StaysOneStill DEF Tick
<1>10. ASSUME NEW c \in Keys, Interrupt(c) PROVE TypeOK' /\ OneInKernel'
  <2>0. AfterKey(c) \in [Procs -> ProcStates] /\ OnlyUsersReady(AfterKey(c))
        /\ Signalled(c) \subseteq Users
    BY KeyFacts
  <2>1. /\ state' \in [Procs -> ProcStates] /\ OnlyUsersReady(state')
        /\ curproc' \in Users /\ curproc' \in Procs
        /\ curproc' = curproc \/ pc[curproc] = "user"
    BY <1>8, <1>10, <2>0 DEF Interrupt
  <2>2. sig_pending' \subseteq Users /\ lost' \subseteq Windows
    BY <1>10, <2>0 DEF Interrupt, Delivered, TypeOK, Windows, Hits
  <2>3. TypeOK'
    BY <1>4, <1>10, <2>1, <2>2 DEF Interrupt, TypeOK
  <2> QED
    BY <1>10, <2>1, <2>3, StaysOneStill DEF Interrupt
<1> QED
  BY <1>1, <1>2, <1>3, <1>5, <1>6, <1>7, <1>9, <1>10, <1>11 DEF Next

\* Whoever comes to "next" has asked for more.
LEMMA RoomStep ==
    ASSUME TypeOK, OneInKernel, RoomForNext, [Next]_vars
    PROVE  RoomForNext'
<1>1. ASSUME NEW p \in Users, NEW where, where # "next", GoTo(p, where),
             \A q \in Users \ {p} : call'[q] = call[q]
      PROVE  RoomForNext'
  <2>1. \A q \in Users : pc'[q] = IF q = p THEN where ELSE pc[q]
    BY <1>1, ProcFacts DEF GoTo, TypeOK
  <2> QED
    BY <1>1, <2>1 DEF RoomForNext
<1>2. ASSUME NEW p \in Users, NEW windows, Return(p, windows) PROVE RoomForNext'
  <2>1. \A q \in Users \ {p} : call'[q] = call[q]
    BY <1>2, ProcFacts DEF Return, TypeOK
  <2> QED
    BY <1>1, <1>2, <2>1 DEF Return
<1>3. ASSUME UNCHANGED <<pc, call>> PROVE RoomForNext'
  BY <1>3 DEF RoomForNext
<1>4. ASSUME NEW p \in Users, ReadStep(p) PROVE RoomForNext'
  <2>1. CASE Test(p) \/ Woken(p)
    BY <2>1, <1>1, <1>2 DEF Test, Woken
  <2>2. CASE Mark(p) \/ Doze(p) \/ Swtch(p) \/ Clear(p)
    BY <2>2, <1>1, <1>2 DEF Mark, Doze, Swtch, Clear
  <2>3. CASE CopyNext(p)
    <3>1. \A q \in Users \ {p} : call'[q] = call[q]
      BY <2>3, ProcFacts DEF CopyNext, TypeOK
    <3> QED
      BY <2>3, <3>1, <1>1 DEF CopyNext
  <2>4. CASE Copy(p) /\ call[p].len > 0 /\ inq_count(tty) > 0
    <3>1. /\ \A q \in Users \ {p} : call'[q] = call[q] /\ pc'[q] = pc[q]
          /\ call'[p].len = call[p].len
      <4>1. pc' = [pc EXCEPT ![p] = "next"] /\ call' = [call EXCEPT ![p].c = tty.inq[tty.tail]]
        BY <2>4 DEF Copy, GoTo
      <4> QED
        BY <4>1, ProcFacts DEF TypeOK
    <3> QED
      BY <2>4, <3>1 DEF RoomForNext
  <2>5. CASE Copy(p) /\ ~(call[p].len > 0 /\ inq_count(tty) > 0)
    BY <2>5, <1>1, <1>2 DEF Copy
  <2> QED
    BY <1>4, <2>1, <2>2, <2>3, <2>4, <2>5 DEF ReadStep
<1>5. ASSUME NEW p \in Users, Block(p) \/ Unblock(p) PROVE RoomForNext'
  BY <1>5, <1>1, <1>2 DEF Block, Unblock
<1>6. ASSUME NEW p \in Readers, NEW len \in Lens, Read(p, len) PROVE RoomForNext'
  <2>1. p \in Users /\ \A q \in Users \ {p} : call'[q] = call[q]
    BY <1>6, TtyAssumption, ProcFacts DEF Read, TypeOK
  <2> QED
    BY <1>1, <1>6, <2>1 DEF Read
<1>7. ASSUME NEW p \in Users, NEW mode \in Modes, NEW flush \in BOOLEAN,
             SetMode(p, mode, flush)
      PROVE  RoomForNext'
  <2>1. call' = call /\ \E where \in {"flush", "user"} : GoTo(p, where)
    BY <1>7, SetModeFacts
  <2> QED
    BY <1>1, <2>1
<1>8. ASSUME NEW p \in Users, FlushInput(p) PROVE RoomForNext'
  <2>1. call' = call /\ \E where \in {"drop", "unready", "user"} : GoTo(p, where)
    BY <1>8, FlushInputFacts
  <2> QED
    BY <1>1, <2>1
<1> QED
  BY <1>3, <1>4, <1>5, <1>6, <1>7, <1>8 DEF Next, vars, Poll, Kill, Tick, Interrupt

TypedInv == TypeOK /\ OneInKernel /\ RoomForNext

LEMMA TypedAlways == Spec => []TypedInv
<1>1. Init => TypedInv
  <2>1. Init => RoomForNext
    BY ProcFacts DEF Init, RoomForNext
  <2> QED
    BY <2>1, TypesInit DEF TypedInv
<1>2. TypedInv /\ [Next]_vars => TypedInv'
  <2> SUFFICES ASSUME TypedInv, [Next]_vars PROVE TypedInv'
    OBVIOUS
  <2>1. TypeOK /\ OneInKernel /\ RoomForNext
    BY DEF TypedInv
  <2>2. RoomForNext'
    BY <2>1, RoomStep
  <2>3. CASE Next
    <3>1. TypeOK' /\ OneInKernel'
      BY <2>1, <2>3, ReadStepTypes, OtherStepTypes
    <3> QED
      BY <2>2, <3>1 DEF TypedInv
  <2>4. CASE UNCHANGED vars
    <3>1. TypeOK'
      BY <2>1, <2>4 DEF TypeOK, vars
    <3>2. OneInKernel'
      BY <2>1, <2>4 DEF OneInKernel, vars
    <3> QED
      BY <2>2, <3>1, <3>2 DEF TypedInv
  <2> QED
    BY <2>3, <2>4
<1> QED
  BY <1>1, <1>2, PTL DEF Spec

\* Whoever reads, is interrupted, changes modes or is killed, in whatever order:
\* positions stay in the ring, the line in its buffer, the slot holds nobody or a
\* process, and only user processes get signals.
THEOREM TtyTypes == Spec => []TypeOK
<1>1. TypedInv => TypeOK
  BY DEF TypedInv
<1> QED
  BY <1>1, TypedAlways, PTL

-----------------------------------------------------------------------------
(* Who is in the middle of tty_read() *)

LEMMA LostStays ==
    ASSUME [Next]_vars
    PROVE  lost \subseteq lost'
<1>1. ASSUME NEW p, NEW windows, Return(p, windows) PROVE lost \subseteq lost'
  BY <1>1 DEF Return
<1>2. ASSUME NEW p, ReadStep(p) PROVE lost \subseteq lost'
  BY <1>1, <1>2 DEF ReadStep, Test, Mark, Doze, Swtch, Woken, Copy, CopyNext, Clear
<1>3. ASSUME NEW p, Block(p) \/ Unblock(p) PROVE lost \subseteq lost'
  BY <1>1, <1>3 DEF Block, Unblock
<1>4. ASSUME NEW p, NEW mode, NEW flush, SetMode(p, mode, flush) PROVE lost \subseteq lost'
  BY <1>4 DEF SetMode
<1> QED
  BY <1>2, <1>3, <1>4 DEF Next, vars, Read, Poll, FlushInput, FlushStep, Kill, Tick, Interrupt

Middle == {"mark", "doze", "swtch", "copy", "next", "clear", "drop", "unready"}

\* A key that comes by interrupt while the kernel runs.
KernelInterrupt(c) ==
    /\ Interrupt(c)
    /\ state' = AfterKey(c) /\ sig_pending' = Signalled(c)
    /\ UNCHANGED <<curproc, pc, call, taken>>

LEMMA InTheMiddle ==
    ASSUME TypedInv, [Next]_vars, pc'[curproc'] \in Middle
    PROVE  /\ curproc' = curproc
           /\ \/ ReadStep(curproc)
              \/ FlushInput(curproc)
              \/ UNCHANGED vars
              \/ \E c \in Keys : KernelInterrupt(c)
<1>0. TypeOK /\ OneInKernel /\ curproc \in Users
  BY DEF TypedInv, OneInKernel
<1>1. OneInKernel'
  <2>1. Next => OneInKernel'
    BY ReadStepTypes, OtherStepTypes DEF TypedInv
  <2>2. UNCHANGED vars => OneInKernel'
    BY <1>0 DEF OneInKernel, vars
  <2> QED
    BY <2>1, <2>2
<1>2. ASSUME NEW p \in Users, NEW where, GoTo(p, where), where \notin Middle, curproc = p
      PROVE  FALSE
  <2>1. \A q \in Users : pc'[q] = IF q = p THEN where ELSE pc[q]
    BY <1>0, <1>2, ProcFacts DEF GoTo, TypeOK
  <2>2. curproc' \in Users
    BY <1>1 DEF OneInKernel
  <2> QED
    BY <1>0, <1>2, <2>1, <2>2 DEF Middle, OneInKernel
<1>3. ASSUME NEW p \in Users, ReadStep(p) PROVE curproc = p /\ curproc' = curproc
  <2>1. curproc = p
    BY <1>3 DEF ReadStep, Test, Mark, Doze, Swtch, Woken, Copy, CopyNext, Clear, At
  <2>2. CASE Swtch(p)
    BY <1>2, <2>1, <2>2 DEF Swtch, Middle
  <2>3. CASE ~Swtch(p)
    BY <1>3, <2>1, <2>3 DEF ReadStep, Test, Mark, Doze, Woken, Copy, CopyNext, Clear
  <2> QED
    BY <2>1, <2>2, <2>3
<1>4. ASSUME NEW p \in Users, Block(p) \/ Unblock(p) PROVE FALSE
  BY <1>2, <1>4 DEF Block, Unblock, Return, InUser, At, Middle
<1>5. ASSUME NEW p \in Readers, NEW len, Read(p, len) PROVE FALSE
  BY <1>2, <1>5, TtyAssumption DEF Read, InUser, Middle
<1>6. ASSUME UNCHANGED <<curproc, pc>>, pc[curproc] \notin Middle PROVE FALSE
  BY <1>6
<1>7. ASSUME NEW p \in Users, NEW mode \in Modes, NEW flush \in BOOLEAN,
             SetMode(p, mode, flush)
      PROVE  FALSE
  BY <1>0, <1>2, <1>7, SetModeFacts DEF Middle
<1>15. ASSUME NEW p \in Users, FlushInput(p) PROVE curproc = p /\ curproc' = curproc
  BY <1>0, <1>15, FlushInputFacts
<1>8. ASSUME NEW p \in Users, NEW q, Kill(p, q) PROVE FALSE
  BY <1>6, <1>8 DEF Kill, InUser, Middle
<1>9. ASSUME NEW p \in Readers, NEW c, Poll(p, c) PROVE FALSE
  BY <1>6, <1>9 DEF Poll, At, Middle
<1>10. ASSUME pc' = pc PROVE pc[curproc] # "user" \/ curproc' # curproc
  BY <1>10 DEF Middle
<1>11. ASSUME pc' = pc PROVE curproc' = curproc
  <2>1. curproc' \in Users
    BY <1>1 DEF OneInKernel
  <2> QED
    BY <1>0, <1>11, <2>1 DEF OneInKernel, Middle
<1>12. CASE Tick
  <2>1. pc[curproc] # "user" /\ curproc' = curproc
    BY <1>10, <1>11, <1>12 DEF Tick
  <2> QED
    BY <1>12, <2>1 DEF Tick, Resume, Delivered, vars
<1>13. ASSUME NEW c \in Keys, Interrupt(c) PROVE curproc' = curproc /\ KernelInterrupt(c)
  <2>1. pc[curproc] # "user" /\ curproc' = curproc
    BY <1>10, <1>11, <1>13 DEF Interrupt
  <2> QED
    BY <1>13, <2>1 DEF Interrupt, Resume, Delivered, KernelInterrupt
<1>14. CASE UNCHANGED vars
  BY <1>14 DEF vars
<1> QED
  BY <1>3, <1>4, <1>5, <1>7, <1>8, <1>9, <1>12, <1>13, <1>14, <1>15 DEF Next

\* Where a flush goes.
LEMMA FlushGoes ==
    ASSUME TypedInv, FlushInput(curproc), curproc' = curproc
    PROVE  pc'[curproc'] \in {"drop", "unready", "user"}
<1>1. TypeOK /\ curproc \in Users /\ curproc \in Procs
  BY ProcFacts DEF TypedInv, OneInKernel
<1>2. PICK where \in {"drop", "unready", "user"} : GoTo(curproc, where)
  BY <1>1, FlushInputFacts
<1> QED
  BY <1>1, <1>2 DEF GoTo, TypeOK

-----------------------------------------------------------------------------
(* The ring is a queue *)

LEMMA HoldsStep ==
    ASSUME TypedInv, HoldsOldest, [Next]_vars
    PROVE  HoldsOldest'
<1>0. TypeOK /\ curproc \in Users /\ curproc \in Procs /\ tty \in Terminals
      /\ Len(tty.canon_buf) < TTY_BUFSZ
  BY ProcFacts DEF TypedInv, OneInKernel, TypeOK
<1>1. SUFFICES ASSUME "torn" \notin lost', pc'[curproc'] = "next"
               PROVE  (inq_count(tty) > 0 /\ call[curproc].c = tty.inq[tty.tail])'
  BY DEF HoldsOldest
<1>2. "torn" \notin lost
  BY <1>1, LostStays
<1>3. /\ curproc' = curproc
      /\ \/ ReadStep(curproc)
         \/ UNCHANGED vars
         \/ \E c \in Keys : KernelInterrupt(c)
  BY <1>1, InTheMiddle, FlushGoes DEF Middle
<1>4. CASE ReadStep(curproc)
  <2>1. \A where : GoTo(curproc, where) => where = "next"
    BY <1>0, <1>1, <1>3 DEF GoTo, TypeOK
  <2>2. Copy(curproc) /\ call[curproc].len > 0 /\ inq_count(tty) > 0
    BY <1>4, <2>1 DEF ReadStep, Test, Mark, Doze, Swtch, Woken, Copy, CopyNext, Clear, Return
  <2>3. call' = [call EXCEPT ![curproc].c = tty.inq[tty.tail]] /\ tty' = tty
    BY <2>2 DEF Copy
  <2>4. call'[curproc].c = tty.inq[tty.tail]
    BY <1>0, <2>3 DEF TypeOK
  <2> QED
    BY <1>3, <2>2, <2>3, <2>4
<1>5. CASE UNCHANGED vars
  BY <1>1, <1>2, <1>3, <1>5 DEF vars, HoldsOldest
<1>6. ASSUME NEW c \in Keys, KernelInterrupt(c)
      PROVE  (inq_count(tty) > 0 /\ call[curproc].c = tty.inq[tty.tail])'
  <2>1. pc[curproc] = "next" /\ call' = call /\ tty' = Process(tty, c)
    BY <1>1, <1>3, <1>6 DEF KernelInterrupt, Interrupt, tty_inproc
  <2>2. ~Flushes(tty, c)
    BY <1>1, <1>6, <2>1 DEF KernelInterrupt, Interrupt, Hits
  <2>3. Grows(tty, Process(tty, c))
    BY <1>0, <2>2, ProcessFacts
  <2>4. inq_count(tty) > 0 /\ call[curproc].c = tty.inq[tty.tail]
    BY <1>2, <2>1 DEF HoldsOldest
  <2> QED
    BY <1>0, <1>3, <2>1, <2>3, <2>4, GrowsHead
<1> QED
  BY <1>3, <1>4, <1>5, <1>6

LEMMA HoldsAlways == Spec => []HoldsOldest
<1>1. Init => HoldsOldest
  BY ProcFacts DEF Init, HoldsOldest
<1>2. TypedInv /\ HoldsOldest /\ [Next]_vars => HoldsOldest'
  BY HoldsStep
<1> QED
  BY <1>1, <1>2, TypedAlways, PTL DEF Spec

QueueStep == Queue!Next \/ UNCHANGED <<Contents, taken>>

\* Steps that leave the ring alone.
LEMMA QuietQueue ==
    ASSUME tty'.inq = tty.inq, tty'.head = tty.head, tty'.tail = tty.tail
    PROVE  /\ taken' = taken => QueueStep
           /\ taken' = NoChar => QueueStep
<1>1. Contents' = Contents
  BY SameRing DEF Contents
<1> QED
  BY <1>1 DEF QueueStep, Queue!Next, Queue!Return

LEMMA FlushQueue ==
    ASSUME Ring(tty') = <<>>, taken' = taken
    PROVE  QueueStep
BY DEF QueueStep, Queue!Next, Queue!Discard, Contents

LEMMA KeyQueue ==
    ASSUME TypeOK, NEW c \in Keys, tty_inproc(c), taken' = taken
    PROVE  QueueStep
<1>0. tty \in Terminals /\ Len(tty.canon_buf) < TTY_BUFSZ /\ tty' = Process(tty, c)
  BY DEF TypeOK, tty_inproc
<1>1. CASE Flushes(tty, c)
  BY <1>0, <1>1, ProcessFacts, FlushQueue
<1>2. CASE ~Flushes(tty, c)
  <2>1. Grows(tty, tty')
    BY <1>0, <1>2, ProcessFacts
  <2>2. PICK n \in Nat : GrowsBy(tty, tty', n)
    BY <2>1 DEF Grows
  <2>3. PICK chars \in [1..n -> Keys] : Ring(tty') = Ring(tty) \o chars
    BY <2>2 DEF GrowsBy
  <2>4. /\ n \in 0..(TTY_BUFSZ - 1 - inq_count(tty))
        /\ Contents' = Contents \o chars
        /\ Contents \in Seq(Keys) /\ Len(Contents) = inq_count(tty)
    BY <1>0, <2>2, <2>3, RingIs DEF GrowsBy, Contents
  <2> HIDE DEF Contents
  <2>5. CASE n = 0
    <3>1. chars \in Seq(Keys) /\ Len(chars) = 0
      BY <2>5
    <3>2. Contents' = Contents
      BY <2>4, <3>1, EmptySeq, ConcatEmptySeq
    <3> QED
      BY <3>2 DEF QueueStep
  <2>6. CASE n # 0
    <3>1. n \in 1..((TTY_BUFSZ - 1) - Len(Contents))
      BY <2>4, <2>6
    <3>2. Queue!Arrive
      BY <2>4, <3>1 DEF Queue!Arrive
    <3> QED
      BY <3>2 DEF QueueStep, Queue!Next
  <2> QED
    BY <2>5, <2>6
<1> QED
  BY <1>1, <1>2

\* m and n are the distances from k and from l, the place before k, to h.
Distances(h, l, k, n, m) ==
    /\ h \in 0..(TTY_BUFSZ - 1) /\ l \in 0..(TTY_BUFSZ - 1) /\ n \in Nat \ {0}
    /\ k = IF l + 1 < TTY_BUFSZ THEN l + 1 ELSE 0
    /\ n = IF h >= l THEN h - l ELSE h - l + TTY_BUFSZ
    /\ m = IF h >= k THEN h - k ELSE h - k + TTY_BUFSZ

LEMMA CountAfterTake ==
    ASSUME NEW h, NEW l, NEW k, NEW n, NEW m, Distances(h, l, k, n, m)
    PROVE  m = n - 1
BY RingSize DEF Distances

LEMMA PlaceAfterTake ==
    ASSUME NEW l \in 0..(TTY_BUFSZ - 1), NEW k, NEW i \in 1..TTY_BUFSZ,
           k = IF l + 1 < TTY_BUFSZ THEN l + 1 ELSE 0
    PROVE  (k + i - 1) % TTY_BUFSZ = (l + (i + 1) - 1) % TTY_BUFSZ
<1>1. PICK x \in Nat : x = k + i - 1
  BY RingSize
<1>2. PICK y \in Nat : y = l + (i + 1) - 1
  BY RingSize
<1>3. x < 2 * TTY_BUFSZ /\ y < 2 * TTY_BUFSZ /\ (x = y \/ (x = y - TTY_BUFSZ))
  BY <1>1, <1>2, RingSize
<1>4. /\ x % TTY_BUFSZ = IF x < TTY_BUFSZ THEN x ELSE x - TTY_BUFSZ
      /\ y % TTY_BUFSZ = IF y < TTY_BUFSZ THEN y ELSE y - TTY_BUFSZ
  BY <1>3, WrapIs
<1>5. x % TTY_BUFSZ = y % TTY_BUFSZ
  BY <1>3, <1>4, RingSize
<1> QED
  BY <1>1, <1>2, <1>5

\* The two halves of inq_get() together take the head.
LEMMA TakeQueue ==
    ASSUME TypeOK, inq_count(tty) > 0, taken' = tty.inq[tty.tail],
           tty' = [tty EXCEPT !.tail = (@ + 1) % TTY_BUFSZ]
    PROVE  QueueStep
<1>0. /\ tty \in Terminals /\ tty.head \in 0..(TTY_BUFSZ - 1) /\ tty.tail \in 0..(TTY_BUFSZ - 1)
      /\ tty.inq \in [0..(TTY_BUFSZ - 1) -> Keys]
  BY DEF TypeOK, Terminals
<1> DEFINE u == [tty EXCEPT !.tail = (tty.tail + 1) % TTY_BUFSZ]
           k == (tty.tail + 1) % TTY_BUFSZ
           n == inq_count(tty)
<1>1. k = (IF tty.tail + 1 < TTY_BUFSZ THEN tty.tail + 1 ELSE 0) /\ k \in 0..(TTY_BUFSZ - 1)
  BY <1>0, StepIs
<1>2. /\ u \in Terminals /\ u.tail = k /\ u.head = tty.head /\ u.inq = tty.inq /\ tty' = u
  BY <1>0, <1>1 DEF Terminals
<1>3. /\ n = IF tty.head >= tty.tail THEN tty.head - tty.tail
             ELSE tty.head - tty.tail + TTY_BUFSZ
      /\ n \in 0..(TTY_BUFSZ - 1) /\ n > 0 /\ n \in Nat
  BY <1>0, CountIs, RingSize
<1>4. inq_count(u) = n - 1
  <2>1. inq_count(u) = IF tty.head >= k THEN tty.head - k ELSE tty.head - k + TTY_BUFSZ
    BY <1>2, CountIs
  <2> HIDE DEF n, k, u
  <2>2. Distances(tty.head, tty.tail, k, n, inq_count(u))
    BY <1>0, <1>1, <1>3, <2>1 DEF Distances
  <2> QED
    BY <2>2, CountAfterTake
<1>5. ASSUME NEW i \in 1..(n - 1)
      PROVE  Ring(u)[i] = Ring(tty)[i + 1]
  <2>0. i + 1 \in 1..n /\ i \in Nat /\ i >= 1 /\ i <= TTY_BUFSZ
    <3> HIDE DEF n
    <3> QED
      BY <1>3, RingSize
  <2>1. Ring(u)[i] = tty.inq[(k + i - 1) % TTY_BUFSZ]
    BY <1>2, <1>4, RingIs
  <2>2. Ring(tty)[i + 1] = tty.inq[(tty.tail + (i + 1) - 1) % TTY_BUFSZ]
    BY <1>0, <2>0, RingIs
  <2>3. i \in 1..TTY_BUFSZ
    BY <2>0, RingSize
  <2>4. (k + i - 1) % TTY_BUFSZ = (tty.tail + (i + 1) - 1) % TTY_BUFSZ
    <3> HIDE DEF k
    <3> QED
      BY <1>0, <1>1, <2>3, PlaceAfterTake
  <2> QED
    BY <2>1, <2>2, <2>4
<1>6. /\ Ring(u) \in Seq(Keys) /\ Len(Ring(u)) = n - 1
      /\ Ring(tty) \in Seq(Keys) /\ Len(Ring(tty)) = n /\ Ring(tty)[1] = tty.inq[tty.tail]
  BY <1>0, <1>2, <1>4, RingIs
<1>7. Ring(tty) # <<>> /\ taken' = Head(Ring(tty))
  <2> HIDE DEF n
  <2> QED
    BY <1>3, <1>6, EmptySeq, HeadTailProperties
<1>8. Ring(u) = Tail(Ring(tty))
  <2>1. Tail(Ring(tty)) \in Seq(Keys) /\ Len(Tail(Ring(tty))) = n - 1
        /\ \A i \in 1..(n - 1) : Tail(Ring(tty))[i] = Ring(tty)[i + 1]
    <3> HIDE DEF n
    <3> QED
      BY <1>3, <1>6, <1>7, HeadTailProperties
  <2> HIDE DEF n, u
  <2> QED
    BY <1>3, <1>5, <1>6, <2>1, SeqEqual
<1> QED
  BY <1>2, <1>7, <1>8 DEF QueueStep, Queue!Next, Queue!Take, Contents

LEMMA QueueSteps ==
    ASSUME TypedInv, HoldsOldest, [Next]_vars
    PROVE  QueueStep \/ "torn" \in lost'
<1>0. TypeOK /\ curproc \in Users /\ tty \in Terminals
  BY DEF TypedInv, OneInKernel, TypeOK
<1>1. tty' = tty /\ (taken' = taken \/ taken' = NoChar) => QueueStep
  BY QuietQueue
<1>2. ASSUME NEW p \in Users, ReadStep(p) PROVE QueueStep \/ "torn" \in lost'
  <2>1. CASE Test(p) \/ Mark(p) \/ Doze(p) \/ Swtch(p) \/ Woken(p) \/ Copy(p)
    BY <1>1, <2>1 DEF Test, Mark, Doze, Swtch, Woken, Copy, Return
  <2>2. CASE CopyNext(p)
    <3>1. curproc = p /\ pc[curproc] = "next" /\ lost' = lost /\ taken' = call[p].c
          /\ tty' = [tty EXCEPT !.tail = (@ + 1) % TTY_BUFSZ]
      BY <2>2 DEF CopyNext, At
    <3>2. CASE "torn" \notin lost
      BY <1>0, <3>1, <3>2, TakeQueue DEF HoldsOldest
    <3> QED
      BY <3>1, <3>2
  <2>3. CASE Clear(p)
    <3>1. tty'.inq = tty.inq /\ tty'.head = tty.head /\ tty'.tail = tty.tail
      BY <1>0, <2>3 DEF Clear, Terminals
    <3> QED
      BY <2>3, <3>1, QuietQueue DEF Clear, Return
  <2> QED
    BY <1>2, <2>1, <2>2, <2>3 DEF ReadStep
<1>3. ASSUME NEW p, Block(p) \/ Unblock(p) PROVE QueueStep
  BY <1>1, <1>3 DEF Block, Unblock, Return
<1>4. ASSUME NEW p \in Users, NEW mode \in Modes, NEW flush \in BOOLEAN, SetMode(p, mode, flush)
      PROVE  QueueStep
  BY <1>0, <1>4, SetModeFacts, QuietQueue
<1>6. ASSUME NEW p \in Users, FlushInput(p) PROVE QueueStep
  BY <1>0, <1>6, FlushInputFacts, QuietQueue, FlushQueue
<1>5. ASSUME NEW p, NEW c \in Keys, Poll(p, c) \/ Interrupt(c) PROVE QueueStep
  BY <1>0, <1>5, KeyQueue DEF Poll, Interrupt
<1> QED
  BY <1>1, <1>2, <1>3, <1>4, <1>5, <1>6 DEF Next, vars, Read, Kill, Tick

\* tty.c's ring implements the queue of TypeAhead: whatever interrupts, positions
\* that wrap and lines that do not fit, readers get the characters in the order
\* in which they arrived, each once, until a ^C falls between the halves of
\* inq_get().
THEOREM TtyQueue == Spec => QueueUntilTorn
<1>1. TypedInv /\ HoldsOldest /\ [Next]_vars =>
          [Queue!Next \/ "torn" \in lost']_<<Contents, taken>>
  BY QueueSteps DEF QueueStep
<1> QED
  BY <1>1, TypedAlways, HoldsAlways, PTL DEF Spec, QueueUntilTorn

-----------------------------------------------------------------------------
(* Lines stay visible *)

\* What a key that wakes nobody leaves alone, and what a key in canonical mode
\* may do.
LEMMA KeyLeaves ==
    ASSUME TypeOK, NEW c \in Keys, tty_inproc(c)
    PROVE  /\ tty'.mode = tty.mode
           /\ \/ Wakes(tty, c)
              \/ inq_count(tty') = inq_count(tty) /\ tty'.ready = tty.ready
           /\ tty.mode.icanon =>
                 \/ inq_count(tty') = inq_count(tty) /\ tty'.ready = tty.ready
                 \/ inq_count(tty') = 0
                 \/ tty'.ready
           /\ tty.mode.icanon /\ ~Completes(tty, c) =>
                 inq_count(tty') \in {inq_count(tty), 0}
<1>0. tty \in Terminals /\ Len(tty.canon_buf) < TTY_BUFSZ /\ tty' = Process(tty, c)
  BY DEF TypeOK, tty_inproc
<1>2. ASSUME tty.mode.icanon, ~Completes(tty, c)
      PROVE  inq_count(tty') \in {inq_count(tty), 0}
  <2>1. CASE Flushes(tty, c)
    BY <1>0, <2>1, ProcessFacts
  <2>2. CASE ~Wakes(tty, c)
    BY <1>0, <2>2, ProcessFacts, SameRing DEF EditsLine
  <2>3. CASE Wakes(tty, c) /\ ~Flushes(tty, c)
    BY <1>0, <1>2, <2>3 DEF Wakes, Completes, Flushes, Process
  <2> QED
    BY <2>1, <2>2, <2>3
<1>1. EditsLine(tty, tty') => inq_count(tty') = inq_count(tty) /\ tty'.ready = tty.ready
  BY SameRing DEF EditsLine
<1> QED
  BY <1>0, <1>1, <1>2, ProcessFacts

VisibleWindow == lost \cap {"forgot", "torn", "switched"} # {}
LineVisible == tty.mode.icanon /\ inq_count(tty) > 0 => tty.ready
Clears == {"clear", "drop", "unready"}
ClearWhenEmpty == tty.mode.icanon /\ pc[curproc] \in Clears => inq_count(tty) = 0

LEMMA ClearStep ==
    ASSUME TypedInv, VisibleInv, [Next]_vars, ~VisibleWindow'
    PROVE  ClearWhenEmpty'
<1> SUFFICES ASSUME tty'.mode.icanon, pc'[curproc'] \in Clears
             PROVE  inq_count(tty') = 0
  BY DEF ClearWhenEmpty
<1>0. TypeOK /\ curproc \in Users /\ curproc \in Procs
  BY ProcFacts DEF TypedInv, OneInKernel
<1>1. "forgot" \notin lost' /\ ClearWhenEmpty
  BY LostStays DEF VisibleInv, VisibleWindow, ClearWhenEmpty, Clears
<1>2. /\ curproc' = curproc
      /\ \/ ReadStep(curproc)
         \/ FlushInput(curproc)
         \/ UNCHANGED vars
         \/ \E c \in Keys : KernelInterrupt(c)
  BY InTheMiddle DEF Middle, Clears
<1>3. CASE ReadStep(curproc)
  <2>1. \A where : GoTo(curproc, where) => where \in Clears
    BY <1>0, <1>2 DEF GoTo, TypeOK
  <2>2. Copy(curproc) /\ inq_count(tty) = 0
    BY <1>3, <2>1 DEF Clears, ReadStep, Test, Mark, Doze, Swtch, Woken, Copy, CopyNext, Clear, Return
  <2> QED
    BY <2>2 DEF Copy
<1>4. CASE UNCHANGED vars
  BY <1>1, <1>2, <1>4 DEF vars, ClearWhenEmpty
<1>5. ASSUME NEW c \in Keys, KernelInterrupt(c) PROVE inq_count(tty') = 0
  <2>1. /\ pc[curproc] \in Clears /\ tty_inproc(c) /\ lost' = lost \cup Hits(c)
        /\ tty' = Process(tty, c)
    BY <1>2, <1>5 DEF KernelInterrupt, Interrupt, tty_inproc
  <2>2. ~Completes(tty, c)
    BY <1>1, <2>1 DEF Hits, Clears
  <2>3. tty.mode.icanon /\ inq_count(tty) = 0
    BY <1>0, <1>1, <2>1, KeyLeaves DEF ClearWhenEmpty
  <2> QED
    BY <1>0, <2>1, <2>2, <2>3, KeyLeaves
<1>6. CASE FlushInput(curproc)
  <2>1. tty.mode.icanon
    BY <1>0, <1>6, FlushInputFacts
  <2> QED
    BY <1>0, <1>1, <1>6, <2>1, FlushInputFacts DEF ClearWhenEmpty, Clears
<1> QED
  BY <1>2, <1>3, <1>4, <1>5, <1>6

LEMMA VisibleStep ==
    ASSUME TypedInv, HoldsOldest, VisibleInv, [Next]_vars
    PROVE  VisibleInv'
<1> SUFFICES ASSUME ~VisibleWindow' PROVE LineVisible' /\ ClearWhenEmpty'
  BY DEF VisibleInv, VisibleWindow, LineVisible, ClearWhenEmpty, Clears
<1>0. TypeOK /\ curproc \in Users /\ tty \in Terminals /\ inq_count(tty) \in Nat
  BY CountIs, RingSize DEF TypedInv, OneInKernel, TypeOK
<1>1. ClearWhenEmpty'
  BY ClearStep
<1>2. /\ LineVisible /\ ClearWhenEmpty
      /\ "torn" \notin lost /\ "switched" \notin lost'
  BY LostStays DEF VisibleInv, VisibleWindow, LineVisible, ClearWhenEmpty, Clears
<1>3. tty' = tty => LineVisible'
  BY <1>2 DEF LineVisible
<1>4. ASSUME NEW p \in Users, ReadStep(p) PROVE LineVisible'
  <2>1. CASE Test(p) \/ Mark(p) \/ Doze(p) \/ Swtch(p) \/ Woken(p) \/ Copy(p)
    BY <1>3, <2>1 DEF Test, Mark, Doze, Swtch, Woken, Copy
  <2>2. CASE CopyNext(p)
    <3>1. inq_count(tty) > 0
      BY <1>2, <2>2 DEF CopyNext, At, HoldsOldest
    <3>2. tty'.mode = tty.mode /\ tty'.ready = tty.ready
      BY <1>0, <2>2 DEF CopyNext, Terminals
    <3> QED
      BY <1>2, <3>1, <3>2 DEF LineVisible
  <2>3. CASE Clear(p)
    <3>1. tty'.inq = tty.inq /\ tty'.head = tty.head /\ tty'.tail = tty.tail
          /\ tty'.mode = tty.mode
      BY <1>0, <2>3 DEF Clear, Terminals
    <3>2. inq_count(tty') = inq_count(tty)
      BY <3>1, SameRing
    <3> QED
      BY <1>2, <2>3, <3>1, <3>2 DEF LineVisible, ClearWhenEmpty, Clears, Clear, At
  <2> QED
    BY <1>4, <2>1, <2>2, <2>3 DEF ReadStep
<1>5. ASSUME NEW p \in Users, NEW mode \in Modes, NEW flush \in BOOLEAN, SetMode(p, mode, flush)
      PROVE  LineVisible'
  <2>1. /\ tty'.ready = tty.ready /\ tty'.mode = mode
        /\ inq_count(tty') = inq_count(tty)
    BY <1>0, <1>5, SetModeFacts
  <2>2. CASE mode.icanon # tty.mode.icanon
    <3>1. ~(inq_count(tty) > 0)
      BY <1>2, <1>5, <2>2 DEF SetMode
    <3> QED
      BY <2>1, <3>1 DEF LineVisible
  <2>3. CASE mode.icanon = tty.mode.icanon
    BY <1>2, <2>1, <2>3 DEF LineVisible
  <2> QED
    BY <2>2, <2>3
<1>7. ASSUME NEW p \in Users, FlushInput(p) PROVE LineVisible'
  <2>1. /\ curproc = p /\ tty'.mode = tty.mode
        /\ \/ inq_count(tty') = 0
           \/ inq_count(tty') = inq_count(tty) /\ tty'.ready = tty.ready
           \/ inq_count(tty') = inq_count(tty) /\ pc[p] = "unready"
    BY <1>0, <1>7, FlushInputFacts
  <2>2. ~(0 > 0)
    OBVIOUS
  <2> QED
    BY <1>2, <2>1, <2>2 DEF LineVisible, ClearWhenEmpty, Clears
<1>6. ASSUME NEW p, NEW c \in Keys, Poll(p, c) \/ Interrupt(c) PROVE LineVisible'
  <2>1. tty_inproc(c)
    BY <1>6 DEF Poll, Interrupt
  <2> QED
    BY <1>0, <1>2, <2>1, KeyLeaves DEF LineVisible
<1> QED
  BY <1>1, <1>3, <1>4, <1>5, <1>6, <1>7
     DEF Next, vars, Read, Kill, Tick, Block, Unblock

\* tty_read() and TCSETSF do not hide a complete line: canon_ready is not cleared
\* under a line that an interrupt has just brought, but between the test for a
\* drained queue, or the emptying of it, and the assignment.
THEOREM TtyLinesVisible == Spec => []LinesStayVisible
<1>1. Init => VisibleInv
  <2> SUFFICES ASSUME Init PROVE inq_count(tty) = 0
    BY DEF VisibleInv
  <2>1. tty.head = 0 /\ tty.tail = 0
    BY DEF Init
  <2>2. tty \in Terminals
    BY TypesInit DEF TypeOK
  <2> QED
    BY <2>1, <2>2, CountIs
<1>2. TypedInv /\ HoldsOldest /\ VisibleInv /\ [Next]_vars => VisibleInv'
  BY VisibleStep
<1>3. VisibleInv => LinesStayVisible
  BY DEF VisibleInv, LinesStayVisible
<1> QED
  BY <1>1, <1>2, <1>3, TypedAlways, HoldsAlways, PTL DEF Spec

-----------------------------------------------------------------------------
(* Wakeups *)

SleepWindow == lost \cap {"late", "missed", "overwritten"} # {}

\* What lets a process that sleeps in tty_read() sleep on.
LEMMA KeepsWaiting ==
    ASSUME NEW p \in Users, WillWake(p), lost \subseteq lost',
           SleepWindow' \/ waiting' = waiting,
           p \in sig_pending' => p \in sig_pending, call'[p] = call[p],
           inq_count(tty') > 0 => inq_count(tty) > 0, tty'.ready => tty.ready
    PROVE  WillWake(p)'
BY DEF WillWake, Waits, Available, SleepWindow

LEMMA KeepsWaitingStill ==
    ASSUME NEW p \in Users, WillWake(p), lost \subseteq lost', waiting' = waiting, tty' = tty,
           p \in sig_pending' => p \in sig_pending, call'[p] = call[p]
    PROVE  WillWake(p)'
BY KeepsWaiting

\* The point p is at is nobody else's business, and so is its call.
LEMMA Bystander ==
    ASSUME TypedInv, [Next]_vars, NEW p \in Users, p # curproc
    PROVE  pc'[p] = pc[p] /\ call'[p] = call[p]
<1>0. TypeOK /\ p \in Procs
  BY ProcFacts DEF TypedInv
<1>1. ASSUME NEW where, GoTo(curproc, where) PROVE pc'[p] = pc[p]
  BY <1>0, <1>1 DEF GoTo, TypeOK
<1>2. ASSUME NEW r, call' = [call EXCEPT ![curproc] = r] PROVE call'[p] = call[p]
  BY <1>0, <1>2 DEF TypeOK
<1>3. ASSUME NEW windows, Return(curproc, windows) PROVE pc'[p] = pc[p] /\ call'[p] = call[p]
  BY <1>1, <1>2, <1>3 DEF Return
<1>4. ASSUME NEW q \in Users, ReadStep(q) PROVE pc'[p] = pc[p] /\ call'[p] = call[p]
  <2>1. q = curproc
    BY <1>4 DEF ReadStep, Test, Mark, Doze, Swtch, Woken, Copy, CopyNext, Clear, At
  <2>2. CASE Test(q) \/ Mark(q) \/ Doze(q) \/ Swtch(q) \/ Woken(q) \/ Clear(q)
    BY <1>1, <1>3, <2>1, <2>2 DEF Test, Mark, Doze, Swtch, Woken, Clear
  <2>3. CASE CopyNext(q)
    <3>1. call' = [call EXCEPT ![curproc].len = @ - 1] /\ GoTo(curproc, "copy")
      BY <2>1, <2>3 DEF CopyNext
    <3> QED
      BY <1>0, <1>1, <3>1 DEF TypeOK
  <2>4. CASE Copy(q)
    <3>1. CASE call' = [call EXCEPT ![curproc].c = tty.inq[tty.tail]] /\ GoTo(curproc, "next")
      BY <1>0, <1>1, <3>1 DEF TypeOK
    <3> QED
      BY <1>1, <1>3, <2>1, <2>4, <3>1 DEF Copy
  <2> QED
    BY <1>4, <2>2, <2>3, <2>4 DEF ReadStep
<1>5. ASSUME NEW q, Block(q) \/ Unblock(q) PROVE pc'[p] = pc[p] /\ call'[p] = call[p]
  <2>1. q = curproc
    BY <1>5 DEF Block, Unblock, At, InUser
  <2> QED
    BY <1>1, <1>3, <1>5, <2>1 DEF Block, Unblock
<1>6. ASSUME NEW q, NEW len, Read(q, len) PROVE pc'[p] = pc[p] /\ call'[p] = call[p]
  <2>1. q = curproc
    BY <1>6 DEF Read, InUser
  <2> QED
    BY <1>1, <1>2, <1>6, <2>1 DEF Read
<1>7. ASSUME NEW q \in Users, NEW mode \in Modes, NEW flush \in BOOLEAN,
             SetMode(q, mode, flush)
      PROVE  pc'[p] = pc[p] /\ call'[p] = call[p]
  <2>1. q = curproc /\ call' = call /\ \E where \in {"flush", "user"} : GoTo(q, where)
    BY <1>0, <1>7, SetModeFacts
  <2> QED
    BY <1>1, <2>1
<1>8. ASSUME NEW q \in Users, FlushInput(q) PROVE pc'[p] = pc[p] /\ call'[p] = call[p]
  <2>1. q = curproc /\ call' = call
        /\ \E where \in {"drop", "unready", "user"} : GoTo(q, where)
    BY <1>0, <1>8, FlushInputFacts
  <2> QED
    BY <1>1, <2>1
<1> QED
  BY <1>4, <1>5, <1>6, <1>7, <1>8 DEF Next, vars, Poll, Kill, Tick, Interrupt

InUserMode == {"user", "flush", "drop", "unready"}

\* A process asleep in user mode, or in a flush, got there by a return that left
\* it so.
SleepsWell(p) ==
    state[p] = "P_SLEEPING" =>
        /\ pc[p] \in InUserMode => "asleep" \in lost
        /\ pc[p] \in {"swtch", "woken"} => WillWake(p)

LEMMA KeySleeps ==
    ASSUME TypedInv, NEW p \in Users, SleepsWell(p), NEW c \in Keys, tty_inproc(c),
           UNCHANGED <<pc, call>>, lost \subseteq lost',
           state'[p] = "P_SLEEPING" => AfterKey(c)[p] = "P_SLEEPING",
           p \in sig_pending' => p \in Signalled(c)
    PROVE  SleepsWell(p)'
<1> SUFFICES ASSUME state'[p] = "P_SLEEPING"
             PROVE  /\ pc'[p] \in InUserMode => "asleep" \in lost'
                    /\ pc'[p] \in {"swtch", "woken"} => WillWake(p)'
  BY DEF SleepsWell
<1>0. TypeOK /\ OneInKernel /\ p \in Procs
  BY ProcFacts DEF TypedInv
<1>1. state[p] = "P_SLEEPING" /\ (Wakes(tty, c) => waiting # p + 1)
  BY <1>0, KeyFacts
<1>2. CASE Wakes(tty, c)
  BY <1>1, <1>2 DEF SleepsWell, WillWake
<1>3. CASE ~Wakes(tty, c)
  <2>1. /\ inq_count(tty') = inq_count(tty) /\ tty'.ready = tty.ready
        /\ waiting' = waiting /\ Signalled(c) = sig_pending
    BY <1>0, <1>3, KeyLeaves DEF tty_inproc, Signalled, Wakes
  <2>2. WillWake(p) => WillWake(p)'
    BY <2>1, KeepsWaiting
  <2> QED
    BY <1>1, <2>2 DEF SleepsWell
<1> QED
  BY <1>2, <1>3

\* A step after which p's place and sleep are as before and nothing came for it.
LEMMA StillSleeps ==
    ASSUME NEW p \in Users, SleepsWell(p), lost \subseteq lost',
           state'[p] = "P_SLEEPING" => state[p] = "P_SLEEPING",
           pc'[p] = pc[p], WillWake(p) => WillWake(p)'
    PROVE  SleepsWell(p)'
BY DEF SleepsWell

\* curproc goes to a place where sleeping is no matter of SleepsWell's.
LEMMA CurprocElsewhere ==
    ASSUME TypedInv, NEW where, GoTo(curproc, where),
           where \notin InUserMode \cup {"swtch", "woken"}, NEW p, p = curproc
    PROVE  SleepsWell(p)'
<1>1. pc'[p] = where
  BY ProcFacts DEF TypedInv, OneInKernel, TypeOK, GoTo
<1> QED
  BY <1>1 DEF SleepsWell

\* curproc goes on in user mode or in a flush.
LEMMA CurprocStays ==
    ASSUME TypedInv, NEW where \in InUserMode, GoTo(curproc, where), pc[curproc] \in InUserMode,
           UNCHANGED state, lost \subseteq lost', NEW p, p = curproc, SleepsWell(p)
    PROVE  SleepsWell(p)'
<1>1. pc'[p] = where
  BY ProcFacts DEF TypedInv, OneInKernel, TypeOK, GoTo
<1> QED
  BY <1>1 DEF SleepsWell, InUserMode

LEMMA CurprocReturns ==
    ASSUME TypedInv, NEW windows, Return(curproc, windows), UNCHANGED state, NEW p, p = curproc
    PROVE  SleepsWell(p)'
<1>1. pc'[p] = "user"
  BY ProcFacts DEF TypedInv, OneInKernel, TypeOK, Return, GoTo
<1> QED
  BY <1>1 DEF SleepsWell, Return

\* The steps of tty_read().
LEMMA ReaderSleeps ==
    ASSUME TypedInv, SleepInv, [Next]_vars, ReadStep(curproc), NEW p \in Users
    PROVE  SleepsWell(p)'
<1>0. /\ TypeOK /\ OneInKernel /\ curproc \in Users /\ curproc \in Procs /\ p \in Procs
      /\ p \in Nat /\ tty \in Terminals
      /\ state \in [Procs -> ProcStates] /\ OnlyUsersReady(state)
  BY ProcFacts DEF TypedInv, OneInKernel, TypeOK, OnlyUsersReady
<1>1. SleepsWell(p)
  BY DEF SleepInv, SleepsWell, InUserMode
<1>2. lost \subseteq lost'
  BY LostStays
<1>3. p # curproc => pc'[p] = pc[p] /\ call'[p] = call[p]
  BY Bystander
<1>4. CASE Test(curproc) \/ Copy(curproc)
  <2>1. UNCHANGED <<state, tty, waiting>>
    BY <1>4 DEF Test, Copy
  <2>2. CASE p = curproc
    BY <1>4, <2>1, <2>2, CurprocElsewhere, CurprocReturns DEF Test, Copy, InUserMode
  <2>3. CASE p # curproc
    <3>1. sig_pending' \subseteq sig_pending
      BY <1>4 DEF Test, Copy, Return
    <3> QED
      BY <1>1, <1>2, <1>3, <2>1, <2>3, <3>1, KeepsWaitingStill, StillSleeps
  <2> QED
    BY <2>2, <2>3
<1>5. CASE Mark(curproc)
  <2>1. CASE p = curproc
    BY <1>5, <2>1, CurprocElsewhere DEF Mark, InUserMode
  <2>2. CASE p # curproc
    <3>1. UNCHANGED <<state, tty, sig_pending>>
          /\ lost' = IF waiting = 0 THEN lost ELSE lost \cup {"overwritten"}
      BY <1>5 DEF Mark
    <3>2. p + 1 # 0
      BY <1>0
    <3>3. WillWake(p) => SleepWindow'
      BY <1>2, <3>1, <3>2 DEF WillWake, SleepWindow
    <3>4. WillWake(p) => WillWake(p)'
      BY <3>3 DEF WillWake, SleepWindow
    <3> QED
      BY <1>1, <1>2, <1>3, <2>2, <3>1, <3>4, StillSleeps
  <2> QED
    BY <2>1, <2>2
<1>6. CASE Doze(curproc)
  <2>1. UNCHANGED <<tty, waiting, sig_pending, call, lost>>
        /\ state' = [state EXCEPT ![curproc] = "P_SLEEPING"]
        /\ pc[curproc] = "doze"
    BY <1>6 DEF Doze, At
  <2>2. WillWake(p) => WillWake(p)'
    BY <2>1, KeepsWaitingStill
  <2>3. CASE p = curproc
    <3>1. WillWake(p)
      BY <2>1, <2>3 DEF SleepInv
    <3>2. pc'[p] = "swtch"
      BY <1>0, <1>6, <2>3 DEF Doze, GoTo, TypeOK
    <3> QED
      BY <2>2, <3>1, <3>2 DEF SleepsWell, InUserMode
  <2>4. CASE p # curproc
    <3>1. state'[p] = state[p]
      BY <1>0, <2>1, <2>4
    <3> QED
      BY <1>1, <1>2, <1>3, <2>2, <2>4, <3>1, StillSleeps
  <2> QED
    BY <2>3, <2>4
<1>7. CASE Swtch(curproc)
  <2>1. UNCHANGED <<tty, waiting, sig_pending, call, lost>> /\ pc[curproc] = "swtch"
    BY <1>7 DEF Swtch, At
  <2>2. WillWake(p) => WillWake(p)'
    BY <2>1, KeepsWaitingStill
  <2>3. state'[p] = "P_SLEEPING" => state[p] = "P_SLEEPING"
    BY <1>0, <1>7, ScheduleFacts DEF Swtch
  <2>4. CASE p = curproc
    <3>1. pc'[p] = "woken"
      BY <1>0, <1>7, <2>4 DEF Swtch, GoTo, TypeOK
    <3> QED
      BY <1>1, <2>1, <2>2, <2>3, <2>4, <3>1 DEF SleepsWell, InUserMode
  <2>5. CASE p # curproc
    BY <1>1, <1>2, <1>3, <2>2, <2>3, <2>5, StillSleeps
  <2> QED
    BY <2>4, <2>5
<1>8. CASE Woken(curproc)
  <2> DEFINE windows == IF waiting \in {0, curproc + 1} THEN {} ELSE {"overwritten"}
  <2>1. UNCHANGED state
        /\ \/ Return(curproc, windows)
           \/ GoTo(curproc, "test") /\ lost' = lost \cup windows
    BY <1>8 DEF Woken
  <2>2. windows \subseteq lost'
    BY <2>1 DEF Return
  <2>3. CASE p = curproc
    BY <2>1, <2>3, CurprocElsewhere, CurprocReturns DEF InUserMode
  <2>4. CASE p # curproc
    <3>1. p + 1 # 0 /\ p + 1 # curproc + 1
      BY <1>0, <2>4, ProcFacts
    <3>2. WillWake(p) => SleepWindow'
      BY <1>2, <2>2, <3>1 DEF WillWake, SleepWindow
    <3>3. WillWake(p) => WillWake(p)'
      BY <3>2 DEF WillWake, SleepWindow
    <3> QED
      BY <1>1, <1>2, <1>3, <2>1, <2>4, <3>3, StillSleeps
  <2> QED
    BY <2>3, <2>4
<1>9. CASE CopyNext(curproc)
  <2>1. UNCHANGED <<state, waiting, sig_pending, lost>> /\ pc[curproc] = "next"
    BY <1>9 DEF CopyNext, At
  <2>2. CASE p = curproc
    BY <1>9, <2>2, CurprocElsewhere DEF CopyNext, InUserMode
  <2>3. CASE p # curproc
    <3>1. tty'.ready = tty.ready
      BY <1>0, <1>9 DEF CopyNext, Terminals
    <3>2. WillWake(p) => WillWake(p)'
      <4>1. CASE inq_count(tty) = 0
        <5>1. waiting = 0 /\ p + 1 # 0
          BY <1>0, <2>1, <4>1 DEF SleepInv, TornFreesSlot
        <5> QED
          BY <2>1, <5>1 DEF WillWake
      <4>2. CASE inq_count(tty) # 0
        <5>1. inq_count(tty) > 0
          BY <1>0, <4>2, CountIs, RingSize
        <5> QED
          BY <1>2, <1>3, <2>1, <2>3, <3>1, <5>1, KeepsWaiting
      <4> QED
        BY <4>1, <4>2
    <3> QED
      BY <1>1, <1>2, <1>3, <2>1, <2>3, <3>2, StillSleeps
  <2> QED
    BY <2>2, <2>3
<1>10. CASE Clear(curproc)
  <2>1. UNCHANGED <<state, waiting>> /\ Return(curproc, {})
    BY <1>10 DEF Clear
  <2>2. CASE p = curproc
    BY <2>1, <2>2, CurprocReturns
  <2>3. CASE p # curproc
    <3>1. /\ tty'.inq = tty.inq /\ tty'.head = tty.head /\ tty'.tail = tty.tail
          /\ tty'.ready = FALSE
      BY <1>0, <1>10 DEF Clear, Terminals
    <3>2. inq_count(tty') = inq_count(tty) /\ (tty'.ready => tty.ready)
      BY <3>1, SameRing
    <3>3. sig_pending' \subseteq sig_pending
      BY <2>1 DEF Return
    <3>4. WillWake(p) => WillWake(p)'
      BY <1>2, <1>3, <2>1, <2>3, <3>2, <3>3, KeepsWaiting
    <3> QED
      BY <1>1, <1>2, <1>3, <2>1, <2>3, <3>4, StillSleeps
  <2> QED
    BY <2>2, <2>3
<1> QED
  BY <1>4, <1>5, <1>6, <1>7, <1>8, <1>9, <1>10 DEF ReadStep

LEMMA SleeperStep ==
    ASSUME TypedInv, SleepInv, [Next]_vars, NEW p \in Users
    PROVE  SleepsWell(p)'
<1>0. /\ TypeOK /\ OneInKernel /\ curproc \in Users /\ curproc \in Procs /\ p \in Procs
      /\ p \in Nat /\ tty \in Terminals
      /\ state \in [Procs -> ProcStates] /\ OnlyUsersReady(state)
  BY ProcFacts DEF TypedInv, OneInKernel, TypeOK, OnlyUsersReady
<1>1. SleepsWell(p)
  BY DEF SleepInv, SleepsWell, InUserMode
<1>2. lost \subseteq lost'
  BY LostStays
<1>3. p # curproc => pc'[p] = pc[p] /\ call'[p] = call[p]
  BY Bystander
<1>4. ASSUME NEW q \in Users, ReadStep(q) PROVE SleepsWell(p)'
  <2>1. q = curproc
    BY <1>4 DEF ReadStep, Test, Mark, Doze, Swtch, Woken, Copy, CopyNext, Clear, At
  <2> QED
    BY <1>4, <2>1, ReaderSleeps
<1>5. ASSUME NEW q \in Users, Block(q) PROVE SleepsWell(p)'
  <2>1. q = curproc /\ UNCHANGED <<tty, waiting, sig_pending, call, lost>>
        /\ Schedule([state EXCEPT ![q] = "P_SLEEPING"]) /\ GoTo(q, "elsewhere")
    BY <1>5 DEF Block, InUser, At
  <2>2. CASE p = q
    BY <2>1, <2>2, CurprocElsewhere DEF InUserMode
  <2>3. CASE p # q
    <3> DEFINE s == [state EXCEPT ![q] = "P_SLEEPING"]
    <3>1. s \in [Procs -> ProcStates] /\ OnlyUsersReady(s) /\ s[p] = state[p]
      BY <1>0, <2>1, <2>3, ProcFacts DEF ProcStates, OnlyUsersReady
    <3>2. state'[p] = "P_SLEEPING" => state[p] = "P_SLEEPING"
      BY <1>0, <2>1, <3>1, ScheduleFacts
    <3>3. WillWake(p) => WillWake(p)'
      BY <2>1, KeepsWaitingStill
    <3> QED
      BY <1>1, <1>2, <1>3, <2>1, <2>3, <3>2, <3>3, StillSleeps
  <2> QED
    BY <2>2, <2>3
<1>6. ASSUME NEW q \in Users, Unblock(q) PROVE SleepsWell(p)'
  <2>1. q = curproc /\ UNCHANGED <<state, tty, waiting>> /\ Return(q, {})
    BY <1>6 DEF Unblock, At
  <2>2. CASE p = q
    BY <2>1, <2>2, CurprocReturns
  <2>3. CASE p # q
    <3>1. sig_pending' \subseteq sig_pending
      BY <2>1 DEF Return
    <3> QED
      BY <1>1, <1>2, <1>3, <2>1, <2>3, <3>1, KeepsWaitingStill, StillSleeps
  <2> QED
    BY <2>2, <2>3
<1>7. ASSUME NEW q, NEW len, Read(q, len) PROVE SleepsWell(p)'
  <2>1. q = curproc /\ UNCHANGED <<state, tty, waiting, sig_pending, lost>> /\ GoTo(q, "test")
    BY <1>7 DEF Read, InUser
  <2>2. CASE p = q
    BY <2>1, <2>2, CurprocElsewhere DEF InUserMode
  <2>3. CASE p # q
    BY <1>1, <1>2, <1>3, <2>1, <2>3, KeepsWaitingStill, StillSleeps
  <2> QED
    BY <2>2, <2>3
<1>8. ASSUME NEW q, NEW c \in Keys, Poll(q, c) PROVE SleepsWell(p)'
  BY <1>1, <1>2, <1>8, KeySleeps DEF Poll
<1>9. ASSUME NEW s \in [Procs -> ProcStates], OnlyUsersReady(s), Resume(s)
      PROVE  state'[p] = "P_SLEEPING" => s[p] = "P_SLEEPING"
  BY <1>0, <1>9, ScheduleFacts DEF Resume
<1>10. ASSUME NEW c \in Keys, Interrupt(c) PROVE SleepsWell(p)'
  <2>1. AfterKey(c) \in [Procs -> ProcStates] /\ OnlyUsersReady(AfterKey(c))
    BY <1>0, KeyFacts
  <2>2. state'[p] = "P_SLEEPING" => AfterKey(c)[p] = "P_SLEEPING"
    BY <1>9, <1>10, <2>1 DEF Interrupt
  <2>3. sig_pending' \subseteq Signalled(c)
    BY <1>10 DEF Interrupt, Delivered
  <2> QED
    BY <1>1, <1>2, <1>10, <2>2, <2>3, KeySleeps DEF Interrupt
<1>11. CASE Tick
  <2>1. state'[p] = "P_SLEEPING" => state[p] = "P_SLEEPING"
    BY <1>0, <1>9, <1>11 DEF Tick
  <2>2. sig_pending' \subseteq sig_pending /\ UNCHANGED <<tty, waiting, pc, call, lost>>
    BY <1>11 DEF Tick, Delivered
  <2> QED
    BY <1>1, <1>2, <2>1, <2>2, KeepsWaitingStill, StillSleeps
<1>12. ASSUME NEW q \in Users, q = curproc, UNCHANGED <<state, waiting, sig_pending, call>>,
              inq_count(tty') \in {inq_count(tty), 0}, tty'.ready => tty.ready,
              pc[q] \in InUserMode, NEW where \in InUserMode, GoTo(q, where)
       PROVE  SleepsWell(p)'
  <2>1. CASE p = q
    BY <1>1, <1>2, <1>12, <2>1, CurprocStays
  <2>2. CASE p # q
    <3>1. ~(0 > 0)
      OBVIOUS
    <3>2. WillWake(p) => WillWake(p)'
      BY <1>2, <1>3, <1>12, <2>2, <3>1, KeepsWaiting
    <3> QED
      BY <1>1, <1>2, <1>3, <1>12, <2>2, <3>2, StillSleeps
  <2> QED
    BY <2>1, <2>2
<1>15. ASSUME NEW q \in Users, NEW mode \in Modes, NEW flush \in BOOLEAN,
              SetMode(q, mode, flush)
       PROVE  SleepsWell(p)'
  BY <1>0, <1>12, <1>15, SetModeFacts DEF InUserMode
<1>16. ASSUME NEW q \in Users, FlushInput(q) PROVE SleepsWell(p)'
  BY <1>0, <1>12, <1>16, FlushInputFacts DEF InUserMode
<1>13. ASSUME NEW r \in Users, NEW q \in Users, Kill(r, q) PROVE SleepsWell(p)'
  <2>1. /\ state' = Wakeup(state, q) /\ sig_pending' = sig_pending \cup {q}
        /\ UNCHANGED <<tty, waiting, pc, call, lost>>
    BY <1>13 DEF Kill
  <2>2. state'[p] = "P_SLEEPING" => state[p] = "P_SLEEPING" /\ p # q
    BY <1>0, <2>1, WakeupFacts
  <2>3. p # q /\ WillWake(p) => WillWake(p)'
    BY <2>1, KeepsWaitingStill
  <2> QED
    BY <1>1, <1>2, <2>1, <2>2, <2>3 DEF SleepsWell
<1>14. CASE UNCHANGED vars
  BY <1>1, <1>14 DEF SleepsWell, vars, WillWake, Waits, Available
<1> QED
  BY <1>4, <1>5, <1>6, <1>7, <1>8, <1>10, <1>11, <1>13, <1>14, <1>15, <1>16 DEF Next

\* What is known at "next", "mark" and "doze".
LEMMA MiddleStep ==
    ASSUME TypedInv, SleepInv, [Next]_vars
    PROVE  /\ TornFreesSlot'
           /\ (pc[curproc] = "mark" => "late" \in lost \/ Waits(curproc))'
           /\ (pc[curproc] = "doze" => WillWake(curproc))'
<1>0. TypeOK /\ curproc \in Users /\ curproc \in Procs /\ tty \in Terminals
  BY ProcFacts DEF TypedInv, OneInKernel, TypeOK
<1>1. pc'[curproc'] \in {"next", "mark", "doze"} =>
         /\ curproc' = curproc
         /\ \/ ReadStep(curproc)
            \/ UNCHANGED vars
            \/ \E c \in Keys : KernelInterrupt(c)
  BY InTheMiddle, FlushGoes DEF Middle
<1>2. ASSUME curproc' = curproc, NEW where, GoTo(curproc, where) PROVE pc'[curproc'] = where
  BY <1>0, <1>2 DEF GoTo, TypeOK
<1>3. ASSUME NEW c \in Keys, KernelInterrupt(c)
      PROVE  /\ tty_inproc(c) /\ UNCHANGED <<curproc, pc, call>>
             /\ lost' = lost \cup Hits(c)
             /\ \/ Wakes(tty, c) /\ waiting' = 0
                \/ /\ ~Wakes(tty, c) /\ waiting' = waiting /\ sig_pending' = sig_pending
                   /\ inq_count(tty') = inq_count(tty) /\ tty'.ready = tty.ready
  <2>1. /\ tty_inproc(c) /\ UNCHANGED <<curproc, pc, call>> /\ lost' = lost \cup Hits(c)
        /\ sig_pending' = Signalled(c)
    BY <1>3 DEF KernelInterrupt, Interrupt
  <2> QED
    BY <1>0, <2>1, KeyLeaves DEF tty_inproc, Signalled, Wakes
<1>4. TornFreesSlot'
  <2> SUFFICES ASSUME pc'[curproc'] = "next", inq_count(tty') = 0 PROVE waiting' = 0
    BY DEF TornFreesSlot
  <2>1. CASE ReadStep(curproc)
    <3>1. Copy(curproc) /\ inq_count(tty) > 0
      BY <1>1, <1>2, <2>1
         DEF ReadStep, Test, Mark, Doze, Swtch, Woken, Copy, CopyNext, Clear, Return
    <3>2. tty' = tty
      BY <3>1 DEF Copy
    <3> QED
      BY <3>1, <3>2
  <2>2. ASSUME NEW c \in Keys, KernelInterrupt(c) PROVE waiting' = 0
    BY <1>3, <2>2 DEF SleepInv, TornFreesSlot
  <2>3. CASE UNCHANGED vars
    BY <2>3 DEF vars, SleepInv, TornFreesSlot
  <2> QED
    BY <1>1, <2>1, <2>2, <2>3
<1>5. ASSUME pc'[curproc'] = "mark" PROVE "late" \in lost' \/ Waits(curproc)'
  <2>1. CASE ReadStep(curproc)
    <3>1. Test(curproc) /\ ~Available(call[curproc].canon) /\ curproc \notin sig_pending
          /\ UNCHANGED <<call, sig_pending>>
      BY <1>1, <1>2, <1>5, <2>1
         DEF ReadStep, Test, Mark, Doze, Swtch, Woken, Copy, CopyNext, Clear, Return
    <3>2. tty' = tty /\ curproc' = curproc
      BY <3>1 DEF Test
    <3> QED
      BY <3>1, <3>2 DEF Waits, Available
  <2>2. ASSUME NEW c \in Keys, KernelInterrupt(c) PROVE "late" \in lost' \/ Waits(curproc)'
    <3>1. pc[curproc] = "mark" /\ ("late" \in lost \/ Waits(curproc))
      BY <1>3, <1>5, <2>2 DEF SleepInv
    <3>2. CASE Wakes(tty, c)
      BY <1>3, <2>2, <3>1, <3>2 DEF Hits
    <3>3. CASE ~Wakes(tty, c)
      BY <1>3, <2>2, <3>1, <3>3 DEF Waits, Available
    <3> QED
      BY <3>2, <3>3
  <2>3. CASE UNCHANGED vars
    BY <1>5, <2>3 DEF vars, SleepInv, Waits, Available
  <2> QED
    BY <1>1, <1>5, <2>1, <2>2, <2>3
<1>6. ASSUME pc'[curproc'] = "doze" PROVE WillWake(curproc)'
  <2>1. CASE ReadStep(curproc)
    <3>1. Mark(curproc)
      BY <1>1, <1>2, <1>6, <2>1
         DEF ReadStep, Test, Mark, Doze, Swtch, Woken, Copy, CopyNext, Clear, Return
    <3>2. /\ pc[curproc] = "mark" /\ waiting' = curproc + 1
          /\ UNCHANGED <<curproc, tty, sig_pending, call>>
      BY <3>1 DEF Mark, At
    <3>3. "late" \in lost \/ Waits(curproc)
      BY <3>2 DEF SleepInv
    <3>4. lost \subseteq lost'
      BY LostStays
    <3> QED
      BY <3>2, <3>3, <3>4 DEF WillWake, Waits, Available
  <2>2. ASSUME NEW c \in Keys, KernelInterrupt(c) PROVE WillWake(curproc)'
    <3>1. pc[curproc] = "doze" /\ WillWake(curproc)
      BY <1>3, <1>6, <2>2 DEF SleepInv
    <3>2. CASE Wakes(tty, c)
      BY <1>3, <2>2, <3>1, <3>2 DEF Hits, WillWake
    <3>3. CASE ~Wakes(tty, c)
      BY <1>3, <2>2, <3>1, <3>3 DEF WillWake, Waits, Available
    <3> QED
      BY <3>2, <3>3
  <2>3. CASE UNCHANGED vars
    BY <1>6, <2>3 DEF vars, SleepInv, WillWake, Waits, Available
  <2> QED
    BY <1>1, <1>6, <2>1, <2>2, <2>3
<1> QED
  BY <1>4, <1>5, <1>6

\* Nobody who sleeps in tty_read() is forgotten: unless one of the windows around
\* "waiting = pid + 1" was hit, whoever is switched out asleep is in the slot, has
\* no signal pending and nothing to read, however many others read, are killed
\* and change modes.
THEOREM TtyWakeups == Spec => []NoLostWakeup
<1>1. Init => SleepInv
  BY ProcFacts DEF Init, SleepInv, TornFreesSlot
<1>2. TypedInv /\ SleepInv /\ [Next]_vars => SleepInv'
  <2> SUFFICES ASSUME TypedInv, SleepInv, [Next]_vars PROVE SleepInv'
    OBVIOUS
  <2>1. \A p \in Users : SleepsWell(p)'
    BY SleeperStep
  <2> QED
    BY <2>1, MiddleStep DEF SleepInv, SleepsWell, InUserMode
<1>3. TypedInv /\ SleepInv => NoLostWakeup
  <2> SUFFICES ASSUME TypedInv, SleepInv, NEW p \in Users, state[p] = "P_SLEEPING", curproc # p
               PROVE  \/ pc[p] = "elsewhere"
                      \/ pc[p] = "user" /\ "asleep" \in lost
                      \/ pc[p] = "woken" /\ WillWake(p)
    BY DEF NoLostWakeup, WillWake, Waits
  <2>1. pc[p] \in {"user", "elsewhere", "woken"}
    BY DEF TypedInv, OneInKernel
  <2> QED
    BY <2>1 DEF SleepInv
<1> QED
  BY <1>1, <1>2, <1>3, TypedAlways, PTL DEF Spec
=============================================================================
