---------------------------- MODULE Pipe_proofs ----------------------------
(***************************************************************************)
(* Theorems about Pipe, for every size of the ring, every number of        *)
(* processes and everything that programs read and write.                  *)
(***************************************************************************)
EXTENDS Pipe, SequenceTheorems, TLAPS

LEMMA TableSize ==
    /\ MAXPROC \in Nat /\ MAXPROC >= 2
    /\ 0 \in Procs /\ Procs \subseteq Nat
    /\ \A p \in Procs : p + 1 \in 1..MAXPROC /\ (p + 1) - 1 = p
    /\ \A w \in 1..MAXPROC : w - 1 \in Procs
BY MaxprocAssumption DEF Procs

-----------------------------------------------------------------------------
(* The scheduler *)

\* schedule() either returns at once or gives the CPU to another READY process.
LEMMA ScheduleCases ==
    ASSUME NEW s \in [Procs -> ProcStates], curproc \in Procs, Schedule(s)
    PROVE  \/ state' = s /\ curproc' = curproc
           \/ \E n \in Procs \ {curproc} :
                 /\ s[n] = "P_READY"
                 /\ state' = [s EXCEPT
                       ![curproc] = IF s[curproc] = "P_RUNNING" THEN "P_READY"
                                    ELSE s[curproc],
                       ![n] = "P_RUNNING"]
                 /\ curproc' = n
<1>1. CASE Runnable(s) = {}
  BY <1>1 DEF Schedule
<1>2. CASE Runnable(s) # {}
  <2>1. PICK n \in Runnable(s) : state' = SwitchTo(s, n) /\ curproc' = n
    BY <1>2 DEF Schedule
  <2>2. n \in Procs \ {curproc} /\ s[n] = "P_READY"
    BY DEF Runnable
  <2> QED
    BY <2>1, <2>2 DEF SwitchTo
<1> QED
  BY <1>1, <1>2

\* Who sleeps after schedule() slept before, and has lost the CPU or never had it.
LEMMA ScheduleFacts ==
    ASSUME NEW s \in [Procs -> ProcStates], curproc \in Procs, Schedule(s)
    PROVE  /\ state' \in [Procs -> ProcStates] /\ curproc' \in Procs
           /\ \A q \in Procs : state'[q] = "P_SLEEPING" => s[q] = "P_SLEEPING"
<1>1. CASE state' = s /\ curproc' = curproc
  BY <1>1
<1>2. CASE \E n \in Procs \ {curproc} :
                 /\ s[n] = "P_READY"
                 /\ state' = [s EXCEPT
                       ![curproc] = IF s[curproc] = "P_RUNNING" THEN "P_READY"
                                    ELSE s[curproc],
                       ![n] = "P_RUNNING"]
                 /\ curproc' = n
  BY <1>2 DEF ProcStates
<1> QED
  BY <1>1, <1>2, ScheduleCases

\* Waking a slot wakes the process it remembers, and puts nobody to sleep.
LEMMA WakeSlotFacts ==
    ASSUME NEW s \in [Procs -> ProcStates], NEW w \in 0..MAXPROC
    PROVE  /\ WakeSlot(s, w) \in [Procs -> ProcStates]
           /\ \A q \in Procs : WakeSlot(s, w)[q] = "P_SLEEPING" =>
                                  s[q] = "P_SLEEPING" /\ w # q + 1
BY TableSize DEF WakeSlot, Wakeup, ProcStates

LEMMA WakeupFacts ==
    ASSUME NEW s \in [Procs -> ProcStates], NEW t \in Procs
    PROVE  /\ Wakeup(s, t) \in [Procs -> ProcStates]
           /\ \A q \in Procs : Wakeup(s, t)[q] = "P_SLEEPING" => s[q] = "P_SLEEPING"
BY DEF Wakeup, ProcStates

-----------------------------------------------------------------------------
(* Positions in the ring *)

LEMMA RingSize == PIPE_SIZE \in Nat /\ PIPE_SIZE > 0
BY PipeAssumption

LEMMA ModIs ==
    ASSUME NEW k \in Nat, k < 2 * PIPE_SIZE
    PROVE  k % PIPE_SIZE = IF k < PIPE_SIZE THEN k ELSE k - PIPE_SIZE
BY PipeAssumption

LEMMA AdvanceIs ==
    ASSUME NEW pos \in 0..(PIPE_SIZE - 1), NEW n \in 0..PIPE_SIZE
    PROVE  /\ Advance(pos, n) = IF pos + n < PIPE_SIZE THEN pos + n
                                ELSE pos + n - PIPE_SIZE
           /\ Advance(pos, n) \in 0..(PIPE_SIZE - 1)
BY PipeAssumption DEF Advance

LEMMA MinOfThree ==
    ASSUME NEW a \in Int, NEW b \in Int, NEW c \in Int
    PROVE  Min({a, b, c}) = IF a <= b THEN IF a <= c THEN a ELSE c
                            ELSE IF b <= c THEN b ELSE c
<1> DEFINE m == IF a <= b THEN IF a <= c THEN a ELSE c
                ELSE IF b <= c THEN b ELSE c
<1>1. m \in {a, b, c} /\ \A y \in {a, b, c} : m <= y
  OBVIOUS
<1>2. \A x \in {a, b, c} : (\A y \in {a, b, c} : x <= y) => x = m
  OBVIOUS
<1> QED
  BY <1>1, <1>2 DEF Min

LEMMA ChunkIs ==
    ASSUME NEW pos \in 0..(PIPE_SIZE - 1), NEW avail \in 0..PIPE_SIZE, NEW want \in Nat
    PROVE  LET c == Chunk(pos, avail, want) IN
           /\ c \in 0..PIPE_SIZE
           /\ c <= avail /\ c <= want /\ pos + c <= PIPE_SIZE
           /\ c = avail \/ c = want \/ pos + c = PIPE_SIZE
BY MinOfThree, PipeAssumption DEF Chunk

\* The arguments of a transfer, and what its two turns do.
CanTransfer(pos, avail, want) ==
    pos \in 0..(PIPE_SIZE - 1) /\ avail \in 0..PIPE_SIZE /\ want \in Nat

InTwoChunks(pos, c1, mid, c2) ==
    /\ pos \in 0..(PIPE_SIZE - 1) /\ mid \in 0..(PIPE_SIZE - 1)
    /\ c1 \in 0..PIPE_SIZE /\ c2 \in 0..PIPE_SIZE
    /\ pos + c1 <= PIPE_SIZE /\ mid + c2 <= PIPE_SIZE
    /\ c2 > 0 => mid = 0 /\ pos + c1 = PIPE_SIZE

\* The position of the i-th byte from pos on.
RingPos(pos, i) == (pos + i - 1) % PIPE_SIZE

\* A transfer crosses the end of the ring at most once: two chunks move all
\* that is there and wanted.
LEMMA TwoChunks ==
    ASSUME NEW pos, NEW avail, NEW want, CanTransfer(pos, avail, want)
    PROVE  \E c1, mid, c2 :
              /\ c1 = Chunk(pos, avail, want)
              /\ mid = Advance(pos, c1)
              /\ c2 = Chunk(mid, avail - c1, want - c1)
              /\ InTwoChunks(pos, c1, mid, c2)
              /\ c1 + c2 \in 0..PIPE_SIZE
              /\ c1 + c2 = IF want <= avail THEN want ELSE avail
              /\ Advance(mid, c2) = Advance(pos, c1 + c2)
<1> USE DEF CanTransfer
<1>1. PICK c1 \in 0..PIPE_SIZE :
         /\ c1 = Chunk(pos, avail, want)
         /\ c1 <= avail /\ c1 <= want /\ pos + c1 <= PIPE_SIZE
         /\ c1 = avail \/ c1 = want \/ pos + c1 = PIPE_SIZE
  BY ChunkIs
<1>2. PICK mid \in 0..(PIPE_SIZE - 1) :
         /\ mid = Advance(pos, c1)
         /\ mid = IF pos + c1 < PIPE_SIZE THEN pos + c1 ELSE pos + c1 - PIPE_SIZE
  BY AdvanceIs
<1>3. avail - c1 \in 0..PIPE_SIZE /\ want - c1 \in Nat
  BY <1>1, RingSize
<1>4. PICK c2 \in 0..PIPE_SIZE :
         /\ c2 = Chunk(mid, avail - c1, want - c1)
         /\ c2 <= avail - c1 /\ c2 <= want - c1 /\ mid + c2 <= PIPE_SIZE
         /\ c2 = avail - c1 \/ c2 = want - c1 \/ mid + c2 = PIPE_SIZE
  BY <1>3, ChunkIs
<1>5. c2 > 0 => mid = 0 /\ pos + c1 = PIPE_SIZE
  BY <1>1, <1>2, <1>4, RingSize
<1>6. c1 + c2 \in 0..PIPE_SIZE /\ c1 + c2 = IF want <= avail THEN want ELSE avail
  <2>1. c2 = avail - c1 \/ c2 = want - c1
    BY <1>1, <1>2, <1>4, <1>5, RingSize
  <2> QED
    BY <1>1, <1>4, <2>1, RingSize
<1>7. Advance(mid, c2) = Advance(pos, c1 + c2)
  <2>1. Advance(mid, c2) = IF mid + c2 < PIPE_SIZE THEN mid + c2 ELSE mid + c2 - PIPE_SIZE
    BY AdvanceIs
  <2>2. Advance(pos, c1 + c2) = IF pos + (c1 + c2) < PIPE_SIZE THEN pos + (c1 + c2)
                                ELSE pos + (c1 + c2) - PIPE_SIZE
    BY <1>6, AdvanceIs
  <2>3. CASE c2 > 0
    BY <2>1, <2>2, <2>3, <1>1, <1>4, <1>5, RingSize
  <2>4. CASE c2 = 0
    BY <2>1, <2>2, <2>4, <1>1, <1>2, RingSize
  <2> QED
    BY <2>3, <2>4, RingSize
<1> QED
  BY <1>1, <1>2, <1>4, <1>5, <1>6, <1>7 DEF InTwoChunks

\* The position of the i-th byte of a transfer in two chunks.
LEMMA ChunkPosition ==
    ASSUME NEW pos, NEW c1, NEW mid, NEW c2, InTwoChunks(pos, c1, mid, c2)
    PROVE  \A i \in 1..(c1 + c2) :
              /\ i <= c1 => i \in 1..c1 /\ RingPos(pos, i) = pos + i - 1
              /\ i > c1 => i - c1 \in 1..c2 /\ RingPos(pos, i) = mid + (i - c1) - 1
<1> TAKE i \in 1..(c1 + c2)
<1> USE DEF InTwoChunks
<1>1. PICK k \in Nat : k = pos + i - 1 /\ k < 2 * PIPE_SIZE
  BY RingSize
<1>2. k % PIPE_SIZE = IF k < PIPE_SIZE THEN k ELSE k - PIPE_SIZE
  BY <1>1, ModIs
<1>3. i <= c1 => i \in 1..c1 /\ k % PIPE_SIZE = k
  BY <1>1, <1>2, RingSize
<1>4. i > c1 => i - c1 \in 1..c2 /\ k % PIPE_SIZE = mid + (i - c1) - 1
  BY <1>1, <1>2, RingSize
<1> QED
  BY <1>1, <1>3, <1>4 DEF RingPos

-----------------------------------------------------------------------------
(* Types *)

LEMMA CallTypes ==
    /\ NoCall \in Calls
    /\ \A c \in Calls :
          /\ c.op \in {"none", "read", "write"}
          /\ c.op = "none" <=> c = NoCall
          /\ c.len \in Nat
          /\ c.data \in Seq(Bytes)
          /\ c.op = "write" => c.len = Len(c.data)
<1>1. \A d \in Data : d \in Seq(Bytes) /\ Len(d) \in Nat
  BY PipeAssumption
<1>2. \A n \in Lens : n \in Nat
  BY PipeAssumption
<1>3. <<>> \in Seq(Bytes)
  OBVIOUS
<1>4. NoCall \in Calls
  BY DEF Calls
<1>5. ASSUME NEW c \in Calls
      PROVE  /\ c.op \in {"none", "read", "write"}
             /\ c.op = "none" <=> c = NoCall
             /\ c.len \in Nat
             /\ c.data \in Seq(Bytes)
             /\ c.op = "write" => c.len = Len(c.data)
  <2>1. CASE c = NoCall
    BY <2>1, <1>3 DEF NoCall
  <2>2. ASSUME NEW n \in Lens, c = [op |-> "read", len |-> n, data |-> <<>>]
        PROVE  /\ c.op = "read" /\ c # NoCall /\ c.len = n /\ c.data = <<>>
    BY <2>2 DEF NoCall
  <2>3. ASSUME NEW d \in Data, c = [op |-> "write", len |-> Len(d), data |-> d]
        PROVE  /\ c.op = "write" /\ c # NoCall /\ c.len = Len(d) /\ c.data = d
    BY <2>3 DEF NoCall
  <2>4. \/ c = NoCall
        \/ \E n \in Lens : c = [op |-> "read", len |-> n, data |-> <<>>]
        \/ \E d \in Data : c = [op |-> "write", len |-> Len(d), data |-> d]
    BY DEF Calls
  <2> QED
    BY <2>1, <2>2, <2>3, <2>4, <1>1, <1>2, <1>3
<1> QED
  BY <1>4, <1>5

LEMMA FunctionIsSeq ==
    ASSUME NEW S, NEW n \in Nat, NEW f \in [1..n -> S]
    PROVE  f \in Seq(S) /\ Len(f) = n
<1>1. f \in Seq(S)
  BY SeqDef
<1>2. Len(f) \in Nat /\ DOMAIN f = 1..Len(f) /\ DOMAIN f = 1..n
  BY <1>1, LenProperties
<1> QED
  BY <1>1, <1>2

\* Bytes copied out of the ring.
LEMMA SliceType ==
    ASSUME buf \in [0..(PIPE_SIZE - 1) -> Bytes], NEW pos \in 0..(PIPE_SIZE - 1),
           NEW n \in 0..PIPE_SIZE, pos + n <= PIPE_SIZE
    PROVE  /\ Slice(pos, n) \in Seq(Bytes) /\ Len(Slice(pos, n)) = n
           /\ \A i \in 1..n : Slice(pos, n)[i] = buf[pos + i - 1]
<1>1. \A i \in 1..n : pos + i - 1 \in 0..(PIPE_SIZE - 1)
  BY PipeAssumption
<1>2. Slice(pos, n) \in [1..n -> Bytes]
  BY <1>1 DEF Slice
<1>3. n \in Nat
  BY PipeAssumption
<1>4. \A i \in 1..n : Slice(pos, n)[i] = buf[pos + i - 1]
  BY DEF Slice
<1> QED
  BY <1>2, <1>3, <1>4, FunctionIsSeq

\* Bytes copied into the ring.
LEMMA StoreType ==
    ASSUME NEW b \in [0..(PIPE_SIZE - 1) -> Bytes], NEW pos \in 0..(PIPE_SIZE - 1),
           NEW data \in Seq(Bytes)
    PROVE  /\ Store(b, pos, data) \in [0..(PIPE_SIZE - 1) -> Bytes]
           /\ \A j \in 0..(PIPE_SIZE - 1) :
                 Store(b, pos, data)[j] = IF pos <= j /\ j < pos + Len(data)
                                          THEN data[j - pos + 1] ELSE b[j]
<1>1. Len(data) \in Nat /\ \A i \in 1..Len(data) : data[i] \in Bytes
  OBVIOUS
<1>2. \A j \in 0..(PIPE_SIZE - 1) :
          j \in pos..(pos + Len(data) - 1) <=> pos <= j /\ j < pos + Len(data)
  BY <1>1, PipeAssumption
<1>3. \A j \in 0..(PIPE_SIZE - 1) :
          pos <= j /\ j < pos + Len(data) => data[j - pos + 1] \in Bytes
  BY <1>1, PipeAssumption
<1> QED
  BY <1>2, <1>3 DEF Store

LEMMA InitType == Init => TypeOK
<1> SUFFICES ASSUME Init PROVE TypeOK
  OBVIOUS
<1>1. state \in [Procs -> ProcStates] /\ curproc \in Procs
  BY DEF Init, ProcStates
<1>2. /\ buf \in [0..(PIPE_SIZE - 1) -> Bytes]
      /\ read_pos \in 0..(PIPE_SIZE - 1) /\ write_pos \in 0..(PIPE_SIZE - 1)
      /\ count \in 0..PIPE_SIZE
  BY PipeAssumption DEF Init
<1>3. read_waiting \in 0..MAXPROC /\ write_waiting \in 0..MAXPROC
  BY TableSize DEF Init
<1>4. call \in [Procs -> Calls]
  BY CallTypes DEF Init
<1>5. Nothing \in [n : Int, data : Seq(Bytes)]
  BY DEF Nothing
<1> QED
  BY <1>1, <1>2, <1>3, <1>4, <1>5 DEF Init, TypeOK

\* Drop and Told keep the types.
LEMMA DropType ==
    ASSUME TypeOK, NEW p \in Procs, NEW ends \in SUBSET {"r", "w"}, Drop(p, ends)
    PROVE  /\ rend' \subseteq Readers /\ wend' \subseteq Writers
           /\ readers' \in {0, 1} /\ writers' \in {0, 1}
           /\ read_waiting' \in 0..MAXPROC /\ write_waiting' \in 0..MAXPROC
BY TableSize DEF Drop, TypeOK

LEMMA ToldFacts ==
    ASSUME TypeOK, NEW p \in Procs, NEW ends \in SUBSET {"r", "w"}
    PROVE  /\ Told(p, ends) \in [Procs -> ProcStates]
           /\ \A q \in Procs : Told(p, ends)[q] = "P_SLEEPING" =>
                 /\ state[q] = "P_SLEEPING"
                 /\ "r" \in ends /\ rend = {p} => write_waiting # q + 1
                 /\ "w" \in ends /\ wend = {p} => read_waiting # q + 1
<1> DEFINE lastr == "r" \in ends /\ rend = {p}
           lastw == "w" \in ends /\ wend = {p}
           s == PipeCloseRead(state, lastr)
<1>0. /\ state \in [Procs -> ProcStates]
      /\ write_waiting \in 0..MAXPROC /\ read_waiting \in 0..MAXPROC
  BY DEF TypeOK
<1> HIDE DEF lastr, lastw
<1>1. /\ s \in [Procs -> ProcStates]
      /\ \A q \in Procs : s[q] = "P_SLEEPING" =>
            state[q] = "P_SLEEPING" /\ (lastr => write_waiting # q + 1)
  <2>1. CASE lastr
    <3>1. s = WakeSlot(state, write_waiting)
      BY <2>1 DEF PipeCloseRead
    <3> HIDE DEF s
    <3> QED
      BY <3>1, <1>0, WakeSlotFacts
  <2>2. CASE ~lastr
    BY <2>2, <1>0 DEF PipeCloseRead
  <2> QED
    BY <2>1, <2>2
<1>2. Told(p, ends) = IF lastw THEN WakeSlot(s, read_waiting) ELSE s
  BY DEF Told, PipeCloseWrite, lastr, lastw
<1> HIDE DEF s
<1>3. /\ Told(p, ends) \in [Procs -> ProcStates]
      /\ \A q \in Procs : Told(p, ends)[q] = "P_SLEEPING" =>
            s[q] = "P_SLEEPING" /\ (lastw => read_waiting # q + 1)
  <2>1. CASE lastw
    <3>1. Told(p, ends) = WakeSlot(s, read_waiting)
      BY <2>1, <1>2
    <3> QED
      BY <3>1, <1>0, <1>1, WakeSlotFacts
  <2>2. CASE ~lastw
    BY <2>2, <1>1, <1>2
  <2> QED
    BY <2>1, <2>2
<1> QED
  BY <1>1, <1>3 DEF lastr, lastw

LEMMA ExitType ==
    ASSUME TypeOK, NEW p \in Procs, curproc = p, Exit(p), sigpipe' \subseteq Procs
    PROVE  TypeOK'
<1> DEFINE s == [Told(p, {"r", "w"}) EXCEPT ![p] = "P_ZOMBIE"]
<1>1. s \in [Procs -> ProcStates]
  BY ToldFacts DEF ProcStates
<1> HIDE DEF s
<1>2. Wakeup(s, 0) \in [Procs -> ProcStates]
  BY <1>1, WakeupFacts, TableSize
<1>3. Schedule(Wakeup(s, 0)) /\ Drop(p, {"r", "w"}) /\ UNCHANGED <<ringvars, callvars>>
  BY DEF Exit, s
<1>4. state' \in [Procs -> ProcStates] /\ curproc' \in Procs
  BY <1>2, <1>3, ScheduleFacts
<1> QED
  BY <1>3, <1>4, DropType DEF TypeOK, ringvars, callvars

LEMMA ReturnType ==
    ASSUME TypeOK, NEW p \in Procs, NEW n \in Int, NEW data \in Seq(Bytes),
           Return(p, n, data)
    PROVE  /\ call' \in [Procs -> Calls] /\ slept' \in [Procs -> BOOLEAN]
           /\ out' \in [Procs -> [n : Int, data : Seq(Bytes)]]
BY CallTypes DEF Return, TypeOK

\* Asleep in the call, after having woken the other end.
LEMMA BlockType ==
    ASSUME TypeOK, NEW p \in Procs, curproc = p, NEW w \in 0..MAXPROC,
           Schedule([WakeSlot(state, w) EXCEPT ![p] = "P_SLEEPING"])
    PROVE  /\ state' \in [Procs -> ProcStates] /\ curproc' \in Procs
           /\ \A q \in Procs \ {p} : state'[q] = "P_SLEEPING" =>
                                        state[q] = "P_SLEEPING" /\ w # q + 1
<1> DEFINE s == [WakeSlot(state, w) EXCEPT ![p] = "P_SLEEPING"]
<1>1. /\ s \in [Procs -> ProcStates]
      /\ \A q \in Procs \ {p} : s[q] = "P_SLEEPING" => state[q] = "P_SLEEPING" /\ w # q + 1
  <2>1. state \in [Procs -> ProcStates]
    BY DEF TypeOK
  <2>2. /\ WakeSlot(state, w) \in [Procs -> ProcStates]
        /\ \A q \in Procs : WakeSlot(state, w)[q] = "P_SLEEPING" =>
                               state[q] = "P_SLEEPING" /\ w # q + 1
    BY <2>1, WakeSlotFacts
  <2> QED
    BY <2>2 DEF ProcStates
<1>2. Schedule(s)
  OBVIOUS
<1> HIDE DEF s
<1> QED
  BY <1>1, <1>2, ScheduleFacts DEF TypeOK

\* What pipe_read() copies out, and where it leaves the ring.
LEMMA ReadFacts ==
    ASSUME TypeOK, NEW p \in Procs, PipeRead(p)
    PROVE  \E k \in Nat, data \in Seq(Bytes) :
              /\ k = IF call[p].len <= count THEN call[p].len ELSE count
              /\ Return(p, k, data)
              /\ Len(data) = k
              /\ \A i \in 1..k : data[i] = buf[RingPos(read_pos, i)]
              /\ read_pos' = Advance(read_pos, k)
              /\ count' = count - k
<1> DEFINE want == call[p].len
<1>1. /\ CanTransfer(read_pos, count, want)
      /\ buf \in [0..(PIPE_SIZE - 1) -> Bytes]
  BY CallTypes DEF TypeOK, CanTransfer
<1> HIDE DEF want
<1>2. PICK c1, mid, c2 :
         /\ c1 = Chunk(read_pos, count, want)
         /\ mid = Advance(read_pos, c1)
         /\ c2 = Chunk(mid, count - c1, want - c1)
         /\ InTwoChunks(read_pos, c1, mid, c2)
         /\ c1 + c2 \in 0..PIPE_SIZE
         /\ c1 + c2 = IF want <= count THEN want ELSE count
         /\ Advance(mid, c2) = Advance(read_pos, c1 + c2)
  BY <1>1, TwoChunks
<1> DEFINE first == Slice(read_pos, c1)
           second == Slice(mid, c2)
<1>3. /\ Return(p, c1 + c2, first \o second)
      /\ read_pos' = Advance(mid, c2)
      /\ count' = count - c1 - c2
  BY <1>2 DEF PipeRead, want
<1>4. /\ first \in Seq(Bytes) /\ Len(first) = c1
      /\ \A i \in 1..c1 : first[i] = buf[read_pos + i - 1]
  <2>1. read_pos \in 0..(PIPE_SIZE - 1) /\ c1 \in 0..PIPE_SIZE /\ read_pos + c1 <= PIPE_SIZE
    BY <1>2 DEF InTwoChunks
  <2> QED
    BY <1>1, <2>1, SliceType
<1>5. /\ second \in Seq(Bytes) /\ Len(second) = c2
      /\ \A i \in 1..c2 : second[i] = buf[mid + i - 1]
  <2>1. mid \in 0..(PIPE_SIZE - 1) /\ c2 \in 0..PIPE_SIZE /\ mid + c2 <= PIPE_SIZE
    BY <1>2 DEF InTwoChunks
  <2> QED
    BY <1>1, <2>1, SliceType
<1> HIDE DEF first, second
<1>6. /\ first \o second \in Seq(Bytes) /\ Len(first \o second) = c1 + c2
      /\ \A i \in 1..(c1 + c2) :
            (first \o second)[i] = IF i <= c1 THEN first[i] ELSE second[i - c1]
  BY <1>4, <1>5, ConcatProperties
<1>0. \A i \in 1..(c1 + c2) :
         /\ i <= c1 => i \in 1..c1 /\ RingPos(read_pos, i) = read_pos + i - 1
         /\ i > c1 => i - c1 \in 1..c2 /\ RingPos(read_pos, i) = mid + (i - c1) - 1
  BY <1>2, ChunkPosition
<1>7. ASSUME NEW i \in 1..(c1 + c2)
      PROVE  (first \o second)[i] = buf[RingPos(read_pos, i)]
  <2>1. /\ i <= c1 => i \in 1..c1 /\ RingPos(read_pos, i) = read_pos + i - 1
        /\ i > c1 => i - c1 \in 1..c2 /\ RingPos(read_pos, i) = mid + (i - c1) - 1
    BY <1>0
  <2>2. (first \o second)[i] = IF i <= c1 THEN first[i] ELSE second[i - c1]
    BY <1>6
  <2>3. CASE i <= c1
    BY <2>1, <2>2, <2>3, <1>4
  <2>4. CASE i > c1
    <3>1. i - c1 \in 1..c2 /\ RingPos(read_pos, i) = mid + (i - c1) - 1
      BY <2>1, <2>4
    <3>2. second[i - c1] = buf[mid + (i - c1) - 1]
      BY <3>1, <1>5
    <3>3. (first \o second)[i] = second[i - c1]
      BY <2>2, <2>4, <1>2 DEF InTwoChunks
    <3> QED
      BY <3>1, <3>2, <3>3
  <2>5. c1 \in Int
    BY <1>2 DEF InTwoChunks
  <2>6. i <= c1 \/ i > c1
    BY <2>5
  <2> QED
    BY <2>3, <2>4, <2>6
<1>8. c1 + c2 \in Nat /\ count - c1 - c2 = count - (c1 + c2)
  BY <1>1, <1>2, RingSize DEF CanTransfer, InTwoChunks
<1> QED
  BY <1>2, <1>3, <1>6, <1>7, <1>8 DEF want

LEMMA SubSeqIs ==
    ASSUME NEW data \in Seq(Bytes), NEW m \in Int, NEW n \in Int,
           1 <= m, m <= n + 1, n <= Len(data)
    PROVE  /\ SubSeq(data, m, n) \in Seq(Bytes)
           /\ Len(SubSeq(data, m, n)) = n - m + 1
           /\ \A i \in 1..(n - m + 1) : SubSeq(data, m, n)[i] = data[m + i - 1]
<1>1. \A i \in m..n : i \in 1..Len(data)
  OBVIOUS
<1>2. \A i \in m..n : data[i] \in Bytes
  BY <1>1
<1>3. /\ SubSeq(data, m, n) \in Seq(Bytes)
      /\ Len(SubSeq(data, m, n)) = IF m <= n THEN n - m + 1 ELSE 0
      /\ \A i \in 1..(n - m + 1) : SubSeq(data, m, n)[i] = data[m + i - 1]
  BY <1>2, SubSeqProperties
<1> QED
  BY <1>3

\* The two turns of pipe_write(): their arguments, the ring after them, and what
\* it holds: the n bytes written, from pos on, and everything else as it was.
CanStore(b, pos, data, c1, mid, c2) ==
    /\ b \in [0..(PIPE_SIZE - 1) -> Bytes] /\ data \in Seq(Bytes)
    /\ InTwoChunks(pos, c1, mid, c2)
    /\ c1 + c2 <= PIPE_SIZE /\ c1 + c2 <= Len(data)

TwoStores(b, pos, data, c1, mid, c2) ==
    Store(Store(b, pos, SubSeq(data, 1, c1)), mid, SubSeq(data, c1 + 1, c1 + c2))

Stored(b, b2, pos, data, n) ==
    /\ b2 \in [0..(PIPE_SIZE - 1) -> Bytes]
    /\ \A i \in 1..n : b2[RingPos(pos, i)] = data[i]
    /\ \A j \in 0..(PIPE_SIZE - 1) :
          (\A i \in 1..n : RingPos(pos, i) # j) => b2[j] = b[j]

LEMMA StoreTwo ==
    ASSUME NEW b, NEW pos, NEW data, NEW c1, NEW mid, NEW c2,
           CanStore(b, pos, data, c1, mid, c2)
    PROVE  Stored(b, TwoStores(b, pos, data, c1, mid, c2), pos, data, c1 + c2)
<1> USE DEF CanStore
<1> DEFINE first == SubSeq(data, 1, c1)
           second == SubSeq(data, c1 + 1, c1 + c2)
           b1 == Store(b, pos, first)
           b2 == Store(b1, mid, second)
<1>1. /\ pos \in 0..(PIPE_SIZE - 1) /\ mid \in 0..(PIPE_SIZE - 1)
      /\ c1 \in 0..PIPE_SIZE /\ c2 \in 0..PIPE_SIZE
      /\ pos + c1 <= PIPE_SIZE /\ mid + c2 <= PIPE_SIZE
      /\ c2 > 0 => mid = 0 /\ pos + c1 = PIPE_SIZE
  BY DEF InTwoChunks
<1>2. /\ first \in Seq(Bytes) /\ Len(first) = c1
      /\ \A i \in 1..c1 : first[i] = data[i]
  BY <1>1, SubSeqIs
<1>3. /\ second \in Seq(Bytes) /\ Len(second) = c2
      /\ \A i \in 1..c2 : second[i] = data[c1 + i]
  BY <1>1, SubSeqIs
<1> HIDE DEF first, second
<1>4. /\ b1 \in [0..(PIPE_SIZE - 1) -> Bytes]
      /\ \A j \in 0..(PIPE_SIZE - 1) :
            b1[j] = IF pos <= j /\ j < pos + c1 THEN first[j - pos + 1] ELSE b[j]
  <2>1. /\ b1 \in [0..(PIPE_SIZE - 1) -> Bytes]
        /\ \A j \in 0..(PIPE_SIZE - 1) :
              b1[j] = IF pos <= j /\ j < pos + Len(first) THEN first[j - pos + 1] ELSE b[j]
    BY <1>1, <1>2, StoreType
  <2> HIDE DEF b1
  <2> QED
    BY <2>1, <1>2
<1> HIDE DEF b1
<1>5. /\ b2 \in [0..(PIPE_SIZE - 1) -> Bytes]
      /\ \A j \in 0..(PIPE_SIZE - 1) :
            b2[j] = IF mid <= j /\ j < mid + c2 THEN second[j - mid + 1] ELSE b1[j]
  <2>1. /\ b2 \in [0..(PIPE_SIZE - 1) -> Bytes]
        /\ \A j \in 0..(PIPE_SIZE - 1) :
              b2[j] = IF mid <= j /\ j < mid + Len(second) THEN second[j - mid + 1] ELSE b1[j]
    BY <1>1, <1>3, <1>4, StoreType
  <2> HIDE DEF b2
  <2> QED
    BY <2>1, <1>3
<1> HIDE DEF b2
<1>6. \A i \in 1..(c1 + c2) :
         /\ i <= c1 => i \in 1..c1 /\ RingPos(pos, i) = pos + i - 1
         /\ i > c1 => i - c1 \in 1..c2 /\ RingPos(pos, i) = mid + (i - c1) - 1
  BY ChunkPosition
<1>7. ASSUME NEW i \in 1..(c1 + c2)
      PROVE  b2[RingPos(pos, i)] = data[i]
  <2>1. CASE i <= c1
    <3>1. PICK j \in 0..(PIPE_SIZE - 1) : j = pos + i - 1 /\ j = RingPos(pos, i)
      BY <2>1, <1>1, <1>6, RingSize
    <3>2. pos <= j /\ j < pos + c1 /\ j - pos + 1 = i /\ i \in 1..c1
      BY <2>1, <3>1, <1>1, <1>6
    <3>3. ~(mid <= j /\ j < mid + c2)
      BY <3>1, <3>2, <1>1, <2>1
    <3> QED
      BY <3>1, <3>2, <3>3, <1>2, <1>4, <1>5
  <2>2. CASE i > c1
    <3>1. PICK j \in 0..(PIPE_SIZE - 1) : j = mid + (i - c1) - 1 /\ j = RingPos(pos, i)
      BY <2>2, <1>1, <1>6, RingSize
    <3>2. mid <= j /\ j < mid + c2 /\ j - mid + 1 = i - c1 /\ i - c1 \in 1..c2
      BY <2>2, <3>1, <1>1, <1>6
    <3>3. second[i - c1] = data[c1 + (i - c1)] /\ c1 + (i - c1) = i
      BY <3>2, <1>1, <1>3
    <3> QED
      BY <3>1, <3>2, <3>3, <1>5
  <2>3. i <= c1 \/ i > c1
    BY <1>1
  <2> QED
    BY <2>1, <2>2, <2>3
<1>8. ASSUME NEW j \in 0..(PIPE_SIZE - 1), \A i \in 1..(c1 + c2) : RingPos(pos, i) # j
      PROVE  b2[j] = b[j]
  <2>1. ~(pos <= j /\ j < pos + c1)
    <3> SUFFICES ASSUME pos <= j, j < pos + c1 PROVE FALSE
      OBVIOUS
    <3>1. PICK i \in 1..(c1 + c2) : i = j - pos + 1 /\ i <= c1
      BY <1>1
    <3>2. RingPos(pos, i) = pos + i - 1
      BY <3>1, <1>6
    <3>3. RingPos(pos, i) = j
      BY <3>1, <3>2, <1>1
    <3> QED
      BY <3>3, <1>8
  <2>2. ~(mid <= j /\ j < mid + c2)
    <3> SUFFICES ASSUME mid <= j, j < mid + c2 PROVE FALSE
      OBVIOUS
    <3>1. PICK i \in 1..(c1 + c2) : i = j - mid + 1 + c1 /\ i > c1
      BY <1>1
    <3>2. RingPos(pos, i) = mid + (i - c1) - 1
      BY <3>1, <1>6
    <3>3. RingPos(pos, i) = j
      BY <3>1, <3>2, <1>1
    <3> QED
      BY <3>3, <1>8
  <2> QED
    BY <2>1, <2>2, <1>4, <1>5
<1> QED
  BY <1>5, <1>7, <1>8 DEF b2, b1, first, second, TwoStores, Stored

\* What pipe_write() copies in, and where it leaves the ring.
LEMMA WriteFacts ==
    ASSUME TypeOK, NEW p \in Procs, PipeWrite(p)
    PROVE  \E k \in Nat :
              /\ k = IF call[p].len <= PIPE_SIZE - count THEN call[p].len
                     ELSE PIPE_SIZE - count
              /\ Return(p, IF k > 0 THEN k ELSE -EPIPE, <<>>)
              /\ k <= Len(call[p].data) /\ count + k <= PIPE_SIZE
              /\ Stored(buf, buf', write_pos, call[p].data, k)
              /\ write_pos' = Advance(write_pos, k)
              /\ count' = count + k
<1> DEFINE want == call[p].len
           data == call[p].data
           room == PIPE_SIZE - count
<1>1. /\ CanTransfer(write_pos, room, want)
      /\ buf \in [0..(PIPE_SIZE - 1) -> Bytes]
      /\ data \in Seq(Bytes) /\ want = Len(data)
  BY CallTypes, RingSize DEF TypeOK, CanTransfer, PipeWrite, In
<1>2. count \in 0..PIPE_SIZE
  BY DEF TypeOK
<1> HIDE DEF want, data
<1>3. PICK c1, mid, c2 :
         /\ c1 = Chunk(write_pos, room, want)
         /\ mid = Advance(write_pos, c1)
         /\ c2 = Chunk(mid, room - c1, want - c1)
         /\ InTwoChunks(write_pos, c1, mid, c2)
         /\ c1 + c2 \in 0..PIPE_SIZE
         /\ c1 + c2 = IF want <= room THEN want ELSE room
         /\ Advance(mid, c2) = Advance(write_pos, c1 + c2)
  BY <1>1, TwoChunks
<1> DEFINE k == c1 + c2
<1>4. /\ Return(p, IF k > 0 THEN k ELSE -EPIPE, <<>>)
      /\ buf' = TwoStores(buf, write_pos, data, c1, mid, c2)
      /\ write_pos' = Advance(mid, c2)
      /\ count' = count + k
  BY <1>3 DEF PipeWrite, TwoStores, want, data
<1>5. k \in Nat /\ k <= PIPE_SIZE /\ k <= Len(data) /\ count + k <= PIPE_SIZE
  BY <1>1, <1>2, <1>3, RingSize DEF CanTransfer
<1>6. Stored(buf, buf', write_pos, data, k)
  <2>1. CanStore(buf, write_pos, data, c1, mid, c2)
    BY <1>1, <1>3, <1>5 DEF CanStore
  <2>2. Stored(buf, TwoStores(buf, write_pos, data, c1, mid, c2), write_pos, data, k)
    BY <2>1, StoreTwo
  <2> QED
    BY <1>4, <2>2
<1>7. k = IF want <= room THEN want ELSE room
  BY <1>3
<1> HIDE DEF k
<1> QED
  BY <1>3, <1>4, <1>5, <1>6, <1>7 DEF want, data, k

-----------------------------------------------------------------------------
(* Type correctness *)

LEMMA ReadType ==
    ASSUME TypeOK, NEW p \in Procs, PipeRead(p)
    PROVE  TypeOK'
<1>1. PICK k \in Nat, data \in Seq(Bytes) :
         /\ k = IF call[p].len <= count THEN call[p].len ELSE count
         /\ Return(p, k, data)
         /\ Len(data) = k
         /\ \A i \in 1..k : data[i] = buf[RingPos(read_pos, i)]
         /\ read_pos' = Advance(read_pos, k)
         /\ count' = count - k
  BY ReadFacts
<1>2. k \in 0..PIPE_SIZE /\ count' \in 0..PIPE_SIZE
  BY <1>1, CallTypes, RingSize DEF TypeOK
<1>3. read_pos' \in 0..(PIPE_SIZE - 1)
  BY <1>1, <1>2, AdvanceIs DEF TypeOK
<1>4. /\ call' \in [Procs -> Calls] /\ slept' \in [Procs -> BOOLEAN]
      /\ out' \in [Procs -> [n : Int, data : Seq(Bytes)]]
  BY <1>1, ReturnType
<1>5. state' \in [Procs -> ProcStates]
  BY WakeSlotFacts DEF PipeRead, TypeOK
<1>6. read_waiting' \in 0..MAXPROC /\ write_waiting' \in 0..MAXPROC
  BY TableSize DEF PipeRead, ReadSlot, TypeOK
<1>7. UNCHANGED <<curproc, buf, write_pos, readers, writers, rend, wend, sigpipe>>
  BY DEF PipeRead, endvars
<1> QED
  BY <1>2, <1>3, <1>4, <1>5, <1>6, <1>7 DEF TypeOK

LEMMA WriteType ==
    ASSUME TypeOK, NEW p \in Procs, PipeWrite(p)
    PROVE  TypeOK'
<1>1. PICK k \in Nat :
         /\ k = IF call[p].len <= PIPE_SIZE - count THEN call[p].len
                ELSE PIPE_SIZE - count
         /\ Return(p, IF k > 0 THEN k ELSE -EPIPE, <<>>)
         /\ k <= Len(call[p].data) /\ count + k <= PIPE_SIZE
         /\ Stored(buf, buf', write_pos, call[p].data, k)
         /\ write_pos' = Advance(write_pos, k)
         /\ count' = count + k
  BY WriteFacts
<1>2. k \in 0..PIPE_SIZE /\ count' \in 0..PIPE_SIZE
  <2>1. count \in 0..PIPE_SIZE
    BY DEF TypeOK
  <2>2. k <= PIPE_SIZE - count
    BY <1>1, <2>1, RingSize
  <2> QED
    BY <1>1, <2>1, <2>2, RingSize
<1>3. write_pos' \in 0..(PIPE_SIZE - 1)
  BY <1>1, <1>2, AdvanceIs DEF TypeOK
<1>4. /\ call' \in [Procs -> Calls] /\ slept' \in [Procs -> BOOLEAN]
      /\ out' \in [Procs -> [n : Int, data : Seq(Bytes)]]
  <2>1. (IF k > 0 THEN k ELSE -EPIPE) \in Int
    BY <1>1 DEF EPIPE
  <2>2. <<>> \in Seq(Bytes)
    OBVIOUS
  <2> QED
    BY <1>1, <2>1, <2>2, ReturnType
<1>5. state' \in [Procs -> ProcStates]
  BY WakeSlotFacts DEF PipeWrite, WakeReader, TypeOK
<1>6. read_waiting' \in 0..MAXPROC /\ write_waiting' \in 0..MAXPROC
  BY TableSize DEF PipeWrite, WriteSlot, TypeOK
<1>7. buf' \in [0..(PIPE_SIZE - 1) -> Bytes]
  BY <1>1 DEF Stored
<1>8. UNCHANGED <<curproc, read_pos, readers, writers, rend, wend, sigpipe>>
  BY DEF PipeWrite, endvars
<1> QED
  BY <1>2, <1>3, <1>4, <1>5, <1>6, <1>7, <1>8 DEF TypeOK

LEMMA WriteBrokenType ==
    ASSUME TypeOK, NEW p \in Procs, PipeWriteBroken(p)
    PROVE  TypeOK'
<1>1. /\ call' \in [Procs -> Calls] /\ slept' \in [Procs -> BOOLEAN]
      /\ out' \in [Procs -> [n : Int, data : Seq(Bytes)]]
  <2>1. -EPIPE \in Int /\ <<>> \in Seq(Bytes) /\ Return(p, -EPIPE, <<>>)
    BY DEF EPIPE, PipeWriteBroken
  <2> QED
    BY <2>1, ReturnType
<1>2. state' \in [Procs -> ProcStates]
  <2>1. WakeSlot(state, read_waiting) \in [Procs -> ProcStates]
    BY WakeSlotFacts DEF TypeOK
  <2>2. state' = state \/ state' = WakeSlot(state, read_waiting)
    BY DEF PipeWriteBroken
  <2> QED
    BY <2>1, <2>2 DEF TypeOK
<1>3. read_waiting' \in 0..MAXPROC /\ write_waiting' \in 0..MAXPROC
  BY TableSize DEF PipeWriteBroken, WriteSlot, TypeOK
<1>4. sigpipe' \subseteq Procs
  BY DEF PipeWriteBroken, TypeOK
<1> QED
  BY <1>1, <1>2, <1>3, <1>4 DEF PipeWriteBroken, TypeOK, ringvars, endvars

\* Entering a call.
LEMMA EnterType ==
    ASSUME TypeOK, NEW p \in Procs, NEW c \in Calls, Enter(p, c)
    PROVE  /\ call' \in [Procs -> Calls] /\ slept' \in [Procs -> BOOLEAN]
           /\ out' \in [Procs -> [n : Int, data : Seq(Bytes)]]
<1>1. Nothing \in [n : Int, data : Seq(Bytes)]
  BY DEF Nothing
<1> QED
  BY <1>1 DEF Enter, TypeOK

LEMMA SigPipeCases ==
    ASSUME NEW p \in Procs, SigPipe(p)
    PROVE  /\ curproc = p /\ call[p] = NoCall /\ sigpipe' = sigpipe \ {p}
           /\ \/ Exit(p)
              \/ UNCHANGED <<state, curproc, ringvars, endvars, slotvars, callvars>>
BY DEF SigPipe

LEMMA StepType == TypeOK /\ [Next]_vars => TypeOK'
<1> SUFFICES ASSUME TypeOK, [Next]_vars PROVE TypeOK'
  OBVIOUS
<1> USE DEF ringvars, endvars, slotvars, callvars
<1>1. ASSUME NEW p \in Procs, SysRead(p) PROVE TypeOK'
  <2>1. PICK len \in Lens : Enter(p, [op |-> "read", len |-> len, data |-> <<>>])
    BY <1>1 DEF SysRead
  <2>2. [op |-> "read", len |-> len, data |-> <<>>] \in Calls
    BY DEF Calls
  <2>3. /\ call' \in [Procs -> Calls] /\ slept' \in [Procs -> BOOLEAN]
        /\ out' \in [Procs -> [n : Int, data : Seq(Bytes)]]
    BY <2>1, <2>2, EnterType
  <2> QED
    BY <1>1, <2>3 DEF SysRead, TypeOK
<1>2. ASSUME NEW p \in Procs, SysWrite(p) PROVE TypeOK'
  <2>1. PICK data \in Data : Enter(p, [op |-> "write", len |-> Len(data), data |-> data])
    BY <1>2 DEF SysWrite
  <2>2. [op |-> "write", len |-> Len(data), data |-> data] \in Calls
    BY DEF Calls
  <2>3. /\ call' \in [Procs -> Calls] /\ slept' \in [Procs -> BOOLEAN]
        /\ out' \in [Procs -> [n : Int, data : Seq(Bytes)]]
    BY <2>1, <2>2, EnterType
  <2> QED
    BY <1>2, <2>3 DEF SysWrite, TypeOK
<1>3. ASSUME NEW p \in Procs, SysClose(p) PROVE TypeOK'
  <2>1. PICK ends \in SUBSET {"r", "w"} : Drop(p, ends) /\ state' = Told(p, ends)
    BY <1>3 DEF SysClose
  <2>2. state' \in [Procs -> ProcStates]
    BY <2>1, ToldFacts
  <2> QED
    BY <1>3, <2>1, <2>2, DropType DEF SysClose, TypeOK
<1>4. ASSUME NEW p \in Procs, SysExit(p) PROVE TypeOK'
  BY <1>4, ExitType DEF SysExit, InUser, TypeOK
<1>5. ASSUME NEW p \in Procs, SysKill(p) PROVE TypeOK'
  <2>1. PICK t \in Procs : state' = Wakeup(state, t)
    BY <1>5 DEF SysKill
  <2>2. state' \in [Procs -> ProcStates]
    BY <2>1, WakeupFacts DEF TypeOK
  <2> QED
    BY <1>5, <2>2 DEF SysKill, TypeOK
<1>6. ASSUME NEW p \in Procs, TimerTick(p) PROVE TypeOK'
  <2>1. state' \in [Procs -> ProcStates] /\ curproc' \in Procs
    BY <1>6, ScheduleFacts DEF TimerTick, TypeOK
  <2> QED
    BY <1>6, <2>1 DEF TimerTick, TypeOK
<1>7. ASSUME NEW p \in Procs, PipeRead(p) PROVE TypeOK'
  BY <1>7, ReadType
<1>8. ASSUME NEW p \in Procs, PipeReadBlock(p) PROVE TypeOK'
  <2>1. state' \in [Procs -> ProcStates] /\ curproc' \in Procs
    BY <1>8, BlockType DEF PipeReadBlock, In, TypeOK
  <2>2. read_waiting' \in 0..MAXPROC /\ write_waiting' \in 0..MAXPROC
    BY <1>8, TableSize DEF PipeReadBlock
  <2> QED
    BY <1>8, <2>1, <2>2 DEF PipeReadBlock, TypeOK
<1>9. ASSUME NEW p \in Procs, PipeWrite(p) PROVE TypeOK'
  BY <1>9, WriteType
<1>10. ASSUME NEW p \in Procs, PipeWriteBlock(p) PROVE TypeOK'
  <2>1. state' \in [Procs -> ProcStates] /\ curproc' \in Procs
    BY <1>10, BlockType DEF PipeWriteBlock, In, TypeOK
  <2>2. read_waiting' \in 0..MAXPROC /\ write_waiting' \in 0..MAXPROC
    BY <1>10, TableSize DEF PipeWriteBlock
  <2> QED
    BY <1>10, <2>1, <2>2 DEF PipeWriteBlock, TypeOK
<1>11. ASSUME NEW p \in Procs, PipeWriteBroken(p) PROVE TypeOK'
  BY <1>11, WriteBrokenType
<1>12. ASSUME NEW p \in Procs, SigPipe(p) PROVE TypeOK'
  <2>1. sigpipe' \subseteq Procs /\ curproc = p
    BY <1>12, SigPipeCases DEF TypeOK
  <2>2. CASE Exit(p)
    BY <2>1, <2>2, ExitType
  <2>3. CASE UNCHANGED <<state, curproc, ringvars, endvars, slotvars, callvars>>
    BY <2>1, <2>3 DEF TypeOK
  <2> QED
    BY <1>12, <2>2, <2>3, SigPipeCases
<1>13. CASE Process0
  <2> DEFINE s == [state EXCEPT ![0] = "P_SLEEPING"]
  <2>1. s \in [Procs -> ProcStates] /\ Schedule(s) /\ curproc \in Procs
    BY <1>13 DEF Process0, TypeOK, ProcStates
  <2> HIDE DEF s
  <2>2. state' \in [Procs -> ProcStates] /\ curproc' \in Procs
    BY <2>1, ScheduleFacts
  <2> QED
    BY <1>13, <2>2 DEF Process0, TypeOK
<1>14. CASE UNCHANGED vars
  BY <1>14 DEF vars, TypeOK
<1> QED
  BY <1>1, <1>2, <1>3, <1>4, <1>5, <1>6, <1>7, <1>8, <1>9, <1>10, <1>11, <1>12, <1>13,
     <1>14 DEF Next, UserStep, KernelStep

\* The positions stay in the ring, the count within its size and the slots in the
\* table, however transfers wrap and whoever closes, dies or is woken.
THEOREM PipeTypes == Spec => []TypeOK
<1> QED
  BY InitType, StepType, PTL DEF Spec

-----------------------------------------------------------------------------
(* Who has the ends open *)

LEMMA InitOwnership == Init => Ownership
BY PipeAssumption DEF Init, Ownership, NoCall

\* Letting go of ends keeps Ownership, for a process that is in no call.
LEMMA DropOwnership ==
    ASSUME TypeOK, Ownership, NEW p \in Procs, NEW ends \in SUBSET {"r", "w"},
           call[p] = NoCall, Drop(p, ends), UNCHANGED callvars
    PROVE  Ownership'
<1>1. /\ rend' = IF "r" \in ends THEN rend \ {p} ELSE rend
      /\ wend' = IF "w" \in ends THEN wend \ {p} ELSE wend
      /\ readers' = IF "r" \in ends /\ rend = {p} THEN 0 ELSE readers
      /\ writers' = IF "w" \in ends /\ wend = {p} THEN 0 ELSE writers
      /\ call' = call /\ slept' = slept
  BY DEF Drop, callvars
<1>2. readers' = 1 <=> rend' # {}
  BY <1>1 DEF Ownership
<1>3. writers' = 1 <=> wend' # {}
  BY <1>1 DEF Ownership
<1>4. ASSUME NEW q \in Procs
      PROVE  /\ call'[q].op = "read" => q \in rend'
             /\ call'[q].op = "write" => q \in wend'
             /\ slept'[q] => call'[q].op # "none"
  <2>1. CASE q = p
    BY <2>1, <1>1 DEF Ownership, NoCall
  <2>2. CASE q # p
    BY <2>2, <1>1 DEF Ownership
  <2> QED
    BY <2>1, <2>2
<1> QED
  BY <1>2, <1>3, <1>4 DEF Ownership

\* Whatever happens to the ring, a process may enter, sleep in or leave a call.
LEMMA CallOwnership ==
    ASSUME TypeOK, Ownership, NEW p \in Procs, NEW c \in Calls,
           call' = [call EXCEPT ![p] = c], UNCHANGED endvars,
           c.op = "read" => p \in rend, c.op = "write" => p \in wend,
           slept' \in [Procs -> BOOLEAN],
           \A q \in Procs : slept'[q] => slept[q] \/ q = p,
           slept'[p] => c.op # "none"
    PROVE  Ownership'
<1>1. ASSUME NEW q \in Procs
      PROVE  /\ call'[q].op = "read" => q \in rend
             /\ call'[q].op = "write" => q \in wend
             /\ slept'[q] => call'[q].op # "none"
  <2>1. CASE q = p
    BY <2>1 DEF TypeOK
  <2>2. CASE q # p
    BY <2>2 DEF TypeOK, Ownership
  <2> QED
    BY <2>1, <2>2
<1> QED
  BY <1>1 DEF Ownership, endvars

LEMMA ReturnOwnership ==
    ASSUME TypeOK, Ownership, NEW p \in Procs, NEW n, NEW data, Return(p, n, data),
           UNCHANGED endvars
    PROVE  Ownership'
<1>1. /\ call' = [call EXCEPT ![p] = NoCall] /\ slept' = [slept EXCEPT ![p] = FALSE]
      /\ slept \in [Procs -> BOOLEAN]
  BY DEF Return, TypeOK
<1>2. /\ slept' \in [Procs -> BOOLEAN] /\ ~slept'[p]
      /\ \A q \in Procs : slept'[q] => slept[q] \/ q = p
  BY <1>1
<1>3. NoCall \in Calls /\ NoCall.op = "none"
  BY CallTypes DEF NoCall
<1> QED
  BY <1>1, <1>2, <1>3, CallOwnership

LEMMA BlockOwnership ==
    ASSUME TypeOK, Ownership, NEW p \in Procs, call[p].op # "none",
           slept' = [slept EXCEPT ![p] = TRUE], UNCHANGED <<endvars, call>>
    PROVE  Ownership'
BY DEF TypeOK, Ownership, endvars

LEMMA StepOwnership == TypeOK /\ Ownership /\ [Next]_vars => Ownership'
<1> SUFFICES ASSUME TypeOK, Ownership, [Next]_vars PROVE Ownership'
  OBVIOUS
<1>1. ASSUME NEW p \in Procs, SysRead(p) PROVE Ownership'
  <2>1. PICK len \in Lens : Enter(p, [op |-> "read", len |-> len, data |-> <<>>])
    BY <1>1 DEF SysRead
  <2> DEFINE c == [op |-> "read", len |-> len, data |-> <<>>]
  <2>2. c \in Calls /\ c.op = "read" /\ p \in rend /\ UNCHANGED endvars
    BY <1>1 DEF Calls, SysRead
  <2>3. call' = [call EXCEPT ![p] = c] /\ slept' = slept
    BY <2>1 DEF Enter
  <2> HIDE DEF c
  <2> QED
    BY <2>2, <2>3, CallOwnership DEF TypeOK
<1>2. ASSUME NEW p \in Procs, SysWrite(p) PROVE Ownership'
  <2>1. PICK data \in Data : Enter(p, [op |-> "write", len |-> Len(data), data |-> data])
    BY <1>2 DEF SysWrite
  <2> DEFINE c == [op |-> "write", len |-> Len(data), data |-> data]
  <2>2. c \in Calls /\ c.op = "write" /\ p \in wend /\ UNCHANGED endvars
    BY <1>2 DEF Calls, SysWrite
  <2>3. call' = [call EXCEPT ![p] = c] /\ slept' = slept
    BY <2>1 DEF Enter
  <2> HIDE DEF c
  <2> QED
    BY <2>2, <2>3, CallOwnership DEF TypeOK
<1>3. ASSUME NEW p \in Procs, SysClose(p) PROVE Ownership'
  <2>1. PICK ends \in SUBSET {"r", "w"} : Drop(p, ends)
    BY <1>3 DEF SysClose
  <2>2. call[p] = NoCall /\ UNCHANGED callvars
    BY <1>3 DEF SysClose, InUser
  <2> QED
    BY <2>1, <2>2, DropOwnership
<1>4. ASSUME NEW p \in Procs, Exit(p), call[p] = NoCall PROVE Ownership'
  BY <1>4, DropOwnership DEF Exit
<1>5. ASSUME NEW p \in Procs, PipeRead(p) PROVE Ownership'
  <2>1. UNCHANGED endvars /\ \E n, data : Return(p, n, data)
    BY <1>5 DEF PipeRead
  <2> QED
    BY <2>1, ReturnOwnership
<1>6. ASSUME NEW p \in Procs, PipeReadBlock(p) PROVE Ownership'
  BY <1>6, BlockOwnership DEF PipeReadBlock, In
<1>7. ASSUME NEW p \in Procs, PipeWrite(p) PROVE Ownership'
  <2>1. UNCHANGED endvars /\ \E n, data : Return(p, n, data)
    BY <1>7 DEF PipeWrite
  <2> QED
    BY <2>1, ReturnOwnership
<1>8. ASSUME NEW p \in Procs, PipeWriteBlock(p) PROVE Ownership'
  BY <1>8, BlockOwnership DEF PipeWriteBlock, In
<1>9. ASSUME NEW p \in Procs, PipeWriteBroken(p) PROVE Ownership'
  <2>1. UNCHANGED endvars /\ Return(p, -EPIPE, <<>>)
    BY <1>9 DEF PipeWriteBroken
  <2> QED
    BY <2>1, ReturnOwnership
<1>10. CASE UNCHANGED <<endvars, callvars>>
  BY <1>10 DEF Ownership, endvars, callvars
<1>11. ASSUME NEW p \in Procs, SysExit(p) \/ SigPipe(p)
       PROVE  \/ Exit(p) /\ call[p] = NoCall
              \/ UNCHANGED <<endvars, callvars>>
  BY <1>11 DEF SysExit, SigPipe, InUser
<1>12. ASSUME NEW p \in Procs, SysKill(p) \/ TimerTick(p)
       PROVE  UNCHANGED <<endvars, callvars>>
  BY <1>12 DEF SysKill, TimerTick
<1>13. Process0 \/ UNCHANGED vars => UNCHANGED <<endvars, callvars>>
  BY DEF Process0, vars, endvars, callvars
<1> QED
  BY <1>1, <1>2, <1>3, <1>4, <1>5, <1>6, <1>7, <1>8, <1>9, <1>10, <1>11, <1>12, <1>13
     DEF Next, UserStep, KernelStep

-----------------------------------------------------------------------------
(* No lost wakeup *)

Waits(q) ==
    \/ call[q].op = "read" /\ read_waiting = q + 1 /\ count = 0 /\ writers > 0
    \/ call[q].op = "write" /\ write_waiting = q + 1 /\ count = PIPE_SIZE
                              /\ readers > 0

Asleep(q) == state[q] = "P_SLEEPING" /\ slept[q] /\ q # curproc

LEMMA NoLostWakeupIs == NoLostWakeup <=> \A q \in Procs : Asleep(q) => Waits(q)
BY DEF NoLostWakeup, Waits, Asleep

\* A process in no call does not sleep in one.
LEMMA UserAwake ==
    ASSUME TypeOK, Ownership, NEW p \in Procs, call[p] = NoCall
    PROVE  ~slept[p]
BY DEF Ownership, NoCall

\* Process 0 has no end open.
LEMMA ZeroAwake == TypeOK /\ Ownership => ~slept[0]
<1> SUFFICES ASSUME TypeOK, Ownership PROVE ~slept[0]
  OBVIOUS
<1>1. 0 \notin rend /\ 0 \notin wend /\ 0 \in Procs
  BY PipeAssumption, TableSize DEF TypeOK
<1>2. call[0].op = "none"
  BY <1>1, CallTypes DEF Ownership, TypeOK
<1> QED
  BY <1>1, <1>2 DEF Ownership

\* Nobody goes to sleep, and the pipe, the slots and the calls stay as they are.
LEMMA QuietKeepsWakeups ==
    ASSUME TypeOK, Ownership, NoLostWakeup, NEW p \in Procs, curproc = p, ~slept[p],
           UNCHANGED <<ringvars, endvars, slotvars, callvars>>,
           \A q \in Procs \ {p} : state'[q] = "P_SLEEPING" => state[q] = "P_SLEEPING"
    PROVE  NoLostWakeup'
<1>1. ASSUME NEW q \in Procs, Asleep(q)'
      PROVE  Waits(q)'
  <2>1. slept[q] /\ q # p /\ state[q] = "P_SLEEPING"
    BY <1>1 DEF Asleep, callvars
  <2>2. Waits(q)
    BY <2>1, NoLostWakeupIs DEF Asleep
  <2> QED
    BY <2>2 DEF Waits, ringvars, endvars, slotvars, callvars
<1> QED
  BY <1>1 DEF NoLostWakeup, Waits, Asleep

\* p lets go of ends: whoever sleeps at the other end is told.
LEMMA DropKeepsWakeups ==
    ASSUME TypeOK, Ownership, NoLostWakeup, NEW p \in Procs, curproc = p,
           NEW ends \in SUBSET {"r", "w"}, call[p] = NoCall, Drop(p, ends),
           UNCHANGED <<ringvars, callvars>>,
           \A q \in Procs \ {p} : state'[q] = "P_SLEEPING" =>
                                       Told(p, ends)[q] = "P_SLEEPING"
    PROVE  NoLostWakeup'
<1>1. ASSUME NEW q \in Procs, Asleep(q)'
      PROVE  Waits(q)'
  <2>1. slept[q] /\ q # p
    BY <1>1, UserAwake DEF Asleep, callvars
  <2>2. /\ state[q] = "P_SLEEPING"
        /\ "r" \in ends /\ rend = {p} => write_waiting # q + 1
        /\ "w" \in ends /\ wend = {p} => read_waiting # q + 1
    BY <2>1, <1>1, ToldFacts DEF Asleep
  <2>3. Waits(q)
    BY <2>1, <2>2, NoLostWakeupIs DEF Asleep
  <2>4. /\ readers' = IF "r" \in ends /\ rend = {p} THEN 0 ELSE readers
        /\ writers' = IF "w" \in ends /\ wend = {p} THEN 0 ELSE writers
        /\ write_waiting' = IF "r" \in ends /\ rend = {p} THEN 0 ELSE write_waiting
        /\ read_waiting' = IF "w" \in ends /\ wend = {p} THEN 0 ELSE read_waiting
        /\ call' = call /\ count' = count
    BY DEF Drop, ringvars, callvars
  <2>5. CASE call[q].op = "read" /\ read_waiting = q + 1 /\ count = 0 /\ writers > 0
    BY <2>2, <2>4, <2>5 DEF Waits
  <2>6. CASE call[q].op = "write" /\ write_waiting = q + 1 /\ count = PIPE_SIZE
                                  /\ readers > 0
    BY <2>2, <2>4, <2>6 DEF Waits
  <2> QED
    BY <2>3, <2>5, <2>6 DEF Waits
<1> QED
  BY <1>1 DEF NoLostWakeup, Waits, Asleep

LEMMA ExitKeepsWakeups ==
    ASSUME TypeOK, Ownership, NoLostWakeup, NEW p \in Procs, curproc = p,
           call[p] = NoCall, Exit(p)
    PROVE  NoLostWakeup'
<1> DEFINE s == [Told(p, {"r", "w"}) EXCEPT ![p] = "P_ZOMBIE"]
<1>1. /\ s \in [Procs -> ProcStates]
      /\ \A q \in Procs \ {p} : s[q] = Told(p, {"r", "w"})[q]
  BY ToldFacts DEF ProcStates
<1>2. Schedule(Wakeup(s, 0)) /\ Drop(p, {"r", "w"}) /\ UNCHANGED <<ringvars, callvars>>
  BY DEF Exit
<1> HIDE DEF s
<1>3. /\ Wakeup(s, 0) \in [Procs -> ProcStates]
      /\ \A q \in Procs : Wakeup(s, 0)[q] = "P_SLEEPING" => s[q] = "P_SLEEPING"
  BY <1>1, WakeupFacts, TableSize
<1>4. \A q \in Procs : state'[q] = "P_SLEEPING" => Wakeup(s, 0)[q] = "P_SLEEPING"
  BY <1>2, <1>3, ScheduleFacts
<1>5. \A q \in Procs \ {p} : state'[q] = "P_SLEEPING" =>
                                  Told(p, {"r", "w"})[q] = "P_SLEEPING"
  BY <1>1, <1>3, <1>4
<1>6. {"r", "w"} \in SUBSET {"r", "w"}
  OBVIOUS
<1> QED
  BY <1>2, <1>5, <1>6, DropKeepsWakeups

\* p sleeps in its call, or has returned from it, and has woken whoever sleeps at
\* the other end; at its own end, being alone, it has nobody to wake.
LEMMA OthersWoken ==
    ASSUME TypeOK, Ownership, NoLostWakeup,
           \A x, y \in Readers : x = y, \A x, y \in Writers : x = y,
           NEW p \in Procs, curproc = p,
           NEW q \in Procs, q # p, Asleep(q)',
           \A r \in Procs \ {p} : state'[r] = "P_SLEEPING" => state[r] = "P_SLEEPING",
           slept'[q] => slept[q]
    PROVE  /\ state'[q] = "P_SLEEPING"
           /\ call[p].op = "read" =>
                 call[q].op = "write" /\ write_waiting = q + 1 /\ readers > 0
           /\ call[p].op = "write" =>
                 call[q].op = "read" /\ read_waiting = q + 1 /\ writers > 0
<1>1. Asleep(q) /\ state'[q] = "P_SLEEPING"
  BY DEF Asleep
<1>2. Waits(q)
  BY <1>1, NoLostWakeupIs
<1>3. /\ call[p].op = "read" /\ call[q].op = "read" => p = q
      /\ call[p].op = "write" /\ call[q].op = "write" => p = q
  BY DEF Ownership, TypeOK
<1> QED
  BY <1>1, <1>2, <1>3 DEF Waits

LEMMA StepNoLostWakeup ==
    ASSUME \A p, q \in Readers : p = q, \A p, q \in Writers : p = q,
           TypeOK, Ownership, NoLostWakeup, [Next]_vars
    PROVE  NoLostWakeup'
<1> USE DEF slotvars, ringvars, endvars, callvars
<1>0. /\ state \in [Procs -> ProcStates]
      /\ read_waiting \in 0..MAXPROC /\ write_waiting \in 0..MAXPROC
  BY DEF TypeOK
<1>1. ASSUME NEW p \in Procs, SysRead(p) \/ SysWrite(p) PROVE NoLostWakeup'
  <2>1. /\ curproc = p /\ call[p] = NoCall /\ UNCHANGED <<ringvars, endvars, slotvars>>
        /\ UNCHANGED <<state, curproc, slept>>
        /\ \E c : call' = [call EXCEPT ![p] = c]
    BY <1>1 DEF SysRead, SysWrite, InUser, Enter
  <2>2. ASSUME NEW q \in Procs, Asleep(q)' PROVE Waits(q)'
    <3>1. Asleep(q) /\ q # p /\ call'[q] = call[q]
      BY <2>1, <2>2 DEF Asleep, TypeOK
    <3> QED
      BY <2>1, <3>1, NoLostWakeupIs DEF Waits
  <2> QED
    BY <2>2 DEF NoLostWakeup, Waits, Asleep
<1>2. ASSUME NEW p \in Procs, SysClose(p) PROVE NoLostWakeup'
  <2>1. PICK ends \in SUBSET {"r", "w"} : Drop(p, ends) /\ state' = Told(p, ends)
    BY <1>2 DEF SysClose
  <2>2. curproc = p /\ call[p] = NoCall /\ UNCHANGED <<ringvars, callvars>>
    BY <1>2 DEF SysClose, InUser
  <2> QED
    BY <2>1, <2>2, DropKeepsWakeups
<1>3. ASSUME NEW p \in Procs, SysExit(p) PROVE NoLostWakeup'
  BY <1>3, ExitKeepsWakeups DEF SysExit, InUser
<1>4. ASSUME NEW p \in Procs, SysKill(p) PROVE NoLostWakeup'
  <2>1. PICK t \in Procs : state' = Wakeup(state, t)
    BY <1>4 DEF SysKill
  <2>2. \A q \in Procs : state'[q] = "P_SLEEPING" => state[q] = "P_SLEEPING"
    BY <2>1, WakeupFacts DEF TypeOK
  <2>3. curproc = p /\ ~slept[p]
    BY <1>4, UserAwake DEF SysKill, InUser
  <2> QED
    BY <1>4, <2>2, <2>3, QuietKeepsWakeups DEF SysKill
<1>5. ASSUME NEW p \in Procs, TimerTick(p) PROVE NoLostWakeup'
  <2>1. curproc = p /\ ~slept[p] /\ Schedule(state)
    BY <1>5, UserAwake DEF TimerTick, InUser
  <2>2. \A q \in Procs : state'[q] = "P_SLEEPING" => state[q] = "P_SLEEPING"
    BY <2>1, ScheduleFacts DEF TypeOK
  <2> QED
    BY <1>5, <2>1, <2>2, QuietKeepsWakeups DEF TimerTick
<1>6. ASSUME NEW p \in Procs, PipeRead(p) PROVE NoLostWakeup'
  <2>1. /\ curproc = p /\ curproc' = p /\ call[p].op = "read"
        /\ slept' = [slept EXCEPT ![p] = FALSE]
        /\ state' = WakeSlot(state, write_waiting)
    BY <1>6 DEF PipeRead, In, Return
  <2>2. \A q \in Procs : state'[q] = "P_SLEEPING" =>
                             state[q] = "P_SLEEPING" /\ write_waiting # q + 1
    BY <2>1, <1>0, WakeSlotFacts
  <2>3. ASSUME NEW q \in Procs, Asleep(q)' PROVE FALSE
    <3>1. q # p /\ (slept'[q] => slept[q])
      BY <2>1, <2>3 DEF Asleep, TypeOK
    <3>2. write_waiting = q + 1 /\ state'[q] = "P_SLEEPING"
      BY <2>1, <2>2, <2>3, <3>1, OthersWoken
    <3> QED
      BY <2>2, <3>2
  <2> QED
    BY <2>3 DEF NoLostWakeup, Asleep
<1>7. ASSUME NEW p \in Procs, PipeReadBlock(p) PROVE NoLostWakeup'
  <2>1. /\ curproc = p /\ call[p].op = "read"
        /\ slept' = [slept EXCEPT ![p] = TRUE] /\ call' = call
        /\ read_waiting' = p + 1 /\ count' = 0 /\ writers' > 0
        /\ Schedule([WakeSlot(state, write_waiting) EXCEPT ![p] = "P_SLEEPING"])
    BY <1>7 DEF PipeReadBlock, In
  <2>2. \A q \in Procs \ {p} : state'[q] = "P_SLEEPING" =>
                                   state[q] = "P_SLEEPING" /\ write_waiting # q + 1
    BY <2>1, BlockType DEF TypeOK
  <2>3. ASSUME NEW q \in Procs, Asleep(q)', q # p PROVE FALSE
    <3>1. slept'[q] => slept[q]
      BY <2>1, <2>3 DEF TypeOK
    <3>2. write_waiting = q + 1 /\ state'[q] = "P_SLEEPING"
      BY <2>1, <2>2, <2>3, <3>1, OthersWoken
    <3> QED
      BY <2>2, <2>3, <3>2
  <2>4. Waits(p)'
    BY <2>1 DEF Waits
  <2> QED
    BY <2>3, <2>4 DEF NoLostWakeup, Asleep, Waits
<1>8. ASSUME NEW p \in Procs, PipeWrite(p) PROVE NoLostWakeup'
  <2>1. /\ curproc = p /\ curproc' = p /\ call[p].op = "write"
        /\ slept' = [slept EXCEPT ![p] = FALSE]
        /\ state' = WakeSlot(state, read_waiting)
    BY <1>8 DEF PipeWrite, In, Return, WakeReader
  <2>2. \A q \in Procs : state'[q] = "P_SLEEPING" =>
                             state[q] = "P_SLEEPING" /\ read_waiting # q + 1
    BY <2>1, <1>0, WakeSlotFacts
  <2>3. ASSUME NEW q \in Procs, Asleep(q)' PROVE FALSE
    <3>1. q # p /\ (slept'[q] => slept[q])
      BY <2>1, <2>3 DEF Asleep, TypeOK
    <3>2. read_waiting = q + 1 /\ state'[q] = "P_SLEEPING"
      BY <2>1, <2>2, <2>3, <3>1, OthersWoken
    <3> QED
      BY <2>2, <3>2
  <2> QED
    BY <2>3 DEF NoLostWakeup, Asleep
<1>9. ASSUME NEW p \in Procs, PipeWriteBlock(p) PROVE NoLostWakeup'
  <2>1. /\ curproc = p /\ call[p].op = "write"
        /\ slept' = [slept EXCEPT ![p] = TRUE] /\ call' = call
        /\ write_waiting' = p + 1 /\ count' = count /\ count >= PIPE_SIZE /\ readers' > 0
        /\ Schedule([WakeSlot(state, read_waiting) EXCEPT ![p] = "P_SLEEPING"])
    BY <1>9 DEF PipeWriteBlock, In
  <2>2. \A q \in Procs \ {p} : state'[q] = "P_SLEEPING" =>
                                   state[q] = "P_SLEEPING" /\ read_waiting # q + 1
    BY <2>1, BlockType DEF TypeOK
  <2>3. ASSUME NEW q \in Procs, Asleep(q)', q # p PROVE FALSE
    <3>1. slept'[q] => slept[q]
      BY <2>1, <2>3 DEF TypeOK
    <3>2. read_waiting = q + 1 /\ state'[q] = "P_SLEEPING"
      BY <2>1, <2>2, <2>3, <3>1, OthersWoken
    <3> QED
      BY <2>2, <2>3, <3>2
  <2>4. Waits(p)'
    BY <2>1, RingSize DEF Waits, TypeOK
  <2> QED
    BY <2>3, <2>4 DEF NoLostWakeup, Asleep, Waits
<1>10. ASSUME NEW p \in Procs, PipeWriteBroken(p) PROVE NoLostWakeup'
  <2>1. /\ curproc = p /\ curproc' = p /\ call[p].op = "write" /\ readers = 0
        /\ slept' = [slept EXCEPT ![p] = FALSE]
        /\ state' = state \/ state' = WakeSlot(state, read_waiting)
    BY <1>10 DEF PipeWriteBroken, In, Return
  <2>2. \A q \in Procs : state'[q] = "P_SLEEPING" => state[q] = "P_SLEEPING"
    <3>1. \A q \in Procs : WakeSlot(state, read_waiting)[q] = "P_SLEEPING" =>
                               state[q] = "P_SLEEPING"
      BY <1>0, WakeSlotFacts
    <3> QED
      BY <2>1, <3>1
  <2>3. ASSUME NEW q \in Procs, Asleep(q)' PROVE FALSE
    <3>1. q # p /\ (slept'[q] => slept[q])
      BY <2>1, <2>3 DEF Asleep, TypeOK
    <3>2. call[q].op = "read"
      BY <2>1, <2>2, <2>3, <3>1, OthersWoken
    <3> QED
      BY <2>1, <3>2 DEF Ownership
  <2> QED
    BY <2>3 DEF NoLostWakeup, Asleep
<1>11. ASSUME NEW p \in Procs, SigPipe(p) PROVE NoLostWakeup'
  <2>1. curproc = p /\ call[p] = NoCall /\ ~slept[p]
    BY <1>11, UserAwake DEF SigPipe
  <2>2. CASE Exit(p)
    BY <2>1, <2>2, ExitKeepsWakeups
  <2>3. CASE UNCHANGED <<state, curproc, ringvars, endvars, slotvars, callvars>>
    BY <2>1, <2>3, QuietKeepsWakeups
  <2> QED
    BY <1>11, <2>2, <2>3 DEF SigPipe
<1>12. CASE Process0
  <2> DEFINE s == [state EXCEPT ![0] = "P_SLEEPING"]
  <2>1. /\ s \in [Procs -> ProcStates] /\ Schedule(s) /\ curproc = 0 /\ 0 \in Procs
        /\ \A q \in Procs \ {0} : s[q] = state[q]
    BY <1>12, TableSize DEF Process0, TypeOK, ProcStates
  <2> HIDE DEF s
  <2>2. \A q \in Procs \ {0} : state'[q] = "P_SLEEPING" => state[q] = "P_SLEEPING"
    BY <2>1, ScheduleFacts
  <2>3. UNCHANGED <<ringvars, endvars, slotvars, callvars>> /\ ~slept[0]
    BY <1>12, ZeroAwake DEF Process0
  <2> QED
    BY <2>1, <2>2, <2>3, QuietKeepsWakeups
<1>13. CASE UNCHANGED vars
  BY <1>13 DEF vars, NoLostWakeup
<1> QED
  BY <1>1, <1>2, <1>3, <1>4, <1>5, <1>6, <1>7, <1>8, <1>9, <1>10, <1>11, <1>12, <1>13
     DEF Next, UserStep, KernelStep

\* With one reader and one writer no wakeup is lost, for every size of the ring,
\* every transfer and every number of bystanders: whoever sleeps in the pipe is
\* the process its slot remembers, and what it waits for has not happened.
THEOREM PipeWakeups ==
    ASSUME \A p, q \in Readers : p = q, \A p, q \in Writers : p = q
    PROVE  Spec => []NoLostWakeup
<1>1. Init => TypeOK /\ Ownership /\ NoLostWakeup
  <2>1. Init => NoLostWakeup
    BY DEF Init, NoLostWakeup
  <2> QED
    BY <2>1, InitType, InitOwnership
<1>2. TypeOK /\ Ownership /\ NoLostWakeup /\ [Next]_vars
         => (TypeOK /\ Ownership /\ NoLostWakeup)'
  BY StepType, StepOwnership, StepNoLostWakeup
<1> QED
  BY <1>1, <1>2, PTL DEF Spec

-----------------------------------------------------------------------------
(***************************************************************************)
(* The ring of pipe_read() and pipe_write() implements the bounded queue   *)
(* of PipeFifo, for every size of the ring, every number of processes at   *)
(* either end and everything they read and write.                          *)
(***************************************************************************)

(* The contents of a ring *)

RingContents(b, pos, n) == [i \in 1..n |-> b[(pos + i - 1) % PIPE_SIZE]]

IsRing(b, pos, n) ==
    b \in [0..(PIPE_SIZE - 1) -> Bytes] /\ pos \in 0..(PIPE_SIZE - 1) /\ n \in 0..PIPE_SIZE

LEMMA ContentsAre ==
    /\ Contents = RingContents(buf, read_pos, count)
    /\ Contents' = RingContents(buf', read_pos', count')
BY DEF Contents, RingContents

LEMMA RingPosIs ==
    ASSUME NEW pos \in 0..(PIPE_SIZE - 1), NEW i \in 1..PIPE_SIZE
    PROVE  /\ RingPos(pos, i) = IF pos + i - 1 < PIPE_SIZE THEN pos + i - 1
                                ELSE pos + i - 1 - PIPE_SIZE
           /\ RingPos(pos, i) \in 0..(PIPE_SIZE - 1)
<1>1. PICK k \in Nat : k = pos + i - 1 /\ k < 2 * PIPE_SIZE
  BY RingSize
<1>2. k % PIPE_SIZE = IF k < PIPE_SIZE THEN k ELSE k - PIPE_SIZE
  BY <1>1, ModIs
<1> QED
  BY <1>1, <1>2, RingSize DEF RingPos

LEMMA RingContentsIs ==
    ASSUME NEW b, NEW pos, NEW n, IsRing(b, pos, n)
    PROVE  /\ RingContents(b, pos, n) \in Seq(Bytes)
           /\ Len(RingContents(b, pos, n)) = n
           /\ \A i \in 1..n : RingContents(b, pos, n)[i] = b[RingPos(pos, i)]
<1> USE DEF IsRing
<1>1. ASSUME NEW i \in 1..n
      PROVE  RingPos(pos, i) \in 0..(PIPE_SIZE - 1)
  <2>1. i \in 1..PIPE_SIZE
    BY RingSize
  <2> QED
    BY <2>1, RingPosIs
<1>2. RingContents(b, pos, n) \in [1..n -> Bytes]
  BY <1>1 DEF RingContents, RingPos
<1>3. n \in Nat
  BY RingSize
<1>4. \A i \in 1..n : RingContents(b, pos, n)[i] = b[RingPos(pos, i)]
  BY DEF RingContents, RingPos
<1> HIDE DEF IsRing
<1> QED
  BY <1>2, <1>3, <1>4, FunctionIsSeq

\* Positions counted from a place k bytes on.
LEMMA RingPosShift ==
    ASSUME NEW pos \in 0..(PIPE_SIZE - 1), NEW k \in 0..PIPE_SIZE,
           NEW i \in 1..PIPE_SIZE, NEW j \in 1..PIPE_SIZE, j = k + i
    PROVE  RingPos(Advance(pos, k), i) = RingPos(pos, j)
<1>1. PICK mid \in 0..(PIPE_SIZE - 1) :
         mid = Advance(pos, k) /\ mid = IF pos + k < PIPE_SIZE THEN pos + k
                                        ELSE pos + k - PIPE_SIZE
  BY AdvanceIs
<1>2. RingPos(mid, i) = IF mid + i - 1 < PIPE_SIZE THEN mid + i - 1
                        ELSE mid + i - 1 - PIPE_SIZE
  BY RingPosIs
<1>3. RingPos(pos, j) = IF pos + j - 1 < PIPE_SIZE THEN pos + j - 1
                        ELSE pos + j - 1 - PIPE_SIZE
  BY RingPosIs
<1>4. RingPos(mid, i) = RingPos(pos, j)
  BY <1>1, <1>2, <1>3, RingSize
<1> QED
  BY <1>1, <1>4

\* Different bytes of a ring are at different positions.
LEMMA RingPosDiffer ==
    ASSUME NEW pos \in 0..(PIPE_SIZE - 1), NEW i \in 1..PIPE_SIZE, NEW j \in 1..PIPE_SIZE,
           i # j
    PROVE  RingPos(pos, i) # RingPos(pos, j)
<1>1. RingPos(pos, i) = IF pos + i - 1 < PIPE_SIZE THEN pos + i - 1
                        ELSE pos + i - 1 - PIPE_SIZE
  BY RingPosIs
<1>2. RingPos(pos, j) = IF pos + j - 1 < PIPE_SIZE THEN pos + j - 1
                        ELSE pos + j - 1 - PIPE_SIZE
  BY RingPosIs
<1> QED
  BY <1>1, <1>2, RingSize

\* Taking k bytes out leaves the rest.
LEMMA RingAfterRead ==
    ASSUME NEW b, NEW pos, NEW n, IsRing(b, pos, n), NEW k \in 0..n
    PROVE  RingContents(b, Advance(pos, k), n - k) =
              SubSeq(RingContents(b, pos, n), k + 1, n)
<1>0. /\ b \in [0..(PIPE_SIZE - 1) -> Bytes] /\ pos \in 0..(PIPE_SIZE - 1)
      /\ n \in 0..PIPE_SIZE /\ k \in 0..PIPE_SIZE /\ n - k \in 0..PIPE_SIZE
  BY RingSize DEF IsRing
<1> DEFINE s == RingContents(b, Advance(pos, k), n - k)
           t == RingContents(b, pos, n)
<1>1. IsRing(b, Advance(pos, k), n - k)
  BY <1>0, AdvanceIs DEF IsRing
<1>2. /\ s \in Seq(Bytes) /\ Len(s) = n - k
      /\ \A i \in 1..(n - k) : s[i] = b[RingPos(Advance(pos, k), i)]
  BY <1>1, RingContentsIs
<1>3. /\ t \in Seq(Bytes) /\ Len(t) = n
      /\ \A i \in 1..n : t[i] = b[RingPos(pos, i)]
  BY RingContentsIs
<1> HIDE DEF s, t
<1>4. /\ SubSeq(t, k + 1, n) \in Seq(Bytes)
      /\ Len(SubSeq(t, k + 1, n)) = n - k
      /\ \A i \in 1..(n - k) : SubSeq(t, k + 1, n)[i] = t[k + i]
  <2>1. /\ k + 1 \in Int /\ n \in Int /\ 1 <= k + 1 /\ k + 1 <= n + 1 /\ n <= Len(t)
        /\ n - (k + 1) + 1 = n - k /\ \A i \in 1..(n - k) : (k + 1) + i - 1 = k + i
    BY <1>0, <1>3
  <2>2. PICK m \in Int : m = k + 1
    BY <2>1
  <2>3. /\ SubSeq(t, m, n) \in Seq(Bytes)
        /\ Len(SubSeq(t, m, n)) = n - m + 1
        /\ \A i \in 1..(n - m + 1) : SubSeq(t, m, n)[i] = t[m + i - 1]
    BY <2>1, <2>2, <1>3, SubSeqIs
  <2> QED
    BY <2>1, <2>2, <2>3
<1>5. ASSUME NEW i \in 1..(n - k)
      PROVE  s[i] = SubSeq(t, k + 1, n)[i]
  <2>1. PICK j \in 1..PIPE_SIZE : j = k + i /\ j \in 1..n /\ i \in 1..PIPE_SIZE
    BY <1>0, RingSize
  <2>2. RingPos(Advance(pos, k), i) = RingPos(pos, j)
    BY <2>1, <1>0, RingPosShift
  <2>3. t[j] = b[RingPos(pos, j)]
    BY <2>1, <1>3
  <2>4. s[i] = b[RingPos(Advance(pos, k), i)]
    BY <1>2
  <2>5. SubSeq(t, k + 1, n)[i] = t[j]
    BY <1>4, <2>1
  <2> QED
    BY <2>2, <2>3, <2>4, <2>5
<1>6. s = SubSeq(t, k + 1, n)
  BY <1>2, <1>4, <1>5, SeqEqual
<1> QED
  BY <1>6 DEF s, t

\* Putting k bytes of data in behind the n there are, at wpos.
Appended(b, b2, pos, n, wpos, data, k) ==
    /\ IsRing(b, pos, n) /\ k \in Nat /\ n + k <= PIPE_SIZE
    /\ data \in Seq(Bytes) /\ k <= Len(data)
    /\ wpos = Advance(pos, n)
    /\ Stored(b, b2, wpos, data, k)

Followed(s, data, k) == s \o SubSeq(data, 1, k)

LEMMA RingAfterWrite ==
    ASSUME NEW b, NEW b2, NEW pos, NEW n, NEW wpos, NEW data, NEW k,
           Appended(b, b2, pos, n, wpos, data, k)
    PROVE  RingContents(b2, pos, n + k) = Followed(RingContents(b, pos, n), data, k)
<1>a. /\ IsRing(b, pos, n) /\ k \in Nat /\ n + k <= PIPE_SIZE
      /\ data \in Seq(Bytes) /\ k <= Len(data)
      /\ Stored(b, b2, Advance(pos, n), data, k)
  BY DEF Appended
<1>0. /\ b \in [0..(PIPE_SIZE - 1) -> Bytes] /\ pos \in 0..(PIPE_SIZE - 1)
      /\ n \in 0..PIPE_SIZE /\ k \in 0..PIPE_SIZE /\ n + k \in 0..PIPE_SIZE
  BY <1>a, RingSize DEF IsRing
<1> DEFINE s == RingContents(b2, pos, n + k)
           t == RingContents(b, pos, n)
           d == SubSeq(data, 1, k)
<1>1. /\ b2 \in [0..(PIPE_SIZE - 1) -> Bytes]
      /\ \A i \in 1..k : b2[RingPos(Advance(pos, n), i)] = data[i]
      /\ \A j \in 0..(PIPE_SIZE - 1) :
            (\A i \in 1..k : RingPos(Advance(pos, n), i) # j) => b2[j] = b[j]
  BY <1>a DEF Stored
<1>2. IsRing(b2, pos, n + k)
  BY <1>0, <1>1 DEF IsRing
<1>3. /\ s \in Seq(Bytes) /\ Len(s) = n + k
      /\ \A i \in 1..(n + k) : s[i] = b2[RingPos(pos, i)]
  BY <1>2, RingContentsIs
<1>4. /\ t \in Seq(Bytes) /\ Len(t) = n
      /\ \A i \in 1..n : t[i] = b[RingPos(pos, i)]
  BY <1>a, RingContentsIs
<1>5. /\ d \in Seq(Bytes) /\ Len(d) = k
      /\ \A i \in 1..k : d[i] = data[i]
  BY <1>a, <1>0, SubSeqIs
<1> HIDE DEF s, t, d
<1>6. /\ t \o d \in Seq(Bytes) /\ Len(t \o d) = n + k
      /\ \A i \in 1..(n + k) : (t \o d)[i] = IF i <= n THEN t[i] ELSE d[i - n]
  BY <1>4, <1>5, ConcatProperties
<1>7. ASSUME NEW j \in 1..k, NEW m \in 1..PIPE_SIZE, m = n + j
      PROVE  RingPos(Advance(pos, n), j) = RingPos(pos, m)
  <2>1. j \in 1..PIPE_SIZE
    BY <1>0, RingSize
  <2> QED
    BY <2>1, <1>0, <1>7, RingPosShift
<1>8. ASSUME NEW i \in 1..(n + k)
      PROVE  s[i] = (t \o d)[i]
  <2>1. CASE i <= n
    <3>1. i \in 1..n /\ i \in 1..PIPE_SIZE
      BY <2>1, <1>0, RingSize
    <3>2. ASSUME NEW j \in 1..k
          PROVE  RingPos(Advance(pos, n), j) # RingPos(pos, i)
      <4>1. PICK m \in 1..PIPE_SIZE : m = n + j /\ m # i
        BY <3>1, <1>0, RingSize
      <4>2. RingPos(pos, m) # RingPos(pos, i)
        BY <3>1, <4>1, <1>0, RingPosDiffer
      <4>3. RingPos(Advance(pos, n), j) = RingPos(pos, m)
        BY <4>1, <1>7
      <4> QED
        BY <4>1, <4>2, <4>3
    <3>3. RingPos(pos, i) \in 0..(PIPE_SIZE - 1)
      BY <3>1, <1>0, RingPosIs
    <3>4. b2[RingPos(pos, i)] = b[RingPos(pos, i)]
      BY <3>2, <3>3, <1>1
    <3> QED
      BY <2>1, <3>1, <3>4, <1>3, <1>4, <1>6
  <2>2. CASE i > n
    <3>1. PICK j \in 1..k : j = i - n /\ i = n + j
      BY <2>2, <1>0
    <3>2. s[i] = data[j]
      <4>1. i \in 1..PIPE_SIZE
        BY <1>0, RingSize
      <4>2. RingPos(Advance(pos, n), j) = RingPos(pos, i)
        BY <4>1, <3>1, <1>7
      <4>3. b2[RingPos(Advance(pos, n), j)] = data[j]
        BY <1>1
      <4>4. s[i] = b2[RingPos(pos, i)]
        BY <1>3
      <4> QED
        BY <4>2, <4>3, <4>4
    <3>3. (t \o d)[i] = d[j]
      BY <2>2, <3>1, <1>0, <1>6
    <3> QED
      BY <3>2, <3>3, <1>5
  <2>3. i <= n \/ i > n
    BY <1>0
  <2> QED
    BY <2>1, <2>2, <2>3
<1>9. s = t \o d
  BY <1>3, <1>6, <1>8, SeqEqual
<1> QED
  BY <1>9 DEF s, t, d, Followed

-----------------------------------------------------------------------------
(* The two ends meet *)

LEMMA AdvanceTwice ==
    ASSUME NEW pos \in 0..(PIPE_SIZE - 1), NEW m \in 0..PIPE_SIZE, NEW k \in 0..PIPE_SIZE,
           NEW n \in 0..PIPE_SIZE, n = m + k
    PROVE  Advance(Advance(pos, m), k) = Advance(pos, n)
<1>1. PICK mid \in 0..(PIPE_SIZE - 1) :
         mid = Advance(pos, m) /\ mid = IF pos + m < PIPE_SIZE THEN pos + m
                                        ELSE pos + m - PIPE_SIZE
  BY AdvanceIs
<1>2. Advance(mid, k) = IF mid + k < PIPE_SIZE THEN mid + k ELSE mid + k - PIPE_SIZE
  BY AdvanceIs
<1>3. Advance(pos, n) = IF pos + n < PIPE_SIZE THEN pos + n ELSE pos + n - PIPE_SIZE
  BY AdvanceIs
<1>4. Advance(mid, k) = Advance(pos, n)
  BY <1>1, <1>2, <1>3, RingSize
<1> QED
  BY <1>1, <1>4

LEMMA AlignedIs ==
    /\ RingAligned <=> write_pos = Advance(read_pos, count)
    /\ RingAligned' <=> write_pos' = Advance(read_pos', count')
BY DEF RingAligned, Advance

LEMMA InitAligned == Init => RingAligned
<1>1. 0 \in Nat /\ 0 + 0 = 0 /\ 0 < 2 * PIPE_SIZE /\ 0 < PIPE_SIZE
  BY RingSize
<1>2. 0 % PIPE_SIZE = 0
  BY <1>1, ModIs
<1> QED
  BY <1>1, <1>2 DEF Init, RingAligned

\* What a read takes, and that it leaves the ends aligned.
LEMMA ReadAligned ==
    ASSUME TypeOK, RingAligned, NEW p \in Procs, PipeRead(p)
    PROVE  RingAligned'
<1>1. PICK k \in Nat :
         /\ k = IF call[p].len <= count THEN call[p].len ELSE count
         /\ read_pos' = Advance(read_pos, k)
         /\ count' = count - k
  BY ReadFacts
<1>2. /\ read_pos \in 0..(PIPE_SIZE - 1) /\ count \in 0..PIPE_SIZE /\ k \in 0..PIPE_SIZE
      /\ count' \in 0..PIPE_SIZE /\ count = k + count'
  <2>1. read_pos \in 0..(PIPE_SIZE - 1) /\ count \in 0..PIPE_SIZE /\ call[p].len \in Nat
    BY CallTypes DEF TypeOK
  <2> QED
    BY <2>1, <1>1, RingSize
<1>3. Advance(Advance(read_pos, k), count') = Advance(read_pos, count)
  BY <1>2, AdvanceTwice
<1>4. write_pos' = write_pos
  BY DEF PipeRead
<1> QED
  BY <1>1, <1>3, <1>4, AlignedIs

LEMMA WriteAligned ==
    ASSUME TypeOK, RingAligned, NEW p \in Procs, PipeWrite(p)
    PROVE  RingAligned'
<1>1. PICK k \in Nat :
         /\ count + k <= PIPE_SIZE
         /\ write_pos' = Advance(write_pos, k)
         /\ count' = count + k
  BY WriteFacts
<1>2. /\ read_pos \in 0..(PIPE_SIZE - 1) /\ count \in 0..PIPE_SIZE /\ k \in 0..PIPE_SIZE
      /\ count' \in 0..PIPE_SIZE
  BY <1>1, RingSize DEF TypeOK
<1>3. Advance(Advance(read_pos, count), k) = Advance(read_pos, count')
  BY <1>1, <1>2, AdvanceTwice
<1>4. read_pos' = read_pos
  BY DEF PipeWrite
<1> QED
  BY <1>1, <1>3, <1>4, AlignedIs

LEMMA QuietAligned ==
    ASSUME RingAligned, UNCHANGED ringvars
    PROVE  RingAligned' /\ Contents' = Contents
BY DEF RingAligned, ringvars, Contents

-----------------------------------------------------------------------------
(* Every step of the pipe is a step of the queue *)

LEMMA MinOfTwo ==
    ASSUME NEW a \in Int, NEW b \in Int
    PROVE  Fifo!Min({a, b}) = IF a <= b THEN a ELSE b
<1> DEFINE m == IF a <= b THEN a ELSE b
<1>1. m \in {a, b} /\ \A y \in {a, b} : m <= y
  OBVIOUS
<1>2. \A x \in {a, b} : (\A y \in {a, b} : x <= y) => x = m
  OBVIOUS
<1> QED
  BY <1>1, <1>2 DEF Fifo!Min

\* The queue that the ring stands for.
LEMMA ContentsType ==
    ASSUME TypeOK
    PROVE  /\ IsRing(buf, read_pos, count)
           /\ Contents = RingContents(buf, read_pos, count)
           /\ Contents \in Seq(Bytes) /\ Len(Contents) = count
           /\ \A i \in 1..count : Contents[i] = buf[RingPos(read_pos, i)]
           /\ Contents # <<>> <=> count > 0
<1>1. IsRing(buf, read_pos, count)
  BY DEF TypeOK, IsRing
<1>2. Contents = RingContents(buf, read_pos, count)
  BY ContentsAre
<1>3. /\ Contents \in Seq(Bytes) /\ Len(Contents) = count
      /\ \A i \in 1..count : Contents[i] = buf[RingPos(read_pos, i)]
  BY <1>1, <1>2, RingContentsIs
<1>4. count \in Nat
  BY RingSize DEF TypeOK
<1>5. Contents # <<>> <=> count > 0
  BY <1>3, <1>4
<1> QED
  BY <1>1, <1>2, <1>3, <1>5

LEMMA InitSimulates == Init => Fifo!Init
<1> SUFFICES ASSUME Init PROVE Fifo!Init
  OBVIOUS
<1>1. TypeOK
  BY InitType
<1>2. Contents = <<>>
  BY <1>1, ContentsType DEF Init
<1> QED
  BY <1>2, PipeAssumption DEF Init, Fifo!Init, NoCall, Nothing, Fifo!NoCall, Fifo!Nothing

LEMMA ReadSimulates ==
    ASSUME TypeOK, Ownership, NEW p \in Procs, PipeRead(p)
    PROVE  Fifo!Read(p)
<1>1. PICK k \in Nat, data \in Seq(Bytes) :
         /\ k = IF call[p].len <= count THEN call[p].len ELSE count
         /\ Return(p, k, data)
         /\ Len(data) = k
         /\ \A i \in 1..k : data[i] = buf[RingPos(read_pos, i)]
         /\ read_pos' = Advance(read_pos, k)
         /\ count' = count - k
  BY ReadFacts
<1>2. /\ IsRing(buf, read_pos, count)
      /\ Contents = RingContents(buf, read_pos, count)
      /\ Contents \in Seq(Bytes) /\ Len(Contents) = count
      /\ \A i \in 1..count : Contents[i] = buf[RingPos(read_pos, i)]
      /\ Contents # <<>> <=> count > 0
  BY ContentsType
<1>3. count \in Int /\ call[p].len \in Int /\ k \in 0..count
  BY <1>1, CallTypes, RingSize DEF TypeOK
<1>4. Fifo!Min({call[p].len, Len(Contents)}) = k
  BY <1>1, <1>2, <1>3, MinOfTwo
<1>5. Contents' = SubSeq(Contents, k + 1, Len(Contents))
  <2>1. buf' = buf
    BY DEF PipeRead
  <2>2. Contents' = RingContents(buf, Advance(read_pos, k), count - k)
    BY <1>1, <2>1, ContentsAre
  <2>3. RingContents(buf, Advance(read_pos, k), count - k)
           = SubSeq(RingContents(buf, read_pos, count), k + 1, count)
    BY <1>2, <1>3, RingAfterRead
  <2> QED
    BY <1>2, <2>2, <2>3
<1>6. data = SubSeq(Contents, 1, k)
  <2>1. /\ SubSeq(Contents, 1, k) \in Seq(Bytes)
        /\ Len(SubSeq(Contents, 1, k)) = k
        /\ \A i \in 1..k : SubSeq(Contents, 1, k)[i] = Contents[i]
    <3>1. 1 \in Int /\ k \in Int /\ 1 <= k + 1 /\ k <= Len(Contents) /\ k - 1 + 1 = k
          /\ \A i \in 1..k : 1 + i - 1 = i
      BY <1>2, <1>3
    <3> QED
      BY <1>2, <3>1, SubSeqIs
  <2>2. ASSUME NEW i \in 1..k
        PROVE  data[i] = SubSeq(Contents, 1, k)[i]
    <3>1. i \in 1..count
      BY <1>3
    <3> QED
      BY <3>1, <2>1, <1>1, <1>2
  <2> QED
    BY <1>1, <2>1, <2>2, SeqEqual
<1>7. call[p].op = "read" /\ (Contents # <<>> \/ wend = {})
  BY <1>2 DEF PipeRead, In, Ownership, TypeOK
<1>8. UNCHANGED <<rend, wend>>
  BY DEF PipeRead, endvars
<1> HIDE DEF Contents
<1> QED
  BY <1>1, <1>4, <1>5, <1>6, <1>7, <1>8
     DEF Fifo!Read, Fifo!Return, Return, NoCall, Fifo!NoCall

LEMMA WriteSimulates ==
    ASSUME TypeOK, Ownership, RingAligned, NEW p \in Procs, PipeWrite(p)
    PROVE  Fifo!Write(p)
<1> DEFINE data == call[p].data
<1>1. PICK k \in Nat :
         /\ k = IF call[p].len <= PIPE_SIZE - count THEN call[p].len
                ELSE PIPE_SIZE - count
         /\ Return(p, IF k > 0 THEN k ELSE -EPIPE, <<>>)
         /\ k <= Len(data) /\ count + k <= PIPE_SIZE
         /\ Stored(buf, buf', write_pos, data, k)
         /\ count' = count + k
  BY WriteFacts
<1>2. /\ IsRing(buf, read_pos, count)
      /\ Contents = RingContents(buf, read_pos, count)
      /\ Len(Contents) = count
  BY ContentsType
<1>3. data \in Seq(Bytes) /\ call[p].len \in Int /\ PIPE_SIZE - count \in Int
  BY CallTypes, RingSize DEF TypeOK
<1> HIDE DEF data
<1>4. Fifo!Min({call[p].len, PIPE_SIZE - Len(Contents)}) = k
  BY <1>1, <1>2, <1>3, MinOfTwo
<1>5. Contents' = Contents \o SubSeq(data, 1, k)
  <2>1. read_pos' = read_pos
    BY DEF PipeWrite
  <2>2. Contents' = RingContents(buf', read_pos, count + k)
    BY <1>1, <2>1, ContentsAre
  <2>3. Appended(buf, buf', read_pos, count, write_pos, data, k)
    BY <1>1, <1>2, <1>3, AlignedIs DEF Appended
  <2>4. RingContents(buf', read_pos, count + k)
           = Followed(RingContents(buf, read_pos, count), data, k)
    BY <2>3, RingAfterWrite
  <2> QED
    BY <1>2, <2>2, <2>4 DEF Followed
<1>6. call[p].op = "write" /\ rend # {} /\ Len(Contents) < PIPE_SIZE
  BY <1>2 DEF PipeWrite, In, Ownership, TypeOK
<1>7. UNCHANGED <<rend, wend>>
  BY DEF PipeWrite, endvars
<1>8. Fifo!EPIPE = EPIPE
  BY DEF Fifo!EPIPE, EPIPE
<1> HIDE DEF Contents
<1> QED
  BY <1>1, <1>4, <1>5, <1>6, <1>7, <1>8
     DEF Fifo!Write, Fifo!Return, Return, NoCall, Fifo!NoCall, data

\* Letting go of ends, in no call.
LEMMA DropSimulates ==
    ASSUME NEW p \in Procs, NEW ends \in SUBSET {"r", "w"}, call[p] = NoCall,
           Drop(p, ends), UNCHANGED <<ringvars, callvars>>
    PROVE  Fifo!Close(p)
<1>1. Contents' = Contents
  BY DEF Contents, ringvars
<1>2. rend' \in {rend, rend \ {p}} /\ wend' \in {wend, wend \ {p}}
  BY DEF Drop
<1>3. call' = call /\ out' = out
  BY DEF callvars
<1> QED
  BY <1>1, <1>2, <1>3 DEF Fifo!Close, NoCall, Fifo!NoCall

\* A step that keeps the ring, the ends and the calls is invisible.
LEMMA StutterSimulates ==
    ASSUME UNCHANGED <<ringvars, endvars, call, out>>
    PROVE  UNCHANGED Fifo!vars
BY DEF Fifo!vars, Contents, ringvars, endvars

LEMMA StepSimulates ==
    TypeOK /\ Ownership /\ RingAligned /\ [Next]_vars => RingAligned' /\ [Fifo!Next]_Fifo!vars
<1> SUFFICES ASSUME TypeOK, Ownership, RingAligned, [Next]_vars
             PROVE  RingAligned' /\ [Fifo!Next]_Fifo!vars
  OBVIOUS
<1> USE DEF Fifo!Next
<1>1. ASSUME NEW p \in Procs, SysRead(p) PROVE RingAligned' /\ [Fifo!Next]_Fifo!vars
  <2>1. UNCHANGED ringvars
    BY <1>1 DEF SysRead
  <2>2. Contents' = Contents /\ RingAligned'
    BY <2>1, QuietAligned
  <2>3. Fifo!InvokeRead(p)
    BY <1>1, <2>2 DEF SysRead, InUser, Enter, endvars, Fifo!InvokeRead, Fifo!Invoke,
                      NoCall, Nothing, Fifo!NoCall, Fifo!Nothing
  <2> QED
    BY <2>2, <2>3
<1>2. ASSUME NEW p \in Procs, SysWrite(p) PROVE RingAligned' /\ [Fifo!Next]_Fifo!vars
  <2>1. UNCHANGED ringvars
    BY <1>2 DEF SysWrite
  <2>2. Contents' = Contents /\ RingAligned'
    BY <2>1, QuietAligned
  <2>3. Fifo!InvokeWrite(p)
    BY <1>2, <2>2 DEF SysWrite, InUser, Enter, endvars, Fifo!InvokeWrite, Fifo!Invoke,
                      NoCall, Nothing, Fifo!NoCall, Fifo!Nothing
  <2> QED
    BY <2>2, <2>3
<1>3. ASSUME NEW p \in Procs, SysClose(p) PROVE RingAligned' /\ [Fifo!Next]_Fifo!vars
  <2>1. PICK ends \in SUBSET {"r", "w"} : Drop(p, ends)
    BY <1>3 DEF SysClose
  <2>2. call[p] = NoCall /\ UNCHANGED <<ringvars, callvars>>
    BY <1>3 DEF SysClose, InUser
  <2>3. Fifo!Close(p)
    BY <2>1, <2>2, DropSimulates
  <2> QED
    BY <2>2, <2>3, QuietAligned
<1>4. ASSUME NEW p \in Procs, call[p] = NoCall, Exit(p)
      PROVE  RingAligned' /\ [Fifo!Next]_Fifo!vars
  <2>1. Drop(p, {"r", "w"}) /\ UNCHANGED <<ringvars, callvars>>
    BY <1>4 DEF Exit
  <2>2. Fifo!Close(p)
    BY <1>4, <2>1, DropSimulates
  <2> QED
    BY <2>1, <2>2, QuietAligned
<1>5. ASSUME NEW p \in Procs, PipeRead(p) PROVE RingAligned' /\ [Fifo!Next]_Fifo!vars
  BY <1>5, ReadAligned, ReadSimulates
<1>6. ASSUME NEW p \in Procs, PipeWrite(p) PROVE RingAligned' /\ [Fifo!Next]_Fifo!vars
  BY <1>6, WriteAligned, WriteSimulates
<1>7. ASSUME NEW p \in Procs, PipeWriteBroken(p)
      PROVE  RingAligned' /\ [Fifo!Next]_Fifo!vars
  <2>1. UNCHANGED ringvars /\ UNCHANGED endvars /\ In(p, "write") /\ readers = 0
        /\ Return(p, -EPIPE, <<>>)
    BY <1>7 DEF PipeWriteBroken
  <2>2. Contents' = Contents /\ RingAligned'
    BY <2>1, QuietAligned
  <2>3. call[p].op = "write" /\ rend = {} /\ UNCHANGED <<rend, wend>>
    BY <2>1 DEF In, Ownership, endvars
  <2>4. Fifo!WriteBroken(p)
    BY <2>1, <2>2, <2>3 DEF Fifo!WriteBroken, Fifo!Return, Return, NoCall, Fifo!NoCall,
                            EPIPE, Fifo!EPIPE
  <2> QED
    BY <2>2, <2>4
<1>8. ASSUME UNCHANGED <<ringvars, endvars, call, out>>
      PROVE  RingAligned' /\ [Fifo!Next]_Fifo!vars
  <2>1. UNCHANGED Fifo!vars
    BY <1>8, StutterSimulates
  <2>2. UNCHANGED ringvars
    BY <1>8
  <2> QED
    BY <2>1, <2>2, QuietAligned
<1>9. ASSUME NEW p \in Procs, UserStep(p) \/ TimerTick(p)
      PROVE  RingAligned' /\ [Fifo!Next]_Fifo!vars
  <2>1. CASE SysExit(p)
    BY <2>1, <1>4 DEF SysExit, InUser
  <2>2. CASE SysKill(p) \/ TimerTick(p)
    BY <2>2, <1>8 DEF SysKill, TimerTick, callvars
  <2> QED
    BY <1>1, <1>2, <1>3, <1>9, <2>1, <2>2 DEF UserStep
<1>10. ASSUME KernelStep PROVE RingAligned' /\ [Fifo!Next]_Fifo!vars
  <2>1. ASSUME NEW p \in Procs, SigPipe(p) PROVE RingAligned' /\ [Fifo!Next]_Fifo!vars
    BY <2>1, <1>4, <1>8, SigPipeCases DEF callvars
  <2>2. ASSUME NEW p \in Procs, PipeReadBlock(p) \/ PipeWriteBlock(p)
        PROVE  RingAligned' /\ [Fifo!Next]_Fifo!vars
    BY <2>2, <1>8 DEF PipeReadBlock, PipeWriteBlock
  <2>3. CASE Process0
    BY <2>3, <1>8 DEF Process0, callvars
  <2> QED
    BY <1>5, <1>6, <1>7, <1>10, <2>1, <2>2, <2>3 DEF KernelStep
<1>11. CASE UNCHANGED vars
  BY <1>11, <1>8 DEF vars, callvars
<1> QED
  BY <1>9, <1>10, <1>11 DEF Next

\* However reads and writes wrap, stop short, sleep and are woken, and whoever
\* closes an end or dies, the pipe is a bounded first-in first-out queue: for
\* every size of the ring, any number of readers and writers and any data.
THEOREM PipeIsFifo == Spec => RefinesFifo
<1>1. Init => TypeOK /\ Ownership /\ RingAligned /\ Fifo!Init
  BY InitType, InitOwnership, InitAligned, InitSimulates
<1>2. TypeOK /\ Ownership /\ RingAligned /\ [Next]_vars
         => (TypeOK /\ Ownership /\ RingAligned)' /\ [Fifo!Next]_Fifo!vars
  BY StepType, StepOwnership, StepSimulates
<1> QED
  BY <1>1, <1>2, PTL DEF Spec, RefinesFifo, Fifo!Spec
=============================================================================
