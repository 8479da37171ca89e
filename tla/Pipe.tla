-------------------------------- MODULE Pipe --------------------------------
(***************************************************************************)
(* One pipe between processes: pipe_read(), pipe_write() and the two       *)
(* closes of kernel/proc.c, from the moment the shell has set up the       *)
(* pipeline.                                                               *)
(*                                                                         *)
(* do_pipe() makes one open file per end; vfork and dup share it.  So      *)
(* readers and writers are 1 until the last process that has the end open  *)
(* closes it.  The pipe remembers one sleeping reader and one sleeping     *)
(* writer.                                                                 *)
(*                                                                         *)
(* Kernel code runs to its next schedule(): a call is one step when it     *)
(* does not block.  Where it blocks, it goes on after schedule(), with     *)
(* slept[p] set, by clearing the slot and testing again.                   *)
(***************************************************************************)
EXTENDS Sched, Integers, Sequences, FiniteSetsExt

CONSTANTS
    PIPE_SIZE,      \* 512 in kernel.h
    Bytes,          \* byte values
    Data,           \* what programs write
    Lens,           \* the lengths programs read with
    Readers,        \* processes that start with the read end open
    Writers         \* processes that start with the write end open

ASSUME PipeAssumption ==
    /\ PIPE_SIZE \in Nat \ {0}
    /\ Data \subseteq Seq(Bytes)
    /\ Lens \subseteq Nat
    /\ Readers # {} /\ Readers \subseteq Procs \ {0}
    /\ Writers # {} /\ Writers \subseteq Procs \ {0}

VARIABLES
    buf, read_pos, write_pos, count,
    readers, writers,               \* 1 or 0
    read_waiting, write_waiting,    \* 1 + pid, or 0
    rend, wend,                     \* who has the end open (the open file's refcount)
    call,                           \* the system call p is in
    slept,                          \* p is inside schedule() in that call
    out,                            \* what p's last call returned
    sigpipe                         \* who has SIGPIPE pending

ringvars == <<buf, read_pos, write_pos, count>>
endvars == <<readers, writers, rend, wend>>
slotvars == <<read_waiting, write_waiting>>
callvars == <<call, slept, out>>
vars == <<state, curproc, ringvars, endvars, slotvars, callvars, sigpipe>>

\* The bytes in the ring, oldest first.
Contents == [i \in 1..count |-> buf[(read_pos + i - 1) % PIPE_SIZE]]

Fifo == INSTANCE PipeFifo WITH Users <- Procs, Capacity <- PIPE_SIZE,
                               queue <- Contents

NoCall == [op |-> "none", len |-> 0, data |-> <<>>]
Nothing == [n |-> 0, data |-> <<>>]
EPIPE == 32

Calls ==
    {NoCall}
    \cup {[op |-> "read", len |-> n, data |-> <<>>] : n \in Lens}
    \cup {[op |-> "write", len |-> Len(d), data |-> d] : d \in Data}

TypeOK ==
    /\ state \in [Procs -> ProcStates]
    /\ curproc \in Procs
    /\ buf \in [0..(PIPE_SIZE - 1) -> Bytes]
    /\ read_pos \in 0..(PIPE_SIZE - 1)
    /\ write_pos \in 0..(PIPE_SIZE - 1)
    /\ count \in 0..PIPE_SIZE
    /\ readers \in {0, 1}
    /\ writers \in {0, 1}
    /\ read_waiting \in 0..MAXPROC
    /\ write_waiting \in 0..MAXPROC
    /\ rend \subseteq Readers
    /\ wend \subseteq Writers
    /\ call \in [Procs -> Calls]
    /\ slept \in [Procs -> BOOLEAN]
    /\ out \in [Procs -> [n : Int, data : Seq(Bytes)]]
    /\ sigpipe \subseteq Procs

\* do_pipe() has set the pipe up, and the processes of the pipeline are READY
\* or running; process 0 waits for them.  The ring of the first pipe is cleared
\* memory.
Init ==
    /\ curproc \in Procs \ {0}
    /\ state = [p \in Procs |-> IF p = 0 THEN "P_SLEEPING"
                                ELSE IF p = curproc THEN "P_RUNNING" ELSE "P_READY"]
    /\ \E zero \in Bytes : buf = [i \in 0..(PIPE_SIZE - 1) |-> zero]
    /\ read_pos = 0 /\ write_pos = 0 /\ count = 0
    /\ readers = 1 /\ writers = 1
    /\ read_waiting = 0 /\ write_waiting = 0
    /\ rend = Readers /\ wend = Writers
    /\ call = [p \in Procs |-> NoCall]
    /\ slept = [p \in Procs |-> FALSE]
    /\ out = [p \in Procs |-> Nothing]
    /\ sigpipe = {}

-----------------------------------------------------------------------------
(* Helpers *)

\* p runs its program.
InUser(p) ==
    /\ p # 0
    /\ curproc = p
    /\ call[p] = NoCall
    /\ p \notin sigpipe

In(p, op) == curproc = p /\ call[p].op = op

Enter(p, c) ==
    /\ call' = [call EXCEPT ![p] = c]
    /\ out' = [out EXCEPT ![p] = Nothing]
    /\ UNCHANGED slept

Return(p, n, data) ==
    /\ call' = [call EXCEPT ![p] = NoCall]
    /\ slept' = [slept EXCEPT ![p] = FALSE]
    /\ out' = [out EXCEPT ![p] = [n |-> n, data |-> data]]

\* Table s after the process that slot w remembers, if any, is woken.
WakeSlot(s, w) == IF w = 0 THEN s ELSE Wakeup(s, w - 1)

\* Mutant: the chunk may run over the end of the ring, where it is cut off.
ChunkUnclamped(pos, avail, want) == Min({avail, want})

\* One turn of a copying loop: how much is copied from or to pos on, when
\* avail bytes (or free bytes) are there and want are still wanted.
Chunk(pos, avail, want) == Min({avail, want, PIPE_SIZE - pos})

\* Mutant: the position is not masked.
AdvanceUnmasked(pos, n) == pos + n

\* "(pos + chunk) & (PIPE_SIZE - 1)".
Advance(pos, n) == (pos + n) % PIPE_SIZE

\* memcpy() out of and into the ring.
Slice(pos, n) == [i \in 1..n |-> buf[pos + i - 1]]
Store(b, pos, data) ==
    [j \in DOMAIN b |-> IF j \in pos..(pos + Len(data) - 1)
                        THEN data[j - pos + 1] ELSE b[j]]

-----------------------------------------------------------------------------
(* pipe_read *)

SysRead(p) ==
    /\ InUser(p)
    /\ p \in rend
    /\ \E len \in Lens : Enter(p, [op |-> "read", len |-> len, data |-> <<>>])
    /\ UNCHANGED <<state, curproc, ringvars, endvars, slotvars, sigpipe>>

\* read_waiting as the loop test finds it: a reader that has slept clears it.
ReadSlot(p) == IF slept[p] THEN 0 ELSE read_waiting

\* The pipe is empty: wake the writer, leave our name and sleep.
PipeReadBlock(p) ==
    /\ In(p, "read")
    /\ count = 0 /\ writers > 0
    /\ read_waiting' = p + 1
    /\ write_waiting' = 0
    /\ slept' = [slept EXCEPT ![p] = TRUE]
    /\ Schedule([WakeSlot(state, write_waiting) EXCEPT ![p] = "P_SLEEPING"])
    /\ UNCHANGED <<ringvars, endvars, call, out, sigpipe>>

\* Copy what there is, in at most two chunks, wake the writer and return.
PipeRead(p) ==
    LET c1  == Chunk(read_pos, count, call[p].len)
        mid == Advance(read_pos, c1)
        c2  == Chunk(mid, count - c1, call[p].len - c1)
    IN  /\ In(p, "read")
        /\ count > 0 \/ writers = 0
        /\ Return(p, c1 + c2, Slice(read_pos, c1) \o Slice(mid, c2))
        /\ read_pos' = Advance(mid, c2)
        /\ count' = count - c1 - c2
        /\ read_waiting' = ReadSlot(p)
        /\ write_waiting' = 0
        /\ state' = WakeSlot(state, write_waiting)
        /\ UNCHANGED <<curproc, buf, write_pos, endvars, sigpipe>>

-----------------------------------------------------------------------------
(* pipe_write *)

SysWrite(p) ==
    /\ InUser(p)
    /\ p \in wend
    /\ \E data \in Data : Enter(p, [op |-> "write", len |-> Len(data), data |-> data])
    /\ UNCHANGED <<state, curproc, ringvars, endvars, slotvars, sigpipe>>

WriteSlot(p) == IF slept[p] THEN 0 ELSE write_waiting

\* Nobody can read: before the first sleep SIGPIPE is raised in any case,
\* after it only if the ring has room and bytes are left to write (the copying
\* loop's test); with the ring full the call fails without a signal, and wakes
\* the reader slot.
PipeWriteBroken(p) ==
    LET signalled == ~slept[p] \/ (count < PIPE_SIZE /\ call[p].len > 0)
    IN  /\ In(p, "write")
        /\ readers = 0
        /\ Return(p, -EPIPE, <<>>)
        /\ write_waiting' = WriteSlot(p)
        /\ sigpipe' = IF signalled THEN sigpipe \cup {p} ELSE sigpipe
        /\ state' = IF signalled THEN state ELSE WakeSlot(state, read_waiting)
        /\ read_waiting' = IF signalled THEN read_waiting ELSE 0
        /\ UNCHANGED <<curproc, ringvars, endvars>>

\* The pipe is full: wake the reader, leave our name and sleep.
PipeWriteBlock(p) ==
    /\ In(p, "write")
    /\ count >= PIPE_SIZE /\ readers > 0
    /\ write_waiting' = p + 1
    /\ read_waiting' = 0
    /\ slept' = [slept EXCEPT ![p] = TRUE]
    /\ Schedule([WakeSlot(state, read_waiting) EXCEPT ![p] = "P_SLEEPING"])
    /\ UNCHANGED <<ringvars, endvars, call, out, sigpipe>>

\* Mutant: the sleeping reader is not woken.
WakeReaderNever(s) == s

WakeReader(s) == WakeSlot(s, read_waiting)

\* Copy what fits, in at most two chunks, wake the reader and return.
PipeWrite(p) ==
    LET data == call[p].data
        c1   == Chunk(write_pos, PIPE_SIZE - count, call[p].len)
        mid  == Advance(write_pos, c1)
        c2   == Chunk(mid, PIPE_SIZE - count - c1, call[p].len - c1)
        n    == c1 + c2
    IN  /\ In(p, "write")
        /\ readers > 0 /\ count < PIPE_SIZE
        /\ buf' = Store(Store(buf, write_pos, SubSeq(data, 1, c1)),
                        mid, SubSeq(data, c1 + 1, n))
        /\ write_pos' = Advance(mid, c2)
        /\ count' = count + n
        /\ Return(p, IF n > 0 THEN n ELSE -EPIPE, <<>>)
        /\ write_waiting' = WriteSlot(p)
        /\ read_waiting' = 0
        /\ state' = WakeReader(state)
        /\ UNCHANGED <<curproc, read_pos, endvars, sigpipe>>

-----------------------------------------------------------------------------
(* Closing *)

\* Mutants: the process asleep at the other end is not told.
PipeCloseReadQuietly(s, last) == s
PipeCloseWriteQuietly(s, last) == s

\* The table after pipe_close_read() or pipe_close_write() when the end's last
\* open file went: whoever sleeps at the other end is woken.
PipeCloseRead(s, last) == IF last THEN WakeSlot(s, write_waiting) ELSE s
PipeCloseWrite(s, last) == IF last THEN WakeSlot(s, read_waiting) ELSE s

\* p lets go of the ends in ends: what becomes of the pipe, and of the table.
Drop(p, ends) ==
    LET lastr == "r" \in ends /\ rend = {p}
        lastw == "w" \in ends /\ wend = {p}
    IN  /\ rend' = IF "r" \in ends THEN rend \ {p} ELSE rend
        /\ wend' = IF "w" \in ends THEN wend \ {p} ELSE wend
        /\ readers' = IF lastr THEN 0 ELSE readers
        /\ writers' = IF lastw THEN 0 ELSE writers
        /\ write_waiting' = IF lastr THEN 0 ELSE write_waiting
        /\ read_waiting' = IF lastw THEN 0 ELSE read_waiting

Told(p, ends) ==
    PipeCloseWrite(PipeCloseRead(state, "r" \in ends /\ rend = {p}),
                   "w" \in ends /\ wend = {p})

\* SYS_CLOSE of one end.
SysClose(p) ==
    /\ InUser(p)
    /\ \E end \in {"r", "w"} :
          /\ p \in (IF end = "r" THEN rend ELSE wend)
          /\ Drop(p, {end})
          /\ state' = Told(p, {end})
    /\ UNCHANGED <<curproc, ringvars, callvars, sigpipe>>

\* do_exit(): both ends are closed and process 0, the parent, is woken.
Exit(p) ==
    /\ Drop(p, {"r", "w"})
    /\ Schedule(Wakeup([Told(p, {"r", "w"}) EXCEPT ![p] = "P_ZOMBIE"], 0))
    /\ UNCHANGED <<ringvars, callvars>>

SysExit(p) ==
    /\ InUser(p)
    /\ Exit(p)
    /\ UNCHANGED sigpipe

-----------------------------------------------------------------------------
(* The rest of the system *)

\* sig_deliver() of a pending SIGPIPE: it kills, or is ignored or caught.
SigPipe(p) ==
    /\ curproc = p
    /\ call[p] = NoCall
    /\ p \in sigpipe
    /\ sigpipe' = sigpipe \ {p}
    /\ \/ Exit(p)
       \/ UNCHANGED <<state, curproc, ringvars, endvars, slotvars, callvars>>

\* SYS_KILL of any process: a sleeping one wakes for no reason of the pipe's.
SysKill(p) ==
    /\ InUser(p)
    /\ \E t \in Procs : state' = Wakeup(state, t)
    /\ UNCHANGED <<curproc, ringvars, endvars, slotvars, callvars, sigpipe>>

TimerTick(p) ==
    /\ InUser(p)
    /\ Schedule(state)
    /\ UNCHANGED <<ringvars, endvars, slotvars, callvars, sigpipe>>

\* Process 0 waits for children that are of no interest here.
Process0 ==
    /\ curproc = 0
    /\ Schedule([state EXCEPT ![0] = "P_SLEEPING"])
    /\ UNCHANGED <<ringvars, endvars, slotvars, callvars, sigpipe>>

UserStep(p) ==
    SysRead(p) \/ SysWrite(p) \/ SysClose(p) \/ SysExit(p) \/ SysKill(p)

KernelStep ==
    \/ \E p \in Procs :
          \/ PipeRead(p) \/ PipeReadBlock(p)
          \/ PipeWrite(p) \/ PipeWriteBlock(p) \/ PipeWriteBroken(p)
          \/ SigPipe(p)
    \/ Process0

Next ==
    \/ \E p \in Procs : UserStep(p) \/ TimerTick(p)
    \/ KernelStep

Spec == Init /\ [][Next]_vars

\* The kernel does not stop between two instructions, and the timer goes on
\* hitting user mode as long as user mode is entered again and again.
Fairness ==
    /\ WF_vars(KernelStep)
    /\ SF_vars(\E p \in Procs : TimerTick(p))

FairSpec == Spec /\ Fairness

-----------------------------------------------------------------------------
(* Properties *)

\* The ring with its wrapping positions, partial transfers, sleeping slots and
\* spurious wakeups is a first-in first-out queue: no byte is lost, duplicated
\* or reordered, reads return nothing only at the end of the file, and writes
\* fail only without readers (or bytes).
RefinesFifo == Fifo!Spec

\* No lost wakeup with one reader and one writer: a process asleep in the pipe
\* is the one the slot remembers, and what it waits for has not happened.
NoLostWakeup ==
    \A p \in Procs : state[p] = "P_SLEEPING" /\ slept[p] /\ p # curproc =>
        \/ call[p].op = "read" /\ read_waiting = p + 1 /\ count = 0 /\ writers > 0
        \/ call[p].op = "write" /\ write_waiting = p + 1 /\ count = PIPE_SIZE
                                /\ readers > 0

\* A reader gets what is there, or the end of the file.
ReadReturns ==
    \A p \in Procs :
        (call[p].op = "read" /\ (count > 0 \/ writers = 0)) ~> call[p].op # "read"

\* A writer gets its bytes in, or learns that nobody reads them.
WriteReturns ==
    \A p \in Procs :
        (call[p].op = "write" /\ (count < PIPE_SIZE \/ readers = 0))
            ~> call[p].op # "write"

\* Holds with one reader only.  "Wake any blocked reader so it sees writers==0 and returns EOF (0)"
\* (pipe_close_write): every reader comes to know of the end of the file.
EofReturns ==
    \A p \in Procs :
        (call[p].op = "read" /\ writers = 0) ~> call[p].op # "read"

\* Does not hold.  "No readers: broken pipe -- send SIGPIPE to writer" (pipe_write): a write
\* that fails with EPIPE raises SIGPIPE.
EpipeSignals ==
    [][\A p \in Procs :
          call[p].op = "write" /\ call'[p] = NoCall /\ out'[p].n = -EPIPE
              => p \in sigpipe']_vars

-----------------------------------------------------------------------------
(* Inductive invariants *)

\* The flags say whether somebody has the end open; only who has an end open
\* is in a call on it, and only a process in a call sleeps in one.
Ownership ==
    /\ readers = 1 <=> rend # {}
    /\ writers = 1 <=> wend # {}
    /\ \A p \in Procs :
          /\ call[p].op = "read" => p \in rend
          /\ call[p].op = "write" => p \in wend
          /\ slept[p] => call[p].op # "none"

\* Where the writer goes on is count bytes from where the reader does.
RingAligned == write_pos = (read_pos + count) % PIPE_SIZE
=============================================================================
