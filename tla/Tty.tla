-------------------------------- MODULE Tty --------------------------------
(***************************************************************************)
(* The terminal: the line discipline of kernel/tty.c, the processes that   *)
(* read from it, and the two keyboards.                                    *)
(*                                                                         *)
(* On the workbench the reader itself polls the UART inside tty_read().    *)
(* On the Mega Drive the vertical-blank interrupt calls tty_inproc(), in   *)
(* the middle of kernel code too: tty_read() is therefore split wherever   *)
(* an interrupt matters, one step per access to what tty_inproc() writes.  *)
(* Nothing else interleaves with it, as the kernel is not preempted.       *)
(*                                                                         *)
(* lost records that an interrupt, a second reader or a change of mode     *)
(* came at one of the moments the code does not provide for:               *)
(*   late         between the test of the queue and "waiting = pid + 1"    *)
(*   missed       between that and "state = P_SLEEPING"                    *)
(*   forgot       a line was completed between the test for a drained      *)
(*                queue, or the emptying of it by a flush, and "ready = 0" *)
(*   torn         a flush between "c = inq[inq_tail]" and "inq_tail++"     *)
(*   overwritten  a second reader took the one slot `waiting', or freed it *)
(*   switched     ICANON changed under a reader, or with input pending     *)
(*   asleep       schedule() had nobody to switch to: the read went on, and *)
(*                returned, with its process still P_SLEEPING              *)
(* The properties say what holds until then.                               *)
(***************************************************************************)
EXTENDS Sched, Integers, Sequences, SequencesExt

CONSTANTS
    TTY_BUFSZ,      \* 256 in tty.h
    Users,          \* the processes, other than process 0
    Readers,        \* those that read from the terminal
    Keys,           \* what is typed
    Lens,           \* lengths that programs read with
    Modes,          \* settings of c_lflag that programs use
    Keyboards       \* "poll" (workbench), "interrupt" (Mega Drive)

\* Keys with a meaning to the line discipline; any other is just a character.
SpecialKeys == {"nl", "erase", "kill", "eof", "intr"}

\* What tty_init() sets c_lflag to, as far as it matters here.
Cooked == [icanon |-> TRUE, isig |-> TRUE, noflsh |-> FALSE]

ASSUME TtyAssumption ==
    /\ TTY_BUFSZ \in Nat /\ TTY_BUFSZ >= 2
    /\ Users # {} /\ Users \subseteq Procs \ {0}
    /\ Readers \subseteq Users
    /\ "nl" \in Keys
    /\ Lens \subseteq Nat \ {0}
    /\ Cooked \in Modes
    /\ Modes \subseteq [icanon : BOOLEAN, isig : BOOLEAN, noflsh : BOOLEAN]
    /\ Keyboards \subseteq {"poll", "interrupt"}

VARIABLES
    tty,            \* struct tty: inq, head, tail, canon_buf, ready, mode
    waiting,        \* 1 + pid of the process blocked on read, or 0
    sig_pending,    \* processes with a signal pending
    pc,             \* where a process is
    call,           \* the read() it is in
    taken,          \* the last character that the current read() got
    keyboard,       \* which keyboard this machine has
    lost

vars == <<state, curproc, tty, waiting, sig_pending, pc, call, taken, keyboard, lost>>

NoChar == "none"
NoCall == [len |-> 0, canon |-> TRUE, c |-> NoChar]
-----------------------------------------------------------------------------
(* The input queue and the line discipline.                                *)

inq_count(t) == (t.head - t.tail) % TTY_BUFSZ
inq_full(t) == inq_count(t) = TTY_BUFSZ - 1
\* Mutant of inq_put: the head is not wrapped.
inq_putUnwrapped(t, c) == [t EXCEPT !.inq[t.head] = c, !.head = @ + 1]

inq_put(t, c) == [t EXCEPT !.inq[t.head] = c, !.head = (@ + 1) % TTY_BUFSZ]
PutIfRoom(t, c) == IF inq_full(t) THEN t ELSE inq_put(t, c)
inq_flush(t) == [t EXCEPT !.head = 0, !.tail = 0, !.canon_buf = <<>>, !.ready = FALSE]

\* Mutant of Transfer: a line that does not fit overwrites the queue.
TransferAll(t) ==
    [FoldLeft(inq_put, t, t.canon_buf) EXCEPT !.canon_buf = <<>>, !.ready = TRUE]

\* A line is complete: what fits of it goes to the queue.
Transfer(t) ==
    [FoldLeft(PutIfRoom, t, t.canon_buf) EXCEPT !.canon_buf = <<>>, !.ready = TRUE]

\* A character in canonical mode.
Edit(t, c) ==
    LET added == IF Len(t.canon_buf) < TTY_BUFSZ - 1
                 THEN [t EXCEPT !.canon_buf = Append(@, c)] ELSE t
    IN  CASE c = "erase" -> [t EXCEPT !.canon_buf = IF @ = <<>> THEN @ ELSE Front(@)]
          [] c = "kill" -> [t EXCEPT !.canon_buf = <<>>]
          [] c = "eof" -> Transfer(t)
          [] c = "nl" -> Transfer(added)
          [] OTHER -> added

IsSignal(t, c) == t.mode.isig /\ c = "intr"
Flushes(t, c) == IsSignal(t, c) /\ ~t.mode.noflsh
Process(t, c) ==
    IF IsSignal(t, c) THEN IF t.mode.noflsh THEN t ELSE inq_flush(t)
    ELSE IF t.mode.icanon THEN Edit(t, c)
    ELSE PutIfRoom(t, c)

\* Mutant of Wakes: a complete line wakes nobody.
WakesForSignals(t, c) == IsSignal(t, c) \/ (~t.mode.icanon /\ ~inq_full(t))

\* Does tty_inproc() end in tty_wake_reader()?
Wakes(t, c) ==
    IsSignal(t, c) \/ (IF t.mode.icanon THEN c \in {"eof", "nl"} ELSE ~inq_full(t))

\* tty_wake_reader(): mutant, the slot is freed and nobody woken.
tty_wake_readerNobody(s, w) == s

tty_wake_reader(s, w) == IF w = 0 THEN s ELSE Wakeup(s, w - 1)

\* tty_inproc(): all it writes except the process table.
tty_inproc(c) ==
    /\ tty' = Process(tty, c)
    /\ waiting' = IF Wakes(tty, c) THEN 0 ELSE waiting
AfterKey(c) == IF Wakes(tty, c) THEN tty_wake_reader(state, waiting) ELSE state
\* tty_signal() is for whoever runs.
Signalled(c) == IF IsSignal(tty, c) THEN sig_pending \cup {curproc} ELSE sig_pending

\* Does c complete a line?
Completes(t, c) == t.mode.icanon /\ c \in {"eof", "nl"}

\* What an interrupt that brings c goes wrong about.
Hits(c) ==
    {kind \in {"late", "missed", "forgot", "torn"} :
        CASE kind = "late" -> pc[curproc] = "mark" /\ Wakes(tty, c)
          [] kind = "missed" -> pc[curproc] = "doze" /\ Wakes(tty, c)
          [] kind = "forgot" -> pc[curproc] \in {"clear", "drop", "unready"} /\ Completes(tty, c)
          [] kind = "torn" -> pc[curproc] = "next" /\ Flushes(tty, c)}
-----------------------------------------------------------------------------
(* tty_read().                                                             *)

InUser(p) == curproc = p /\ pc[p] = "user"
At(p, where) == curproc = p /\ pc[p] = where
GoTo(p, where) == pc' = [pc EXCEPT ![p] = where]

\* The call returns, and sig_deliver() handles what is pending.
Return(p, windows) ==
    /\ GoTo(p, "user")
    /\ call' = [call EXCEPT ![p] = NoCall]
    /\ sig_pending' = sig_pending \ {p}
    /\ taken' = NoChar
    /\ lost' = lost \cup windows \cup (IF state[p] = "P_SLEEPING" THEN {"asleep"} ELSE {})

Read(p, len) ==
    /\ InUser(p)
    /\ GoTo(p, "test")
    /\ call' = [call EXCEPT ![p] = [NoCall EXCEPT !.len = len, !.canon = tty.mode.icanon]]
    /\ UNCHANGED <<state, curproc, tty, waiting, sig_pending, taken, keyboard, lost>>

\* Is there something to return?
Available(canon) == inq_count(tty) > 0 /\ (canon => tty.ready)

\* The head of the waiting loop.
Test(p) ==
    /\ At(p, "test")
    /\ \/ /\ Available(call[p].canon)
          /\ GoTo(p, "copy")
          /\ UNCHANGED <<call, sig_pending, taken, lost>>
       \/ ~Available(call[p].canon) /\ p \in sig_pending /\ Return(p, {})      \* EINTR
       \/ /\ ~Available(call[p].canon) /\ p \notin sig_pending
          /\ GoTo(p, "mark")
          /\ UNCHANGED <<call, sig_pending, taken, lost>>
    /\ UNCHANGED <<state, curproc, tty, waiting, keyboard>>

\* The loop finds a character at the UART.
Poll(p, c) ==
    /\ At(p, "test") /\ ~Available(call[p].canon) /\ keyboard = "poll"
    /\ tty_inproc(c)
    /\ state' = AfterKey(c)
    /\ sig_pending' = Signalled(c)
    /\ UNCHANGED <<curproc, pc, call, taken, keyboard, lost>>

Mark(p) ==
    /\ At(p, "mark")
    /\ waiting' = p + 1
    /\ lost' = IF waiting = 0 THEN lost ELSE lost \cup {"overwritten"}
    /\ GoTo(p, "doze")
    /\ UNCHANGED <<state, curproc, tty, sig_pending, call, taken, keyboard>>

Doze(p) ==
    /\ At(p, "doze")
    /\ state' = [state EXCEPT ![p] = "P_SLEEPING"]
    /\ GoTo(p, "swtch")
    /\ UNCHANGED <<curproc, tty, waiting, sig_pending, call, taken, keyboard, lost>>

Swtch(p) ==
    /\ At(p, "swtch")
    /\ Schedule(state)
    /\ GoTo(p, "woken")
    /\ UNCHANGED <<tty, waiting, sig_pending, call, taken, keyboard, lost>>

\* schedule() has returned.
Woken(p) ==
    /\ At(p, "woken")
    /\ waiting' = 0
    /\ LET windows == IF waiting \in {0, p + 1} THEN {} ELSE {"overwritten"} IN
       IF p \in sig_pending THEN Return(p, windows)                            \* EINTR
       ELSE GoTo(p, "test") /\ lost' = lost \cup windows /\ UNCHANGED <<call, sig_pending, taken>>
    /\ UNCHANGED <<state, curproc, tty, keyboard>>

\* Mutant of Copy: canon_ready is cleared although the line is not drained.
CopyClears(p) ==
    /\ At(p, "copy")
    /\ IF call[p].len > 0 /\ inq_count(tty) > 0
       THEN /\ GoTo(p, "next")
            /\ call' = [call EXCEPT ![p].c = tty.inq[tty.tail]]
            /\ UNCHANGED <<sig_pending, taken, lost>>
       ELSE GoTo(p, "clear") /\ UNCHANGED <<call, sig_pending, taken, lost>>
    /\ UNCHANGED <<state, curproc, tty, waiting, keyboard>>

\* The copying loop: inq_get() in two steps.
Copy(p) ==
    /\ At(p, "copy")
    /\ IF call[p].len > 0 /\ inq_count(tty) > 0
       THEN /\ GoTo(p, "next")
            /\ call' = [call EXCEPT ![p].c = tty.inq[tty.tail]]
            /\ UNCHANGED <<sig_pending, taken, lost>>
       ELSE IF call[p].canon /\ inq_count(tty) = 0
       THEN GoTo(p, "clear") /\ UNCHANGED <<call, sig_pending, taken, lost>>
       ELSE Return(p, {})
    /\ UNCHANGED <<state, curproc, tty, waiting, keyboard>>

CopyNext(p) ==
    /\ At(p, "next")
    /\ tty' = [tty EXCEPT !.tail = (@ + 1) % TTY_BUFSZ]
    /\ taken' = call[p].c
    /\ call' = [call EXCEPT ![p].len = @ - 1]
    /\ GoTo(p, "copy")
    /\ UNCHANGED <<state, curproc, waiting, sig_pending, keyboard, lost>>

Clear(p) ==
    /\ At(p, "clear")
    /\ tty' = [tty EXCEPT !.ready = FALSE]
    /\ Return(p, {})
    /\ UNCHANGED <<state, curproc, waiting, keyboard>>
-----------------------------------------------------------------------------
(* Everything else.                                                        *)

\* TCSETS and, with flush, TCSETSF, which goes on in inq_flush().
SetMode(p, mode, flush) ==
    LET pending == inq_count(tty) > 0 \/ tty.canon_buf # <<>> \/ tty.ready
                   \/ \E q \in Users \ {p} : call[q] # NoCall
    IN  /\ InUser(p)
        /\ tty' = [tty EXCEPT !.mode = mode]
        /\ lost' = IF mode.icanon # tty.mode.icanon /\ pending
                   THEN lost \cup {"switched"} ELSE lost
        /\ GoTo(p, IF flush THEN "flush" ELSE "user")
        /\ UNCHANGED <<state, curproc, waiting, sig_pending, call, taken, keyboard>>

\* A statement of inq_flush() in a system call: an interrupt may come before the
\* next.  (tail and head count as one: what an interrupt between them leaves in
\* the queue is thrown away by the second.)
FlushStep(p, from, t, to) ==
    /\ At(p, from)
    /\ tty' = t
    /\ GoTo(p, to)
    /\ UNCHANGED <<state, curproc, waiting, sig_pending, call, taken, keyboard, lost>>

FlushInput(p) ==
    \/ FlushStep(p, "flush", [tty EXCEPT !.head = 0, !.tail = 0], "drop")
    \/ FlushStep(p, "drop", [tty EXCEPT !.canon_buf = <<>>], "unready")
    \/ FlushStep(p, "unready", [tty EXCEPT !.ready = FALSE], "user")

\* A system call of p that sleeps on something else: a pipe, a child.  Its loop
\* goes back to sleep until another process wakes it.
Block(p) ==
    /\ InUser(p) \/ (At(p, "elsewhere") /\ state[p] = "P_SLEEPING")
    /\ Schedule([state EXCEPT ![p] = "P_SLEEPING"])
    /\ GoTo(p, "elsewhere")
    /\ UNCHANGED <<tty, waiting, sig_pending, call, taken, keyboard, lost>>

\* It has been woken.
Unblock(p) ==
    /\ At(p, "elsewhere") /\ state[p] = "P_RUNNING"
    /\ Return(p, {})
    /\ UNCHANGED <<state, curproc, tty, waiting, keyboard>>

\* SYS_KILL.
Kill(p, q) ==
    /\ InUser(p) /\ q \in Users \ {p}
    /\ sig_pending' = sig_pending \cup {q}
    /\ state' = Wakeup(state, q)
    /\ UNCHANGED <<curproc, tty, waiting, pc, call, taken, keyboard, lost>>

\* A timer or vertical-blank interrupt that finds the CPU in user mode ends in
\* schedule() and sig_deliver(); in the kernel it returns.
Resume(s) ==
    IF pc[curproc] = "user" THEN Schedule(s) ELSE state' = s /\ UNCHANGED curproc
Delivered(pending) ==
    IF pc[curproc] = "user" /\ pc[curproc'] = "user" THEN pending \ {curproc'} ELSE pending

Tick ==
    /\ Resume(state)
    /\ sig_pending' = Delivered(sig_pending)
    /\ UNCHANGED <<tty, waiting, pc, call, taken, keyboard, lost>>

\* pal_keyboard_poll() has a key.
Interrupt(c) ==
    /\ keyboard = "interrupt"
    /\ tty_inproc(c)
    /\ Resume(AfterKey(c))
    /\ sig_pending' = Delivered(Signalled(c))
    /\ lost' = lost \cup Hits(c)
    /\ UNCHANGED <<pc, call, taken, keyboard>>

\* tty_init(); process 0 waits for its children, the others run or are READY.
Init ==
    /\ keyboard \in Keyboards
    /\ curproc \in Users
    /\ state = [p \in Procs |-> IF p = 0 THEN "P_SLEEPING"
                                ELSE IF p = curproc THEN "P_RUNNING"
                                ELSE IF p \in Users THEN "P_READY" ELSE "P_FREE"]
    /\ tty = [inq |-> [i \in 0..(TTY_BUFSZ - 1) |-> "nl"], head |-> 0, tail |-> 0,
              canon_buf |-> <<>>, ready |-> FALSE, mode |-> Cooked]
    /\ waiting = 0
    /\ sig_pending = {}
    /\ pc = [p \in Procs |-> IF p \in Users THEN "user" ELSE "elsewhere"]
    /\ call = [p \in Procs |-> NoCall]
    /\ taken = NoChar
    /\ lost = {}

ReadStep(p) ==
    Test(p) \/ Mark(p) \/ Doze(p) \/ Swtch(p) \/ Woken(p) \/ Copy(p) \/ CopyNext(p) \/ Clear(p)

Next ==
    \/ \E p \in Users : ReadStep(p) \/ FlushInput(p) \/ Block(p) \/ Unblock(p)
    \/ \E p \in Readers, len \in Lens : Read(p, len)
    \/ \E p \in Readers, c \in Keys : Poll(p, c)
    \/ \E p \in Users, mode \in Modes, flush \in BOOLEAN : SetMode(p, mode, flush)
    \/ \E p, q \in Users : Kill(p, q)
    \/ Tick
    \/ \E c \in Keys : Interrupt(c)

\* The kernel goes on, the timer ticks, and somebody keeps pressing Return.
Fairness ==
    /\ \A p \in Users :
          WF_vars(ReadStep(p) \/ FlushInput(p) \/ Unblock(p) \/ (pc[p] = "elsewhere" /\ Block(p)))
    /\ SF_vars(Tick)
    /\ SF_vars(Interrupt("nl"))

Spec == Init /\ [][Next]_vars
FairSpec == Spec /\ Fairness
-----------------------------------------------------------------------------
(* Properties.                                                             *)

Points == {"user", "elsewhere", "test", "mark", "doze", "swtch", "woken", "copy", "next",
           "clear", "flush", "drop", "unready"}
Terminals == [inq : [0..(TTY_BUFSZ - 1) -> Keys],
              head : 0..(TTY_BUFSZ - 1), tail : 0..(TTY_BUFSZ - 1),
              canon_buf : Seq(Keys), ready : BOOLEAN, mode : Modes]
Windows == {"late", "missed", "forgot", "torn", "overwritten", "switched", "asleep"}

TypeOK ==
    /\ state \in [Procs -> ProcStates] /\ curproc \in Procs
    /\ tty \in Terminals /\ Len(tty.canon_buf) < TTY_BUFSZ
    /\ waiting \in {0} \cup {p + 1 : p \in Users}
    /\ sig_pending \subseteq Users
    /\ pc \in [Procs -> Points]
    /\ call \in [Procs -> [len : Nat, canon : BOOLEAN, c : Keys \cup {NoChar}]]
    /\ \A p \in Procs : call[p].len = 0 \/ \E n \in Lens : call[p].len <= n
    /\ keyboard \in Keyboards /\ lost \subseteq Windows

\* The characters of the ring, oldest first.
Ring(t) == [i \in 1..inq_count(t) |-> t.inq[(t.tail + i - 1) % TTY_BUFSZ]]
Contents == Ring(tty)
Queue == INSTANCE TypeAhead WITH Chars <- Keys, Capacity <- TTY_BUFSZ - 1,
                                 queue <- Contents

\* The ring is the queue of TypeAhead: whatever interrupts, positions that wrap
\* and lines that do not fit, readers get characters in the order in which they
\* arrived, each once, until a ^C flushes the queue between the two halves of
\* inq_get().
QueueUntilTorn == [][Queue!Next \/ "torn" \in lost']_<<Contents, taken>>

\* In canonical mode what is in the queue is a line that a reader may have: the
\* flag that says so is not cleared under a line that has just come, unless the
\* interrupt comes between tty_read()'s test and its assignment, or between the
\* emptying of the queue by TCSETSF and the assignment in inq_flush().
LinesStayVisible ==
    \/ lost \cap {"forgot", "torn", "switched"} # {}
    \/ tty.mode.icanon /\ inq_count(tty) > 0 /\ pc[curproc] # "clear" => tty.ready

\* Whoever has been switched out asleep will be woken: unless one of the
\* windows was hit it is in a call that somebody ends, and if that is tty_read()
\* it is in the slot, has no signal pending and nothing to read.
NoLostWakeup ==
    \A p \in Users : state[p] = "P_SLEEPING" /\ curproc # p =>
        \/ pc[p] = "elsewhere"
        \/ pc[p] = "user" /\ "asleep" \in lost
        \/ /\ pc[p] = "woken"
           /\ \/ lost \cap {"late", "missed", "overwritten"} # {}
              \/ waiting = p + 1 /\ p \notin sig_pending /\ ~Available(call[p].canon)

\* ^C, or a part of TCSETSF, throws something away.
Flushed ==
    \/ tty' = inq_flush(tty) /\ (tty.canon_buf # <<>> \/ inq_count(tty) > 0 \/ tty.ready)
    \/ pc[curproc] \in {"flush", "drop", "unready"} /\ pc' # pc /\ tty' # tty

\* On the Mega Drive, while somebody presses Return now and then and nobody
\* throws input away for ever, a read returns or another reader gets the line,
\* however many processes run, sleep and are killed meanwhile, unless a window
\* was hit.
ReadReturns ==
    (keyboard = "interrupt" /\ [](lost \subseteq {"asleep"}) /\ <>[][~Flushed]_vars) =>
        \A p \in Users :
            [](pc[p] = "test" => <>(pc[p] = "user" \/ \E q \in Users \ {p} : pc[q] = "copy"))

-----------------------------------------------------------------------------
(* Inductive invariants.                                                   *)

\* One process at a time is in the line discipline: the others are in user mode
\* or inside schedule().
OneInKernel ==
    /\ curproc \in Users
    /\ \A p \in Procs : state[p] = "P_READY" => p \in Users
    /\ \A p \in Users \ {curproc} : pc[p] \in {"user", "elsewhere", "woken"}

\* A reader that takes a character has room for it.
RoomForNext == \A p \in Users : pc[p] = "next" => call[p].len > 0

\* Between the two halves of inq_get() the character taken is still the oldest.
HoldsOldest ==
    \/ "torn" \in lost
    \/ pc[curproc] = "next" => inq_count(tty) > 0 /\ call[curproc].c = tty.inq[tty.tail]

\* The same for the decision to clear canon_ready.
VisibleInv ==
    \/ lost \cap {"forgot", "torn", "switched"} # {}
    \/ /\ tty.mode.icanon /\ inq_count(tty) > 0 => tty.ready
       /\ tty.mode.icanon /\ pc[curproc] \in {"clear", "drop", "unready"} => inq_count(tty) = 0

\* A flush that tears inq_get() frees the slot.
TornFreesSlot == pc[curproc] = "next" /\ inq_count(tty) = 0 => waiting = 0

\* p, which is going to sleep or asleep, is in the slot and nothing has come that
\* it waits for, unless a window was hit.
Waits(p) == p \notin sig_pending /\ ~Available(call[p].canon)
WillWake(p) == lost \cap {"late", "missed", "overwritten"} # {} \/ (waiting = p + 1 /\ Waits(p))

\* Nobody is asleep, or about to be, whom nobody will wake.
SleepInv ==
    /\ TornFreesSlot
    /\ pc[curproc] = "mark" => "late" \in lost \/ Waits(curproc)
    /\ pc[curproc] = "doze" => WillWake(curproc)
    /\ \A p \in Users : state[p] = "P_SLEEPING" =>
          /\ pc[p] \in {"user", "flush", "drop", "unready"} => "asleep" \in lost
          /\ pc[p] \in {"swtch", "woken"} => WillWake(p)
=============================================================================
