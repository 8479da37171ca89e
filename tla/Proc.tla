-------------------------------- MODULE Proc --------------------------------
(***************************************************************************)
(* Processes of the Genix kernel: kernel/proc.c, the tail of do_exec() in  *)
(* kernel/exec.c, the trap and timer paths of kernel/crt0.S and the boot   *)
(* loop of kernel/main.c.                                                  *)
(*                                                                         *)
(* Every process has a kernel continuation pc[p]: where it will go on when *)
(* it has the CPU.  Only curproc steps.  A step is one pass through kernel *)
(* code up to the next point where another process may run, or one         *)
(* decision of user code (a system call, or being hit by the timer).       *)
(*                                                                         *)
(*   "user"    user mode                                                   *)
(*   "sig"     on the way back to user mode, in sig_deliver()'s loop, about*)
(*             to look at the signals >= arg[p]                            *)
(*   "wait"    at the top of do_waitpid()'s loop, waiting for arg[p]       *)
(*             (0 = any child)                                             *)
(*   "read"    in the loop of a read or write that blocks: tty_read(),     *)
(*             pipe_read(), pipe_write()                                   *)
(*   "kmain"   process 0 only: about to do_spawn() a shell, or at the      *)
(*             prompt of builtin_shell()                                   *)
(*   "wild"    the CPU runs on a kernel stack that has been overwritten    *)
(*                                                                         *)
(* File descriptors, user memory, exit codes and what a read waits for are *)
(* other modules'.                                                         *)
(***************************************************************************)
EXTENDS Sched, Integers, FiniteSets

CONSTANTS
    Signals,        \* the signals that are sent, a subset of 1..20
    Background,     \* may a process vfork while it has another live child, or
                    \* as a vforked child itself?
    InPlaceExec,    \* may a program exec outside a vfork window?
    WaitPids,       \* what programs pass to waitpid (0: any child)
    SpawnErrors,    \* may do_spawn() fail though a slot is free?
    Dispositions,   \* what programs install with signal()
    Readers,        \* the processes that make reads or writes that block
    MaxPending      \* bound: processes with undelivered signals

SIGKILL == 9
SIGCHLD == 17
SIGCONT == 18
SIGSTOP == 19
SIGTSTP == 20
NSIG == 21

ASSUME SignalsAssumption == Signals \subseteq 1..(NSIG - 1)
ASSUME WorkloadAssumption ==
    /\ Background \in BOOLEAN
    /\ InPlaceExec \in BOOLEAN
    /\ SpawnErrors \in BOOLEAN
    /\ Dispositions \subseteq {"SIG_DFL", "SIG_IGN", "handler"}
    /\ WaitPids \subseteq Nat
    /\ Readers \subseteq Procs \ {0}
    /\ MaxPending \in Nat

VARIABLES
    ppid,           \* proctab[p].ppid
    nproc,          \* number of slots in use
    next_pid,       \* where alloc_pid() goes on
    sig_pending,    \* proctab[p].sig_pending, as a set
    sig_handler,    \* proctab[p].sig_handler
    aspace,         \* whose memory p executes in: its own, or since vfork
                    \* and until exec its parent's
    pc, arg,        \* p's kernel continuation
    exec_active,    \* some process is inside a synchronous do_exec()
    shell,          \* process 0 has fallen back to builtin_shell()
    dozing          \* history: whom a read returned to though the process was
                    \* not marked RUNNING again

tablevars == <<state, curproc, ppid, nproc, next_pid, aspace>>
sigvars == <<sig_pending, sig_handler>>
vars == <<tablevars, sigvars, pc, arg, exec_active, shell, dozing>>

UserProcs == 1..(MAXPROC - 1)
Handlers == {"SIG_DFL", "SIG_IGN", "handler"}
Points == {"user", "sig", "wait", "read", "kmain", "wild"}

TypeOK ==
    /\ state \in [Procs -> ProcStates]
    /\ curproc \in Procs
    /\ ppid \in [Procs -> Procs]
    /\ nproc \in Int
    /\ next_pid \in UserProcs
    /\ sig_pending \in [Procs -> SUBSET Signals]
    /\ sig_handler \in [Procs -> [Signals -> Handlers]]
    /\ aspace \in [Procs -> Procs]
    /\ pc \in [Procs -> Points]
    /\ arg \in [Procs -> Nat]
    /\ exec_active \in BOOLEAN
    /\ shell \in BOOLEAN
    /\ dozing \subseteq UserProcs

\* proc_init() and the start of kmain().
Init ==
    /\ state = [p \in Procs |-> IF p = 0 THEN "P_RUNNING" ELSE "P_FREE"]
    /\ curproc = 0
    /\ ppid = [p \in Procs |-> 0]
    /\ nproc = 1
    /\ next_pid = 1
    /\ sig_pending = [p \in Procs |-> {}]
    /\ sig_handler = [p \in Procs |-> [s \in Signals |-> "SIG_DFL"]]
    /\ aspace = [p \in Procs |-> p]
    /\ pc = [p \in Procs |-> IF p = 0 THEN "kmain" ELSE "user"]
    /\ arg = [p \in Procs |-> 0]
    /\ exec_active = FALSE
    /\ shell = FALSE
    /\ dozing = {}

-----------------------------------------------------------------------------
(* Control flow *)

At(p, point) == curproc = p /\ pc[p] = point

GoTo(p, point, a) ==
    /\ pc' = [pc EXCEPT ![p] = point]
    /\ arg' = [arg EXCEPT ![p] = a]

\* The end of _vec_syscall and of _vec_timer_irq: p goes back to user mode by
\* way of sig_deliver().
ReturnToUser(p) == GoTo(p, "sig", 1)

-----------------------------------------------------------------------------
(* Slots *)

\* Mutant: the wrap does not skip pid 0.
NextPidWithZero(p) == (p + 1) % MAXPROC

\* "next_pid = (next_pid + 1) & (MAXPROC - 1); if (next_pid == 0) next_pid = 1".
NextPid(p) == IF p = MAXPROC - 1 THEN 1 ELSE p + 1

FreeSlots == {p \in UserProcs : state[p] = "P_FREE"}

\* How many slots alloc_pid() looks at before p.
PidDistance(p) ==
    IF p >= next_pid THEN p - next_pid ELSE p + MAXPROC - 1 - next_pid

\* alloc_pid() returns c.
AllocPid(c) ==
    /\ c \in FreeSlots
    /\ \A q \in FreeSlots : PidDistance(c) <= PidDistance(q)
    /\ next_pid' = NextPid(c)

\* alloc_pid() returns 0xFF after MAXPROC turns round the MAXPROC-1 slots.
AllocPidFails ==
    /\ FreeSlots = {}
    /\ next_pid' = NextPid(next_pid)

Children(p) == {q \in Procs : state[q] # "P_FREE" /\ ppid[q] = p}
Alive(p) == state[p] \notin {"P_FREE", "P_ZOMBIE"}
LiveChildren(p) == {q \in Children(p) : Alive(q)}

-----------------------------------------------------------------------------
(* Termination *)

\* do_exit() of p while exec_active is set: exec_leave() abandons p and goes
\* on after exec_enter() on the stack that saved_ksp names, the kernel stack
\* of the process that execed in place.  Traps of that process have used the
\* same stack since, so its frames may have been overwritten.  If they are
\* intact, do_exec() clears exec_active and its trap returns through
\* syscall_kstack_frame(), that is, into curproc's user program: p goes on.
ExecLeave(p) ==
    /\ exec_active
    /\ \/ /\ exec_active' = FALSE
          /\ ReturnToUser(p)
       \/ /\ GoTo(p, "wild", 0)
          /\ UNCHANGED exec_active
    /\ UNCHANGED <<state, curproc, ppid>>

\* Mutant: children keep their dead parent.
ReparentNone(s, p) == ppid

\* The children of p go to process 0.
Reparent(s, p) ==
    [q \in Procs |-> IF s[q] # "P_FREE" /\ ppid[q] = p THEN 0 ELSE ppid[q]]

\* Mutant: a parent asleep in waitpid is not woken.
NotifyNobody(s, parent) == s

\* do_exit() wakes the parent, whatever it sleeps on.
NotifyParent(s, parent) == Wakeup(s, parent)

\* do_exit() of p otherwise.  Descriptors and memory are given back, p becomes
\* a zombie and its children go to process 0.  A parent in P_VFORK is resumed
\* there and then (vfork_restore: curproc changes without schedule()); a
\* parent that sleeps is made READY, whatever it sleeps on.  Should schedule()
\* return, so does do_exit(), and p goes on at point.
ExitProcess(p, point) ==
    LET zombie == [state EXCEPT ![p] = "P_ZOMBIE"]
        parent == ppid[p]
    IN  /\ ~exec_active
        /\ ppid' = Reparent(zombie, p)
        /\ GoTo(p, point, 1)
        /\ IF zombie[parent] = "P_VFORK"
           THEN /\ state' = [zombie EXCEPT ![parent] = "P_RUNNING"]
                /\ curproc' = parent
           ELSE Schedule(NotifyParent(zombie, parent))
        /\ UNCHANGED exec_active

DoExit(p, point) ==
    /\ ExecLeave(p) \/ ExitProcess(p, point)
    /\ UNCHANGED <<nproc, next_pid, aspace, sig_handler, shell, dozing>>

\* SYS_EXIT.
SysExit(p) ==
    /\ At(p, "user")
    /\ DoExit(p, "sig")
    /\ UNCHANGED sig_pending

-----------------------------------------------------------------------------
(* vfork and exec *)

\* Mutant: the parent is only preempted, not blocked.
VforkStatesReady(p, c) == [state EXCEPT ![c] = "P_RUNNING", ![p] = "P_READY"]

\* The child has the CPU, the parent is frozen.
VforkStates(p, c) == [state EXCEPT ![c] = "P_RUNNING", ![p] = "P_VFORK"]

\* do_vfork().  The child is a copy of the parent, runs at once and executes
\* in the memory the parent executes in; the parent's continuation
\* (vfork_ctx) is the return from its trap.
SysVfork(p) ==
    /\ At(p, "user")
    /\ Background \/ (LiveChildren(p) = {} /\ aspace[p] = p)
    /\ \/ \E c \in UserProcs :
             /\ AllocPid(c)
             /\ state' = VforkStates(p, c)
             /\ ppid' = [ppid EXCEPT ![c] = p]
             /\ curproc' = c
             /\ nproc' = nproc + 1
             /\ aspace' = [aspace EXCEPT ![c] = aspace[p]]
             /\ sig_pending' = [sig_pending EXCEPT ![c] = sig_pending[p]]
             /\ sig_handler' = [sig_handler EXCEPT ![c] = sig_handler[p]]
             /\ pc' = [pc EXCEPT ![c] = "sig", ![p] = "sig"]
             /\ arg' = [arg EXCEPT ![c] = 1, ![p] = 1]
             /\ dozing' = dozing \ {c}
       \/ /\ AllocPidFails
          /\ ReturnToUser(p)
          /\ UNCHANGED <<state, curproc, ppid, nproc, aspace, sigvars, dozing>>
    /\ UNCHANGED <<exec_active, shell>>

\* do_exec() that has loaded the program, when the caller's parent is in
\* P_VFORK: the caller is given a fresh kernel stack and made READY, the
\* parent is resumed.  The code does not ask whether the caller is the child
\* the parent vforked last.
ExecDetach(p) ==
    /\ state[ppid[p]] = "P_VFORK"
    /\ state' = [state EXCEPT ![p] = "P_READY", ![ppid[p]] = "P_RUNNING"]
    /\ curproc' = ppid[p]
    /\ UNCHANGED exec_active

\* do_exec() that has loaded the program, otherwise: exec_enter() saves the
\* kernel stack and enters the program on the same stack's top.
ExecInPlace(p) ==
    /\ state[ppid[p]] # "P_VFORK"
    /\ exec_active' = TRUE
    /\ UNCHANGED <<state, curproc>>

\* SYS_EXEC.
SysExec(p) ==
    /\ At(p, "user")
    /\ InPlaceExec \/ aspace[p] # p
    /\ \/ /\ ExecDetach(p) \/ ExecInPlace(p)
          /\ aspace' = [aspace EXCEPT ![p] = p]
          /\ GoTo(p, "user", 1)
       \/ /\ ReturnToUser(p)       \* ENOENT, ENOEXEC, ENOMEM
          /\ UNCHANGED <<state, curproc, aspace, exec_active>>
    /\ UNCHANGED <<ppid, nproc, next_pid, sigvars, shell, dozing>>

-----------------------------------------------------------------------------
(* waitpid *)

\* The zombies do_waitpid(pid) of p accepts.
Reapable(p, pid) ==
    {q \in Children(p) : state[q] = "P_ZOMBIE" /\ (pid > 0 => q = pid)}

\* Mutant: nproc is not decremented.
ReapUncounted(p, pid) ==
    \E q \in Reapable(p, pid) :
        /\ \A r \in Reapable(p, pid) : q <= r
        /\ state' = [state EXCEPT ![q] = "P_FREE"]
        /\ UNCHANGED nproc

\* do_waitpid() frees the first zombie it finds.
Reap(p, pid) ==
    \E q \in Reapable(p, pid) :
        /\ \A r \in Reapable(p, pid) : q <= r
        /\ state' = [state EXCEPT ![q] = "P_FREE"]
        /\ nproc' = nproc - 1

\* do_waitpid() returns: to kmain() or builtin_shell() in process 0, else
\* to user mode.
WaitReturn(p) == IF p = 0 THEN GoTo(0, "kmain", 0) ELSE ReturnToUser(p)

\* SYS_WAITPID without WNOHANG: enters the loop.
SysWaitpid(p) ==
    /\ At(p, "user")
    /\ \E pid \in WaitPids : GoTo(p, "wait", pid)
    /\ UNCHANGED <<tablevars, sigvars, exec_active, shell, dozing>>

\* SYS_WAITPID with WNOHANG: one turn, never sleeps.
SysWaitpidNohang(p) ==
    /\ At(p, "user")
    /\ \E pid \in WaitPids :
          \/ Reap(p, pid)
          \/ Reapable(p, pid) = {} /\ UNCHANGED <<state, nproc>>
    /\ ReturnToUser(p)
    /\ UNCHANGED <<curproc, ppid, next_pid, aspace, sigvars, exec_active, shell, dozing>>

\* One turn of do_waitpid()'s loop.
WaitScan(p) ==
    /\ At(p, "wait")
    /\ \/ /\ Reap(p, arg[p])
          /\ WaitReturn(p)
          /\ UNCHANGED curproc
       \/ /\ Children(p) = {}             \* ECHILD
          /\ WaitReturn(p)
          /\ UNCHANGED <<state, curproc, nproc>>
       \/ /\ Children(p) # {}
          /\ Reapable(p, arg[p]) = {}
          /\ Schedule([state EXCEPT ![p] = "P_SLEEPING"])
          /\ UNCHANGED <<pc, arg, nproc>>
    /\ UNCHANGED <<ppid, next_pid, aspace, sigvars, exec_active, shell, dozing>>

-----------------------------------------------------------------------------
(* Reads and writes that block *)

\* A call that finds nothing to read, or no room.
SysRead(p) ==
    /\ At(p, "user")
    /\ p \in Readers
    /\ GoTo(p, "read", 0)
    /\ UNCHANGED <<tablevars, sigvars, exec_active, shell, dozing>>

\* One turn of its loop.  When nobody is READY schedule() returns at once, and
\* the loop goes on with the process marked SLEEPING.
ReadBlocks(p) ==
    /\ At(p, "read")
    /\ Schedule([state EXCEPT ![p] = "P_SLEEPING"])
    /\ UNCHANGED <<ppid, nproc, next_pid, aspace, sigvars, pc, arg,
                   exec_active, shell, dozing>>

\* What it waits for has come, or a signal (EINTR): the call returns, and does
\* not mark the process RUNNING.
ReadReturns(p) ==
    /\ At(p, "read")
    /\ ReturnToUser(p)
    /\ dozing' = IF state[p] = "P_RUNNING" THEN dozing \ {p} ELSE dozing \cup {p}
    /\ UNCHANGED <<tablevars, sigvars, exec_active, shell>>

\* A key is pressed, or the other end of the pipe is used or closed: whoever is
\* in the slot is woken.  It may be process 0 at builtin_shell()'s prompt.
WakeReader(p) ==
    /\ pc[p] \in {"read", "kmain"} /\ state[p] = "P_SLEEPING"
    /\ state' = Wakeup(state, p)
    /\ UNCHANGED <<curproc, ppid, nproc, next_pid, aspace, sigvars, pc, arg,
                   exec_active, shell, dozing>>

-----------------------------------------------------------------------------
(* Signals *)

\* SYS_SIGNAL.  SIGKILL and SIGSTOP are refused (EINVAL).
SysSignal(p) ==
    /\ At(p, "user")
    /\ \E s \in Signals \ {SIGKILL, SIGSTOP}, h \in Dispositions :
          sig_handler' = [sig_handler EXCEPT ![p][s] = h]
    /\ ReturnToUser(p)
    /\ UNCHANGED <<tablevars, sig_pending, exec_active, shell, dozing>>

\* The target's pending signals after s is sent to it: SIGCONT that continues
\* a stopped process cancels the stop signals that wait for it.
PendingAfter(t, s) ==
    LET pending == sig_pending[t] \cup {s}
    IN  IF s = SIGCONT /\ state[t] = "P_STOPPED"
        THEN pending \ {SIGSTOP, SIGTSTP} ELSE pending

\* SYS_KILL with a signal s > 0 to a process that exists.
SysKill(p) ==
    /\ At(p, "user")
    /\ \E s \in Signals, t \in Procs :
          /\ state[t] # "P_FREE"
          /\ sig_pending' = [sig_pending EXCEPT ![t] = PendingAfter(t, s)]
          /\ state' = IF s = SIGCONT /\ state[t] = "P_STOPPED"
                      THEN [state EXCEPT ![t] = "P_READY"]
                      ELSE Wakeup(state, t)
          /\ Cardinality({q \in Procs :
                q = t \/ (Alive(q) /\ sig_pending[q] # {})}) <= MaxPending
    /\ ReturnToUser(p)
    /\ UNCHANGED <<curproc, ppid, nproc, next_pid, aspace, sig_handler,
                   exec_active, shell, dozing>>

\* The signals sig_deliver()'s loop has still to look at.
Undelivered(p) == {s \in sig_pending[p] : s >= arg[p]}

\* sig_deliver() takes s, the lowest of them.
TakeSignal(p, s) ==
    /\ At(p, "sig")
    /\ s \in Undelivered(p)
    /\ \A r \in Undelivered(p) : s <= r
    /\ sig_pending' = [sig_pending EXCEPT ![p] = @ \ {s}]

\* What sig_deliver() does with a signal.
SignalFate(s, handler) ==
    CASE s = SIGKILL -> "terminate"
      [] s = SIGSTOP -> "stop"
      [] s \notin {SIGKILL, SIGSTOP} /\ handler = "handler" -> "catch"
      [] s \notin {SIGKILL, SIGSTOP} /\ handler = "SIG_IGN" -> "ignore"
      [] s \in {SIGCHLD, SIGCONT} /\ handler = "SIG_DFL" -> "ignore"
      [] s = SIGTSTP /\ handler = "SIG_DFL" -> "stop"
      [] OTHER -> "terminate"

Fate(p, s) == SignalFate(s, sig_handler[p][s])

\* The loop is over: user mode.
SigDone(p) ==
    /\ At(p, "sig")
    /\ Undelivered(p) = {}
    /\ GoTo(p, "user", 1)
    /\ UNCHANGED <<tablevars, sigvars, exec_active, shell, dozing>>

SigIgnore(p, s) ==
    /\ TakeSignal(p, s)
    /\ Fate(p, s) = "ignore"
    /\ GoTo(p, "sig", s + 1)
    /\ UNCHANGED <<tablevars, sig_handler, exec_active, shell, dozing>>

\* do_exit(128 + sig) from sig_deliver(), which returns after it.
SigTerminate(p, s) ==
    /\ TakeSignal(p, s)
    /\ Fate(p, s) = "terminate"
    /\ DoExit(p, "user")

\* The loop goes on with the next signal once the process is continued.
SigStop(p, s) ==
    /\ TakeSignal(p, s)
    /\ Fate(p, s) = "stop"
    /\ GoTo(p, "sig", s + 1)
    /\ Schedule([state EXCEPT ![p] = "P_STOPPED"])
    /\ UNCHANGED <<ppid, nproc, next_pid, aspace, sig_handler, exec_active, shell, dozing>>

\* A signal frame is pushed on the user stack, the handler is one-shot and
\* the remaining signals wait for the next return to user mode.
SigCatch(p, s) ==
    /\ TakeSignal(p, s)
    /\ Fate(p, s) = "catch"
    /\ sig_handler' = [sig_handler EXCEPT ![p][s] = "SIG_DFL"]
    /\ GoTo(p, "user", 1)
    /\ UNCHANGED <<tablevars, exec_active, shell, dozing>>

SigDeliver(p) ==
    \/ SigDone(p)
    \/ \E s \in Signals :
          SigIgnore(p, s) \/ SigTerminate(p, s) \/ SigStop(p, s) \/ SigCatch(p, s)

-----------------------------------------------------------------------------
(* The timer, and process 0 *)

\* _vec_timer_irq in user mode.  In supervisor mode it only counts ticks.
TimerTick(p) ==
    /\ At(p, "user")
    /\ ReturnToUser(p)
    /\ Schedule(state)
    /\ UNCHANGED <<ppid, nproc, next_pid, aspace, sigvars, exec_active, shell, dozing>>

\* do_spawn() by process 0, which then waits for the child.
Spawn ==
    /\ \E c \in UserProcs :
          /\ AllocPid(c)
          /\ state' = [state EXCEPT ![c] = "P_READY"]
          /\ ppid' = [ppid EXCEPT ![c] = 0]
          /\ nproc' = nproc + 1
          /\ aspace' = [aspace EXCEPT ![c] = c]
          /\ sig_pending' = [sig_pending EXCEPT ![c] = {}]
          /\ sig_handler' = [sig_handler EXCEPT ![c] = [s \in Signals |-> "SIG_DFL"]]
          /\ pc' = [pc EXCEPT ![c] = "user", ![0] = "wait"]
          /\ arg' = [arg EXCEPT ![c] = 1, ![0] = c]
          /\ dozing' = dozing \ {c}
    /\ UNCHANGED <<curproc, exec_active, shell>>

\* do_spawn() fails: no such file or a bad header (before alloc_pid), no slot,
\* or no memory or a bad image (after it; nproc is put back).
SpawnFails ==
    /\ \/ SpawnErrors /\ UNCHANGED next_pid
       \/ AllocPidFails
       \/ SpawnErrors /\ \E c \in UserProcs : AllocPid(c)
    /\ UNCHANGED <<state, curproc, ppid, nproc, aspace, sigvars, pc, arg, exec_active,
                   dozing>>

\* kmain(): spawn /bin/dash, wait for it and spawn it again; once do_spawn()
\* has failed, builtin_shell() for good.
KmainSpawn ==
    /\ At(0, "kmain")
    /\ ~shell
    /\ \/ Spawn
       \/ SpawnFails /\ shell' = TRUE

\* builtin_shell(): a line is typed, and it names a program.
ShellCommand ==
    /\ At(0, "kmain")
    /\ shell
    /\ \/ Spawn
       \/ SpawnFails /\ UNCHANGED shell

\* builtin_shell() in tty_read() with no key pressed: a pending signal makes
\* it return EINTR and is cleared, otherwise process 0 sleeps if it is not
\* alone.
ShellIdle ==
    /\ At(0, "kmain")
    /\ shell
    /\ \/ /\ sig_pending[0] # {}
          /\ sig_pending' = [sig_pending EXCEPT ![0] = {}]
          /\ UNCHANGED <<state, curproc>>
       \/ /\ sig_pending[0] = {}
          /\ nproc > 1
          /\ Schedule([state EXCEPT ![0] = "P_SLEEPING"])
          /\ UNCHANGED sig_pending
    /\ UNCHANGED <<ppid, nproc, next_pid, aspace, sig_handler, pc, arg,
                   exec_active, shell, dozing>>

-----------------------------------------------------------------------------

\* What user code decides.
UserStep(p) ==
    \/ SysExit(p) \/ SysVfork(p) \/ SysExec(p)
    \/ SysWaitpid(p) \/ SysWaitpidNohang(p)
    \/ SysSignal(p) \/ SysKill(p) \/ SysRead(p)

\* Kernel code that runs on by itself.
KernelStep ==
    \/ \E p \in Procs : WaitScan(p)
    \/ \E p \in UserProcs : SigDeliver(p) \/ ReadBlocks(p)
    \/ KmainSpawn

\* The machine has lost its way; nothing is known of it from here on.
Wild ==
    /\ pc[curproc] = "wild"
    /\ UNCHANGED vars

Next ==
    \/ \E p \in UserProcs : UserStep(p) \/ TimerTick(p) \/ ReadReturns(p)
    \/ \E p \in Procs : WakeReader(p)
    \/ KernelStep
    \/ ShellCommand \/ ShellIdle
    \/ Wild

Spec == Init /\ [][Next]_vars

\* Kernel code is not interrupted for good, and the timer goes on hitting user
\* mode as long as user mode is entered again and again.
Fairness ==
    /\ WF_vars(KernelStep)
    /\ WF_vars(ShellIdle)
    /\ SF_vars(\E p \in UserProcs : TimerTick(p))

FairSpec == Spec /\ Fairness

-----------------------------------------------------------------------------
(* Properties *)

\* One CPU: only curproc is marked RUNNING, it owns a live slot, and it is
\* not a parent frozen in vfork.
OneRunning ==
    /\ \A p \in Procs : state[p] = "P_RUNNING" => p = curproc
    /\ state[curproc] \notin {"P_FREE", "P_VFORK"}

\* Every process in the table has a parent that can still reap it:
\* do_exit() leaves no child behind with a dead parent.
ParentAlive ==
    \A p \in Procs :
        state[p] # "P_FREE" => state[ppid[p]] \notin {"P_FREE", "P_ZOMBIE"}

\* nproc, which tty_read() and the shells rely on, is the number of slots in
\* use.
NprocCounts == nproc = Cardinality({p \in Procs : state[p] # "P_FREE"})

\* "Block parent until child calls exec() or _exit()" (do_vfork): as long as a
\* vforked child executes in its parent's memory, the parent stays frozen.
VforkIsolation ==
    \A c \in Procs :
        Alive(c) /\ aspace[c] # c
            => state[aspace[c]] = "P_VFORK"

\* User code runs only in a process marked RUNNING, or in one whose read came
\* back when nobody else was READY, which tty_read() leaves SLEEPING (or READY,
\* once it is woken).  In particular do_exit() never returns ("This shouldn't
\* happen if process 0 (shell) is always runnable"): no zombie goes back to its
\* program.
UserModeIsRunning ==
    pc[curproc] = "user" =>
        \/ state[curproc] = "P_RUNNING"
        \/ curproc \in dozing /\ state[curproc] \in {"P_SLEEPING", "P_READY"}

\* A zombie stays one until its parent reaps it in waitpid.
ZombieFinal ==
    [][\A p \in Procs : state[p] = "P_ZOMBIE" =>
          \/ state'[p] = "P_ZOMBIE"
          \/ state'[p] = "P_FREE" /\ curproc = ppid[p]]_vars

\* Round robin starves nobody: a READY process gets the CPU.
NoStarvation ==
    \A p \in Procs : state[p] = "P_READY" ~> curproc = p

\* A parent that waits for a child gets it once the child has exited.
WaitpidReturns ==
    \A p \in Procs :
        (pc[p] = "wait" /\ Reapable(p, arg[p]) # {}) ~> pc[p] # "wait"

\* Does not hold.  "signal delivery interrupts blocking syscalls" (docs/multitasking.md): a
\* signal sent to a process blocked in waitpid makes waitpid return.
SignalInterruptsWait ==
    \A p \in UserProcs :
        (pc[p] = "wait" /\ sig_pending[p] # {}) ~> pc[p] # "wait"

-----------------------------------------------------------------------------
(* Inductive invariants *)

\* Process 0 never dies, never vforks and never leaves the kernel; user
\* processes never get into kmain().
ZeroIsKernel ==
    /\ ppid[0] = 0
    /\ state[0] \notin {"P_FREE", "P_ZOMBIE", "P_VFORK"}
    /\ pc[0] \in {"kmain", "wait"}
    /\ \A p \in UserProcs : pc[p] # "kmain"

\* What holds of every workload.
Structure == OneRunning /\ ParentAlive /\ ZeroIsKernel

\* Without stop signals: curproc is RUNNING, but for a waitpid() that found
\* nothing to reap and nobody to switch to, a read that found nobody either and
\* what its process does afterwards, and process 0's own loops.
CurprocRuns ==
    /\ \A p \in Procs : state[p] # "P_STOPPED"
    /\ \A p \in UserProcs : state[p] # "P_FREE" => ppid[p] # p
    /\ state[curproc] \in {"P_RUNNING", "P_SLEEPING", "P_READY"}
    /\ curproc # 0 /\ state[curproc] # "P_RUNNING" =>
          \/ curproc \in dozing
          \/ pc[curproc] = "read"
          \/ /\ state[curproc] = "P_SLEEPING" /\ pc[curproc] = "wait"
             /\ Children(curproc) # {}
             /\ Reapable(curproc, arg[curproc]) = {}

\* With sequential workloads: only a vforked child borrows memory, from a
\* parent that is frozen and has no other live child; nobody execs in place.
OneBorrower ==
    /\ \A c \in Procs : Alive(c) /\ aspace[c] # c =>
          aspace[c] = ppid[c] /\ state[ppid[c]] = "P_VFORK"
    /\ \A v, c, d \in Procs :
          /\ state[v] = "P_VFORK"
          /\ Alive(c) /\ ppid[c] = v
          /\ Alive(d) /\ ppid[d] = v
          => c = d
    /\ ~exec_active
=============================================================================
