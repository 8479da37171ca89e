------------------------------- MODULE Sched -------------------------------
(***************************************************************************)
(* The process table's scheduling state and schedule(), kernel/proc.c.     *)
(*                                                                         *)
(* There is one CPU and the kernel is never preempted, so exactly one      *)
(* process -- curproc -- takes steps.  It keeps the CPU until it calls     *)
(* schedule(): from the timer interrupt, from a blocking system call or    *)
(* from do_exit().  Modules that EXTEND this one write each kernel path as *)
(* one action up to such a call and hand the table to Schedule.            *)
(*                                                                         *)
(* A process's pid is its index in proctab (proc_init), so processes are   *)
(* the numbers 0..MAXPROC-1; process 0 is the kernel's own.                *)
(***************************************************************************)
EXTENDS Naturals

CONSTANT MAXPROC        \* slots of proctab[] (16 in kernel.h)

\* _Static_assert in proc.c: the masks "& (MAXPROC - 1)" are remainders.
ASSUME MaxprocAssumption ==
    /\ MAXPROC \in Nat
    /\ MAXPROC >= 2
    /\ \E n \in 1..MAXPROC : MAXPROC = 2^n

VARIABLES state,        \* proctab[p].state
          curproc       \* the process that has the CPU

Procs == 0..(MAXPROC - 1)

ProcStates == {"P_FREE", "P_RUNNING", "P_READY", "P_SLEEPING",
               "P_ZOMBIE", "P_VFORK", "P_STOPPED"}

\* Mutant: the scan starts at slot 0 instead of after curproc.
ScanDistanceFromZero(p, q) == q

\* How far the scan of schedule() goes from process p before it looks at q:
\* the i with q = (p + i) & (MAXPROC - 1).
ScanDistance(p, q) == IF q > p THEN q - p ELSE q + MAXPROC - p

\* The processes, other than curproc, that schedule() may pick in table s.
Runnable(s) == {p \in Procs \ {curproc} : s[p] = "P_READY"}

\* Mutant: the old process is left RUNNING.
SwitchToOnly(s, next) == [s EXCEPT ![next] = "P_RUNNING"]

\* The table after a switch from curproc to next.
SwitchTo(s, next) ==
    [s EXCEPT ![curproc] = IF @ = "P_RUNNING" THEN "P_READY" ELSE @,
              ![next] = "P_RUNNING"]

\* schedule() called with the process table's states being s: the next
\* READY process in round-robin order gets the CPU; curproc becomes READY
\* only if it was RUNNING.  With nobody else READY it returns at once and
\* leaves curproc's state as the caller set it.
Schedule(s) ==
    IF Runnable(s) = {}
    THEN /\ state' = s
         /\ UNCHANGED curproc
    ELSE \E next \in Runnable(s) :
            /\ \A q \in Runnable(s) :
                  ScanDistance(curproc, next) <= ScanDistance(curproc, q)
            /\ state' = SwitchTo(s, next)
            /\ curproc' = next

\* Mutant: wakes whatever state the process is in.
WakeupAny(s, p) == [s EXCEPT ![p] = "P_READY"]

\* "if (p->state == P_SLEEPING) p->state = P_READY": how every waker of the
\* kernel wakes a process.
Wakeup(s, p) == [s EXCEPT ![p] = IF @ = "P_SLEEPING" THEN "P_READY" ELSE @]
=============================================================================
