-------------------------- MODULE Programs_proofs ---------------------------
(***************************************************************************)
(* What the kernel keeps of the programs that run, and what the shell does *)
(* to run them: theorems about Proc, for every size of the process table   *)
(* and every set of signals, and about ShellPipeline, for every number of  *)
(* descriptors, pipes and commands, whatever fails and whatever programs   *)
(* do.                                                                     *)
(***************************************************************************)
EXTENDS Proc, ShellPipeline, FiniteSetTheorems, WellFoundedInduction, TLAPS

-----------------------------------------------------------------------------
(* The process table *)

\* What the proofs use of the assumption on MAXPROC.
LEMMA TableSize ==
    /\ MAXPROC \in Nat /\ MAXPROC >= 2
    /\ 0 \in Procs /\ UserProcs \subseteq Procs /\ 0 \notin UserProcs
    /\ Procs = UserProcs \cup {0}
    /\ Procs \subseteq Nat
BY MaxprocAssumption DEF Procs, UserProcs

\* schedule() either returns at once or gives the CPU to another READY process.
LEMMA ScheduleCases ==
    ASSUME NEW s \in [Procs -> ProcStates], curproc \in Procs, Schedule(s)
    PROVE  \/ /\ Runnable(s) = {}
              /\ state' = s
              /\ curproc' = curproc
           \/ \E n \in Procs \ {curproc} :
                 /\ s[n] = "P_READY"
                 /\ state' = [s EXCEPT
                       ![curproc] = IF s[curproc] = "P_RUNNING" THEN "P_READY"
                                    ELSE s[curproc],
                       ![n] = "P_RUNNING"]
                 /\ curproc' = n
<1>1. CASE Runnable(s) = {}
  BY <1>1 DEF Schedule
<1>2. CASE Runnable(s) # {}
  <2>1. PICK n \in Runnable(s) : state' = SwitchTo(s, n) /\ curproc' = n
    BY <1>2 DEF Schedule
  <2>2. n \in Procs \ {curproc} /\ s[n] = "P_READY"
    BY DEF Runnable
  <2> QED
    BY <2>1, <2>2 DEF SwitchTo
<1> QED
  BY <1>1, <1>2

\* schedule() keeps the types of the table.
LEMMA ScheduleType ==
    ASSUME NEW s \in [Procs -> ProcStates], curproc \in Procs, Schedule(s)
    PROVE  state' \in [Procs -> ProcStates] /\ curproc' \in Procs
<1>1. CASE state' = s /\ curproc' = curproc
  BY <1>1
<1>2. CASE \E n \in Procs \ {curproc} :
                 /\ s[n] = "P_READY"
                 /\ state' = [s EXCEPT
                       ![curproc] = IF s[curproc] = "P_RUNNING" THEN "P_READY"
                                    ELSE s[curproc],
                       ![n] = "P_RUNNING"]
                 /\ curproc' = n
  BY <1>2 DEF ProcStates
<1> QED
  BY <1>1, <1>2, ScheduleCases

\* alloc_pid() returns a free user slot and stays within the table.
LEMMA AllocPidFacts ==
    ASSUME NEW c, AllocPid(c), TypeOK
    PROVE  c \in UserProcs /\ state[c] = "P_FREE" /\ next_pid' \in UserProcs
BY TableSize DEF AllocPid, FreeSlots, NextPid, UserProcs, TypeOK

LEMMA AllocPidFailsFacts ==
    ASSUME AllocPidFails, TypeOK
    PROVE  next_pid' \in UserProcs
BY TableSize DEF AllocPidFails, NextPid, UserProcs, TypeOK

-----------------------------------------------------------------------------
(* Types *)

LEMMA InitType == Init => TypeOK
<1> SUFFICES ASSUME Init PROVE TypeOK
  OBVIOUS
<1>1. state \in [Procs -> ProcStates] /\ pc \in [Procs -> Points]
  BY DEF Init, ProcStates, Points
<1>2. curproc \in Procs /\ ppid \in [Procs -> Procs] /\ aspace \in [Procs -> Procs]
  BY TableSize DEF Init
<1>3. nproc \in Int /\ next_pid \in UserProcs /\ arg \in [Procs -> Nat]
  BY TableSize DEF Init, UserProcs
<1>4. sig_pending \in [Procs -> SUBSET Signals]
  BY DEF Init
<1>5. sig_handler \in [Procs -> [Signals -> Handlers]]
  BY DEF Init, Handlers
<1>6. exec_active \in BOOLEAN /\ shell \in BOOLEAN
  BY DEF Init
<1> QED
  BY <1>1, <1>2, <1>3, <1>4, <1>5, <1>6 DEF TypeOK, Init

\* GoTo with a point and a number keeps the types of the continuation.
LEMMA GoToType ==
    ASSUME TypeOK, NEW p \in Procs, NEW point \in Points, NEW a \in Nat,
           GoTo(p, point, a)
    PROVE  pc' \in [Procs -> Points] /\ arg' \in [Procs -> Nat]
BY DEF GoTo, TypeOK

LEMMA ReturnToUserType ==
    ASSUME TypeOK, NEW p \in Procs, ReturnToUser(p)
    PROVE  pc' \in [Procs -> Points] /\ arg' \in [Procs -> Nat]
BY GoToType DEF ReturnToUser, Points

\* do_exit() keeps the types.
LEMMA DoExitType ==
    ASSUME TypeOK, NEW p \in UserProcs, curproc = p, NEW point \in Points,
           DoExit(p, point), sig_pending' \in [Procs -> SUBSET Signals]
    PROVE  TypeOK'
<1> p \in Procs /\ curproc \in Procs /\ 0 \in Procs
  BY TableSize
<1>1. CASE ExecLeave(p)
  <2>1. pc' \in [Procs -> Points] /\ arg' \in [Procs -> Nat]
    BY <1>1, GoToType, ReturnToUserType DEF ExecLeave, Points
  <2>2. exec_active' \in BOOLEAN
    BY <1>1 DEF ExecLeave, TypeOK
  <2> QED
    BY <1>1, <2>1, <2>2 DEF ExecLeave, DoExit, TypeOK
<1>2. CASE ExitProcess(p, point)
  <2> DEFINE zombie == [state EXCEPT ![p] = "P_ZOMBIE"]
  <2>1. zombie \in [Procs -> ProcStates] /\ ppid[p] \in Procs
    BY DEF TypeOK, ProcStates
  <2>2. NotifyParent(zombie, ppid[p]) \in [Procs -> ProcStates]
    BY <2>1 DEF NotifyParent, Wakeup, ProcStates
  <2>3. state' \in [Procs -> ProcStates] /\ curproc' \in Procs
    <3>1. CASE zombie[ppid[p]] = "P_VFORK"
      BY <1>2, <2>1, <3>1 DEF ExitProcess, ProcStates
    <3>2. CASE zombie[ppid[p]] # "P_VFORK"
      <4>1. Schedule(NotifyParent(zombie, ppid[p]))
        BY <1>2, <3>2 DEF ExitProcess
      <4> QED
        BY <4>1, <2>2, ScheduleType
    <3> QED
      BY <3>1, <3>2
  <2>4. ppid' \in [Procs -> Procs]
    BY <1>2 DEF ExitProcess, Reparent, TypeOK
  <2>5. pc' \in [Procs -> Points] /\ arg' \in [Procs -> Nat]
    BY <1>2, GoToType DEF ExitProcess
  <2>6. exec_active' \in BOOLEAN
    BY <1>2 DEF ExitProcess, TypeOK
  <2> QED
    BY <2>3, <2>4, <2>5, <2>6 DEF DoExit, TypeOK
<1> QED
  BY <1>1, <1>2 DEF DoExit

LEMMA StepType == TypeOK /\ [Next]_vars => TypeOK'
<1> SUFFICES ASSUME TypeOK, [Next]_vars PROVE TypeOK'
  OBVIOUS
<1> USE TableSize
<1>1. ASSUME NEW p \in UserProcs, SysExit(p) PROVE TypeOK'
  BY <1>1, DoExitType DEF SysExit, At, Points, TypeOK
<1>2. ASSUME NEW p \in UserProcs, SysVfork(p) PROVE TypeOK'
  <2>1. ASSUME NEW c \in UserProcs,
               AllocPid(c),
               state' = VforkStates(p, c),
               ppid' = [ppid EXCEPT ![c] = p],
               curproc' = c,
               nproc' = nproc + 1,
               aspace' = [aspace EXCEPT ![c] = aspace[p]],
               sig_pending' = [sig_pending EXCEPT ![c] = sig_pending[p]],
               sig_handler' = [sig_handler EXCEPT ![c] = sig_handler[p]],
               pc' = [pc EXCEPT ![c] = "sig", ![p] = "sig"],
               arg' = [arg EXCEPT ![c] = 1, ![p] = 1],
               dozing' = dozing \ {c}
        PROVE  TypeOK'
    <3>1. state' \in [Procs -> ProcStates]
      BY <2>1 DEF VforkStates, TypeOK, ProcStates
    <3>2. pc' \in [Procs -> Points] /\ arg' \in [Procs -> Nat]
      BY <2>1 DEF TypeOK, Points
    <3>3. /\ ppid' \in [Procs -> Procs] /\ aspace' \in [Procs -> Procs]
          /\ curproc' \in Procs /\ nproc' \in Int /\ dozing' \subseteq UserProcs
      BY <2>1 DEF TypeOK
    <3>4. next_pid' \in UserProcs
      BY <2>1, AllocPidFacts
    <3>5. /\ sig_pending' \in [Procs -> SUBSET Signals]
          /\ sig_handler' \in [Procs -> [Signals -> Handlers]]
      BY <2>1 DEF TypeOK
    <3> QED
      BY <1>2, <3>1, <3>2, <3>3, <3>4, <3>5 DEF SysVfork, TypeOK
  <2>2. CASE /\ AllocPidFails
             /\ ReturnToUser(p)
             /\ UNCHANGED <<state, curproc, ppid, nproc, aspace, sigvars, dozing>>
    BY <1>2, <2>2, AllocPidFailsFacts, ReturnToUserType DEF SysVfork, TypeOK, sigvars
  <2> QED
    BY <1>2, <2>1, <2>2 DEF SysVfork
<1>3. ASSUME NEW p \in UserProcs, SysExec(p) PROVE TypeOK'
  <2>1. pc' \in [Procs -> Points] /\ arg' \in [Procs -> Nat]
    BY <1>3, GoToType, ReturnToUserType DEF SysExec, Points
  <2>2. state' \in [Procs -> ProcStates] /\ curproc' \in Procs
    <3>1. CASE ExecDetach(p)
      BY <3>1 DEF ExecDetach, TypeOK, ProcStates
    <3>2. CASE UNCHANGED <<state, curproc>>
      BY <3>2 DEF TypeOK
    <3> QED
      BY <1>3, <3>1, <3>2 DEF SysExec, ExecInPlace
  <2>3. exec_active' \in BOOLEAN
    BY <1>3 DEF SysExec, ExecDetach, ExecInPlace, TypeOK
  <2>4. aspace' \in [Procs -> Procs]
    BY <1>3 DEF SysExec, TypeOK
  <2> QED
    BY <1>3, <2>1, <2>2, <2>3, <2>4 DEF SysExec, TypeOK, sigvars
<1>4. ASSUME NEW p \in Procs, NEW pid, Reap(p, pid)
      PROVE  state' \in [Procs -> ProcStates] /\ nproc' \in Int
  BY <1>4 DEF Reap, Reapable, Children, TypeOK, ProcStates
<1>5. ASSUME NEW p \in UserProcs, SysWaitpid(p) PROVE TypeOK'
  <2>1. PICK pid \in WaitPids : GoTo(p, "wait", pid)
    BY <1>5 DEF SysWaitpid
  <2>2. pc' \in [Procs -> Points] /\ arg' \in [Procs -> Nat]
    BY <2>1, GoToType, WorkloadAssumption DEF Points
  <2> QED
    BY <1>5, <2>2 DEF SysWaitpid, TypeOK, tablevars, sigvars
<1>6. ASSUME NEW p \in UserProcs, SysWaitpidNohang(p) PROVE TypeOK'
  <2>1. state' \in [Procs -> ProcStates] /\ nproc' \in Int
    BY <1>4, <1>6 DEF SysWaitpidNohang, TypeOK
  <2>2. pc' \in [Procs -> Points] /\ arg' \in [Procs -> Nat]
    BY <1>6, ReturnToUserType DEF SysWaitpidNohang
  <2> QED
    BY <1>6, <2>1, <2>2 DEF SysWaitpidNohang, TypeOK, sigvars
<1>7. ASSUME NEW p \in Procs, WaitScan(p) PROVE TypeOK'
  <2>1. ASSUME WaitReturn(p) PROVE pc' \in [Procs -> Points] /\ arg' \in [Procs -> Nat]
    BY <2>1, GoToType, ReturnToUserType DEF WaitReturn, Points
  <2>2. CASE Reap(p, arg[p]) /\ WaitReturn(p) /\ UNCHANGED curproc
    BY <1>4, <1>7, <2>1, <2>2 DEF WaitScan, TypeOK, sigvars
  <2>3. CASE WaitReturn(p) /\ UNCHANGED <<state, curproc, nproc>>
    BY <1>7, <2>1, <2>3 DEF WaitScan, TypeOK, sigvars
  <2>4. CASE /\ Schedule([state EXCEPT ![p] = "P_SLEEPING"])
             /\ UNCHANGED <<pc, arg, nproc>>
    <3>1. [state EXCEPT ![p] = "P_SLEEPING"] \in [Procs -> ProcStates]
      BY DEF TypeOK, ProcStates
    <3>2. state' \in [Procs -> ProcStates] /\ curproc' \in Procs
      BY <2>4, <3>1, ScheduleType DEF TypeOK
    <3> QED
      BY <1>7, <2>4, <3>2 DEF WaitScan, TypeOK, sigvars
  <2> QED
    BY <1>7, <2>2, <2>3, <2>4 DEF WaitScan
<1>8. ASSUME NEW p \in UserProcs, SysSignal(p) PROVE TypeOK'
  <2>1. PICK s \in Signals, h \in Dispositions :
           sig_handler' = [sig_handler EXCEPT ![p][s] = h]
    BY <1>8 DEF SysSignal
  <2>2. h \in Handlers
    BY WorkloadAssumption DEF Handlers
  <2>3. sig_handler' \in [Procs -> [Signals -> Handlers]]
    BY <2>1, <2>2 DEF TypeOK
  <2>4. pc' \in [Procs -> Points] /\ arg' \in [Procs -> Nat]
    BY <1>8, ReturnToUserType DEF SysSignal
  <2> QED
    BY <1>8, <2>3, <2>4 DEF SysSignal, TypeOK, tablevars
<1>9. ASSUME NEW p \in UserProcs, SysKill(p) PROVE TypeOK'
  <2>1. PICK s \in Signals, t \in Procs :
          /\ sig_pending' = [sig_pending EXCEPT ![t] = PendingAfter(t, s)]
          /\ state' = IF s = SIGCONT /\ state[t] = "P_STOPPED"
                      THEN [state EXCEPT ![t] = "P_READY"]
                      ELSE Wakeup(state, t)
    BY <1>9 DEF SysKill
  <2>2. sig_pending' \in [Procs -> SUBSET Signals]
    BY <2>1 DEF PendingAfter, TypeOK
  <2>3. state' \in [Procs -> ProcStates]
    BY <2>1 DEF Wakeup, TypeOK, ProcStates
  <2>4. pc' \in [Procs -> Points] /\ arg' \in [Procs -> Nat]
    BY <1>9, ReturnToUserType DEF SysKill
  <2> QED
    BY <1>9, <2>2, <2>3, <2>4 DEF SysKill, TypeOK
<1>10. ASSUME NEW p \in UserProcs, SigDeliver(p) PROVE TypeOK'
  <2>0. ASSUME NEW s \in Signals, TakeSignal(p, s)
        PROVE  /\ sig_pending' \in [Procs -> SUBSET Signals]
               /\ curproc = p
               /\ s + 1 \in Nat
    BY <2>0, SignalsAssumption DEF TakeSignal, At, TypeOK, NSIG
  <2>1. CASE SigDone(p)
    BY <2>1, GoToType DEF SigDone, TypeOK, Points, tablevars, sigvars
  <2>2. ASSUME NEW s \in Signals, SigIgnore(p, s) PROVE TypeOK'
    BY <2>0, <2>2, GoToType DEF SigIgnore, TypeOK, Points, tablevars
  <2>3. ASSUME NEW s \in Signals, SigTerminate(p, s) PROVE TypeOK'
    BY <2>0, <2>3, DoExitType DEF SigTerminate, Points
  <2>4. ASSUME NEW s \in Signals, SigStop(p, s) PROVE TypeOK'
    <3>1. [state EXCEPT ![p] = "P_STOPPED"] \in [Procs -> ProcStates]
      BY DEF TypeOK, ProcStates
    <3>2. state' \in [Procs -> ProcStates] /\ curproc' \in Procs
      BY <2>4, <3>1, ScheduleType DEF SigStop, TypeOK
    <3>3. pc' \in [Procs -> Points] /\ arg' \in [Procs -> Nat]
      BY <2>0, <2>4, GoToType DEF SigStop, Points
    <3> QED
      BY <2>0, <2>4, <3>2, <3>3 DEF SigStop, TypeOK
  <2>5. ASSUME NEW s \in Signals, SigCatch(p, s) PROVE TypeOK'
    <3>1. sig_handler' \in [Procs -> [Signals -> Handlers]]
      BY <2>5 DEF SigCatch, TypeOK, Handlers
    <3>2. pc' \in [Procs -> Points] /\ arg' \in [Procs -> Nat]
      BY <2>5, GoToType DEF SigCatch, Points
    <3> QED
      BY <2>0, <2>5, <3>1, <3>2 DEF SigCatch, TypeOK, tablevars
  <2> QED
    BY <1>10, <2>1, <2>2, <2>3, <2>4, <2>5 DEF SigDeliver
<1>11. ASSUME NEW p \in UserProcs, TimerTick(p) PROVE TypeOK'
  <2>1. state' \in [Procs -> ProcStates] /\ curproc' \in Procs
    BY <1>11, ScheduleType DEF TimerTick, TypeOK
  <2>2. pc' \in [Procs -> Points] /\ arg' \in [Procs -> Nat]
    BY <1>11, ReturnToUserType DEF TimerTick
  <2> QED
    BY <1>11, <2>1, <2>2 DEF TimerTick, TypeOK, sigvars
<1>12. ASSUME Spawn PROVE TypeOK'
  <2>1. PICK c \in UserProcs :
          /\ AllocPid(c)
          /\ state' = [state EXCEPT ![c] = "P_READY"]
          /\ ppid' = [ppid EXCEPT ![c] = 0]
          /\ nproc' = nproc + 1
          /\ aspace' = [aspace EXCEPT ![c] = c]
          /\ sig_pending' = [sig_pending EXCEPT ![c] = {}]
          /\ sig_handler' = [sig_handler EXCEPT ![c] = [s \in Signals |-> "SIG_DFL"]]
          /\ pc' = [pc EXCEPT ![c] = "user", ![0] = "wait"]
          /\ arg' = [arg EXCEPT ![c] = 1, ![0] = c]
          /\ dozing' = dozing \ {c}
    BY <1>12 DEF Spawn
  <2>2. state' \in [Procs -> ProcStates]
    BY <2>1 DEF TypeOK, ProcStates
  <2>3. pc' \in [Procs -> Points] /\ arg' \in [Procs -> Nat]
    BY <2>1 DEF TypeOK, Points
  <2>4. /\ ppid' \in [Procs -> Procs] /\ aspace' \in [Procs -> Procs] /\ nproc' \in Int
        /\ dozing' \subseteq UserProcs
    BY <2>1 DEF TypeOK
  <2>5. next_pid' \in UserProcs
    BY <2>1, AllocPidFacts
  <2>6. [s \in Signals |-> "SIG_DFL"] \in [Signals -> Handlers]
    BY DEF Handlers
  <2>7. sig_handler' \in [Procs -> [Signals -> Handlers]]
    BY <2>1, <2>6 DEF TypeOK
  <2>8. sig_pending' \in [Procs -> SUBSET Signals]
    BY <2>1 DEF TypeOK
  <2> QED
    BY <1>12, <2>2, <2>3, <2>4, <2>5, <2>7, <2>8 DEF Spawn, TypeOK
<1>13. ASSUME SpawnFails, shell' \in BOOLEAN PROVE TypeOK'
  <2>1. next_pid' \in UserProcs
    BY <1>13, AllocPidFacts, AllocPidFailsFacts DEF SpawnFails, TypeOK
  <2> QED
    BY <1>13, <2>1 DEF SpawnFails, TypeOK, sigvars
<1>14. CASE KmainSpawn
  BY <1>12, <1>13, <1>14 DEF KmainSpawn
<1>15. CASE ShellCommand
  BY <1>12, <1>13, <1>15 DEF ShellCommand, TypeOK
<1>16. CASE ShellIdle
  <2>1. sig_pending' \in [Procs -> SUBSET Signals]
    BY <1>16 DEF ShellIdle, TypeOK
  <2>2. [state EXCEPT ![0] = "P_SLEEPING"] \in [Procs -> ProcStates]
    BY DEF TypeOK, ProcStates
  <2>3. state' \in [Procs -> ProcStates] /\ curproc' \in Procs
    BY <1>16, <2>2, ScheduleType DEF ShellIdle, TypeOK
  <2> QED
    BY <1>16, <2>1, <2>3 DEF ShellIdle, TypeOK
<1>18. ASSUME NEW p \in UserProcs, SysRead(p) PROVE TypeOK'
  <2>1. pc' \in [Procs -> Points] /\ arg' \in [Procs -> Nat]
    BY <1>18, GoToType DEF SysRead, Points
  <2> QED
    BY <1>18, <2>1 DEF SysRead, TypeOK, tablevars, sigvars
<1>19. ASSUME NEW p \in UserProcs, ReadBlocks(p) PROVE TypeOK'
  <2>1. [state EXCEPT ![p] = "P_SLEEPING"] \in [Procs -> ProcStates]
    BY DEF TypeOK, ProcStates
  <2>2. state' \in [Procs -> ProcStates] /\ curproc' \in Procs
    BY <1>19, <2>1, ScheduleType DEF ReadBlocks, TypeOK
  <2> QED
    BY <1>19, <2>2 DEF ReadBlocks, TypeOK, sigvars
<1>20. ASSUME NEW p \in UserProcs, ReadReturns(p) PROVE TypeOK'
  <2>1. pc' \in [Procs -> Points] /\ arg' \in [Procs -> Nat]
    BY <1>20, ReturnToUserType DEF ReadReturns
  <2>2. dozing' \subseteq UserProcs
    BY <1>20 DEF ReadReturns, TypeOK
  <2> QED
    BY <1>20, <2>1, <2>2 DEF ReadReturns, TypeOK, tablevars, sigvars
<1>21. ASSUME NEW p \in Procs, WakeReader(p) PROVE TypeOK'
  <2>1. state' \in [Procs -> ProcStates]
    BY <1>21 DEF WakeReader, Wakeup, TypeOK, ProcStates
  <2> QED
    BY <1>21, <2>1 DEF WakeReader, TypeOK, sigvars
<1>17. CASE UNCHANGED vars
  BY <1>17 DEF vars, tablevars, sigvars, TypeOK
<1> QED
  BY <1>1, <1>2, <1>3, <1>5, <1>6, <1>7, <1>8, <1>9, <1>10, <1>11, <1>14, <1>15,
     <1>16, <1>17, <1>18, <1>19, <1>20, <1>21 DEF Next, UserStep, KernelStep, Wild

\* Every variable of the process model keeps its type, whatever programs do:
\* in particular pids and parents stay within proctab and next_pid never
\* becomes 0.
THEOREM TypeCorrect == Spec => []TypeOK
<1>1. Init => TypeOK
  BY InitType
<1>2. TypeOK /\ [Next]_vars => TypeOK'
  BY StepType
<1> QED
  BY <1>1, <1>2, PTL DEF Spec

-----------------------------------------------------------------------------
(* The table's structure and nproc *)

\* What schedule() called with table s keeps: one process is RUNNING, and
\* nobody is freed, killed, stopped or thawed.
LEMMA ScheduleKeeps ==
    ASSUME NEW s \in [Procs -> ProcStates], curproc \in Procs, Schedule(s),
           \A q \in Procs : s[q] = "P_RUNNING" => q = curproc,
           s[curproc] \notin {"P_FREE", "P_VFORK"}
    PROVE  /\ OneRunning'
           /\ \A q \in Procs :
                 /\ state'[q] = "P_FREE" <=> s[q] = "P_FREE"
                 /\ state'[q] = "P_ZOMBIE" <=> s[q] = "P_ZOMBIE"
                 /\ state'[q] = "P_VFORK" <=> s[q] = "P_VFORK"
                 /\ state'[q] = "P_STOPPED" <=> s[q] = "P_STOPPED"
<1>1. CASE state' = s /\ curproc' = curproc
  BY <1>1 DEF OneRunning
<1>2. CASE \E n \in Procs \ {curproc} :
                 /\ s[n] = "P_READY"
                 /\ state' = [s EXCEPT
                       ![curproc] = IF s[curproc] = "P_RUNNING" THEN "P_READY"
                                    ELSE s[curproc],
                       ![n] = "P_RUNNING"]
                 /\ curproc' = n
  <2>1. PICK n \in Procs \ {curproc} :
                 /\ s[n] = "P_READY"
                 /\ state' = [s EXCEPT
                       ![curproc] = IF s[curproc] = "P_RUNNING" THEN "P_READY"
                                    ELSE s[curproc],
                       ![n] = "P_RUNNING"]
                 /\ curproc' = n
    BY <1>2
  <2>2. \A q \in Procs : state'[q] = IF q = n THEN "P_RUNNING" ELSE
                          IF q = curproc /\ s[q] = "P_RUNNING" THEN "P_READY"
                          ELSE s[q]
    BY <2>1
  <2>3. OneRunning'
    BY <2>1, <2>2 DEF OneRunning
  <2>4. \A q \in Procs :
                 /\ state'[q] = "P_FREE" <=> s[q] = "P_FREE"
                 /\ state'[q] = "P_ZOMBIE" <=> s[q] = "P_ZOMBIE"
                 /\ state'[q] = "P_VFORK" <=> s[q] = "P_VFORK"
                 /\ state'[q] = "P_STOPPED" <=> s[q] = "P_STOPPED"
    BY <2>1, <2>2
  <2> QED
    BY <2>3, <2>4
<1> QED
  BY <1>1, <1>2, ScheduleCases

-----------------------------------------------------------------------------
(* The structure of the table *)

LEMMA InitStructure == Init => Structure
BY TableSize DEF Init, Structure, OneRunning, ParentAlive, ZeroIsKernel

\* Process 0's continuation and parent, and the other processes', are as they
\* were, but for p, which goes somewhere that is not kmain().
LEMMA GoToZero ==
    ASSUME TypeOK, ZeroIsKernel, NEW p \in UserProcs, NEW point, NEW a,
           GoTo(p, point, a), point # "kmain"
    PROVE  pc'[0] \in {"kmain", "wait"} /\ \A q \in UserProcs : pc'[q] # "kmain"
BY TableSize DEF GoTo, ZeroIsKernel, TypeOK

\* A step that frees, kills and reparents nobody, starts nobody and leaves
\* process 0 out of vfork keeps the structure.
LEMMA CalmStep ==
    ASSUME TypeOK, Structure, OneRunning', ppid' = ppid,
           \A q \in Procs : state[q] = "P_FREE" <=> state'[q] = "P_FREE",
           \A q \in Procs : state'[q] = "P_ZOMBIE" => state[q] = "P_ZOMBIE",
           state'[0] # "P_VFORK",
           pc'[0] \in {"kmain", "wait"},
           \A q \in UserProcs : pc'[q] # "kmain"
    PROVE  Structure'
<1>1. ParentAlive'
  BY DEF Structure, ParentAlive, TypeOK
<1>2. ZeroIsKernel'
  BY TableSize DEF Structure, ZeroIsKernel
<1> QED
  BY <1>1, <1>2 DEF Structure

\* The same for a step that reaps zombie q.
LEMMA ReapStep ==
    ASSUME TypeOK, Structure, NEW p \in Procs, curproc = p, NEW pid, Reap(p, pid),
           ppid' = ppid, curproc' = curproc,
           pc'[0] \in {"kmain", "wait"},
           \A r \in UserProcs : pc'[r] # "kmain"
    PROVE  Structure'
<1>1. PICK q \in Procs : /\ state[q] = "P_ZOMBIE" /\ ppid[q] = p
                         /\ state' = [state EXCEPT ![q] = "P_FREE"]
  BY DEF Reap, Reapable, Children
<1>2. q # p
  BY <1>1 DEF Structure, ParentAlive
<1>3. OneRunning'
  BY <1>1, <1>2 DEF Structure, OneRunning, TypeOK
<1>4. ParentAlive'
  BY <1>1 DEF Structure, ParentAlive, TypeOK
<1>5. ZeroIsKernel'
  BY <1>1, TableSize DEF Structure, ZeroIsKernel, TypeOK
<1> QED
  BY <1>3, <1>4, <1>5 DEF Structure

\* do_exit() hands the children of the dying process to process 0 before
\* anybody else runs.
LEMMA ExitStructure ==
    ASSUME TypeOK, Structure, NEW p \in UserProcs, curproc = p,
           NEW point \in {"sig", "user"}, DoExit(p, point)
    PROVE  Structure'
<1> p \in Procs /\ 0 \in Procs /\ p # 0
  BY TableSize
<1>1. CASE ExecLeave(p)
  <2>1. pc'[0] \in {"kmain", "wait"} /\ \A q \in UserProcs : pc'[q] # "kmain"
    BY <1>1, GoToZero DEF ExecLeave, ReturnToUser, Structure
  <2>2. UNCHANGED <<state, curproc, ppid>>
    BY <1>1 DEF ExecLeave
  <2> QED
    BY <2>1, <2>2 DEF Structure, OneRunning, ParentAlive, ZeroIsKernel
<1>2. CASE ExitProcess(p, point)
  <2> DEFINE zombie == [state EXCEPT ![p] = "P_ZOMBIE"]
             parent == ppid[p]
  <2>1. /\ zombie \in [Procs -> ProcStates]
        /\ zombie[p] = "P_ZOMBIE"
        /\ \A q \in Procs : q # p => zombie[q] = state[q]
        /\ parent \in Procs
    BY DEF TypeOK, ProcStates
  <2>2. ppid' = [q \in Procs |-> IF zombie[q] # "P_FREE" /\ ppid[q] = p THEN 0
                                 ELSE ppid[q]]
    BY <1>2 DEF ExitProcess, Reparent
  <2>3. /\ OneRunning'
        /\ \A q \in Procs : q # p /\ state[q] # "P_FREE" /\ state[q] # "P_ZOMBIE"
              => state'[q] # "P_FREE" /\ state'[q] # "P_ZOMBIE"
        /\ \A q \in Procs : state'[q] # "P_FREE" => state[q] # "P_FREE"
        /\ state'[0] # "P_VFORK"
    <3>1. CASE zombie[parent] = "P_VFORK"
      <4>1. /\ state' = [zombie EXCEPT ![parent] = "P_RUNNING"]
            /\ curproc' = parent
        BY <1>2, <3>1 DEF ExitProcess
      <4>2. \A q \in Procs : state'[q] = IF q = parent THEN "P_RUNNING" ELSE zombie[q]
        BY <2>1, <4>1
      <4>3. parent # p /\ parent # 0
        BY <2>1, <3>1 DEF Structure, ZeroIsKernel
      <4>4. OneRunning'
        BY <2>1, <4>1, <4>2 DEF OneRunning, Structure
      <4> QED
        BY <2>1, <3>1, <4>2, <4>3, <4>4 DEF Structure, ZeroIsKernel, OneRunning
    <3>2. CASE zombie[parent] # "P_VFORK"
      <4> DEFINE s == NotifyParent(zombie, parent)
      <4>1. Schedule(s)
        BY <1>2, <3>2 DEF ExitProcess
      <4>2. /\ s \in [Procs -> ProcStates]
            /\ \A q \in Procs : \/ s[q] = zombie[q]
                                \/ zombie[q] = "P_SLEEPING" /\ s[q] = "P_READY"
        BY <2>1 DEF NotifyParent, Wakeup, ProcStates
      <4>3. /\ \A q \in Procs : s[q] = "P_RUNNING" => q = curproc
            /\ s[curproc] = "P_ZOMBIE"
        BY <2>1, <4>2 DEF Structure, OneRunning
      <4> HIDE DEF s
      <4>4. /\ OneRunning'
            /\ \A q \in Procs :
                 /\ state'[q] = "P_FREE" <=> s[q] = "P_FREE"
                 /\ state'[q] = "P_ZOMBIE" <=> s[q] = "P_ZOMBIE"
                 /\ state'[q] = "P_VFORK" <=> s[q] = "P_VFORK"
        BY <4>1, <4>2, <4>3, ScheduleKeeps
      <4> QED
        BY <2>1, <4>2, <4>4 DEF Structure, ZeroIsKernel, OneRunning
    <3> QED
      BY <3>1, <3>2
  <2>4. ParentAlive'
    <3> SUFFICES ASSUME NEW q \in Procs, state'[q] # "P_FREE"
                 PROVE  state'[ppid'[q]] \notin {"P_FREE", "P_ZOMBIE"}
      BY DEF ParentAlive
    <3>1. state[q] # "P_FREE" /\ zombie[q] # "P_FREE"
      BY <2>1, <2>3
    <3>2. CASE ppid[q] = p
      <4>1. ppid'[q] = 0
        BY <2>2, <3>1, <3>2
      <4> QED
        BY <2>3, <4>1 DEF Structure, ZeroIsKernel
    <3>3. CASE ppid[q] # p
      <4>1. ppid'[q] = ppid[q] /\ ppid[q] \in Procs
        BY <2>2, <3>3 DEF TypeOK
      <4>2. state[ppid[q]] # "P_FREE" /\ state[ppid[q]] # "P_ZOMBIE"
        BY <3>1 DEF Structure, ParentAlive
      <4> QED
        BY <2>3, <3>3, <4>1, <4>2
    <3> QED
      BY <3>2, <3>3
  <2>5. ZeroIsKernel'
    <3>1. pc'[0] \in {"kmain", "wait"} /\ \A q \in UserProcs : pc'[q] # "kmain"
      BY <1>2, GoToZero DEF ExitProcess, Structure
    <3>2. ppid'[0] = 0
      BY <2>2 DEF Structure, ZeroIsKernel
    <3> QED
      BY <2>3, <3>1, <3>2 DEF Structure, ZeroIsKernel
  <2> QED
    BY <2>3, <2>4, <2>5 DEF Structure
<1> QED
  BY <1>1, <1>2 DEF DoExit
\* A step that starts a child of q in a free slot c.
LEMMA StartStep ==
    ASSUME TypeOK, Structure, OneRunning', NEW c \in UserProcs, NEW q \in Procs,
           state[c] = "P_FREE",
           state'[c] \notin {"P_FREE", "P_ZOMBIE"},
           \A r \in Procs \ {c} :
               /\ state[r] = "P_FREE" <=> state'[r] = "P_FREE"
               /\ state'[r] = "P_ZOMBIE" => state[r] = "P_ZOMBIE",
           ppid' = [ppid EXCEPT ![c] = q],
           state[q] \notin {"P_FREE", "P_ZOMBIE"},
           state'[0] # "P_VFORK",
           pc'[0] \in {"kmain", "wait"},
           \A r \in UserProcs : pc'[r] # "kmain"
    PROVE  Structure'
<1>1. ParentAlive'
  BY TableSize DEF Structure, ParentAlive, TypeOK
<1>2. ZeroIsKernel'
  BY TableSize DEF Structure, ZeroIsKernel, TypeOK
<1> QED
  BY <1>1, <1>2 DEF Structure

\* The switch that puts curproc to sleep or stops it.
LEMMA BlockStep ==
    ASSUME TypeOK, Structure, NEW p \in Procs, curproc = p,
           NEW x \in {"P_SLEEPING", "P_STOPPED"},
           Schedule([state EXCEPT ![p] = x]), ppid' = ppid,
           pc'[0] \in {"kmain", "wait"},
           \A q \in UserProcs : pc'[q] # "kmain"
    PROVE  Structure'
<1> DEFINE s == [state EXCEPT ![p] = x]
<1>1. /\ s \in [Procs -> ProcStates]
      /\ s[p] = x
      /\ \A q \in Procs : q # p => s[q] = state[q]
  BY DEF TypeOK, ProcStates
<1>2. /\ \A q \in Procs : s[q] = "P_RUNNING" => q = curproc
      /\ s[curproc] \notin {"P_FREE", "P_VFORK"}
  BY <1>1 DEF Structure, OneRunning
<1>3. Schedule(s)
  OBVIOUS
<1> HIDE DEF s
<1>4. /\ OneRunning'
      /\ \A q \in Procs :
            /\ state'[q] = "P_FREE" <=> s[q] = "P_FREE"
            /\ state'[q] = "P_ZOMBIE" <=> s[q] = "P_ZOMBIE"
            /\ state'[q] = "P_VFORK" <=> s[q] = "P_VFORK"
  BY <1>1, <1>2, <1>3, ScheduleKeeps
<1>5. /\ \A q \in Procs : state[q] = "P_FREE" <=> state'[q] = "P_FREE"
      /\ \A q \in Procs : state'[q] = "P_ZOMBIE" => state[q] = "P_ZOMBIE"
      /\ state'[0] # "P_VFORK"
  BY <1>1, <1>4, TableSize DEF Structure, OneRunning, ZeroIsKernel
<1> QED
  BY <1>4, <1>5, CalmStep

LEMMA StepStructure == TypeOK /\ Structure /\ [Next]_vars => Structure'
<1> SUFFICES ASSUME TypeOK, Structure, [Next]_vars PROVE Structure'
  OBVIOUS
<1> USE TableSize
<1>0. ASSUME NEW p \in UserProcs, NEW point, NEW a, GoTo(p, point, a), point # "kmain"
      PROVE  pc'[0] \in {"kmain", "wait"} /\ \A q \in UserProcs : pc'[q] # "kmain"
  BY <1>0, GoToZero DEF Structure
<1>a. ASSUME NEW p \in UserProcs, ReturnToUser(p)
      PROVE  pc'[0] \in {"kmain", "wait"} /\ \A q \in UserProcs : pc'[q] # "kmain"
  BY <1>0, <1>a DEF ReturnToUser
<1>b. ASSUME UNCHANGED <<pc>>
      PROVE  pc'[0] \in {"kmain", "wait"} /\ \A q \in UserProcs : pc'[q] # "kmain"
  BY <1>b DEF Structure, ZeroIsKernel
<1>c. ASSUME UNCHANGED <<state, curproc, ppid>>,
             pc'[0] \in {"kmain", "wait"}, \A q \in UserProcs : pc'[q] # "kmain"
      PROVE  Structure'
  BY <1>c DEF Structure, OneRunning, ParentAlive, ZeroIsKernel
<1>1. ASSUME NEW p \in UserProcs, SysExit(p) PROVE Structure'
  BY <1>1, ExitStructure DEF SysExit, At
<1>2. ASSUME NEW p \in UserProcs, SysVfork(p) PROVE Structure'
  <2>1. ASSUME NEW c \in UserProcs,
               AllocPid(c),
               state' = VforkStates(p, c),
               ppid' = [ppid EXCEPT ![c] = p],
               curproc' = c,
               pc' = [pc EXCEPT ![c] = "sig", ![p] = "sig"]
        PROVE  Structure'
    <3>1. state[c] = "P_FREE" /\ p # c /\ curproc = p /\ state[p] # "P_FREE"
      BY <1>2, <2>1, AllocPidFacts DEF SysVfork, At, Structure, OneRunning
    <3>2. \A q \in Procs : state'[q] = IF q = p THEN "P_VFORK" ELSE
                                       IF q = c THEN "P_RUNNING" ELSE state[q]
      BY <2>1, <3>1 DEF VforkStates, TypeOK
    <3>3. OneRunning'
      BY <2>1, <3>1, <3>2 DEF Structure, OneRunning
    <3>4. ParentAlive'
      <4> SUFFICES ASSUME NEW q \in Procs, state'[q] # "P_FREE"
                   PROVE  state'[ppid'[q]] \notin {"P_FREE", "P_ZOMBIE"}
        BY DEF ParentAlive
      <4>1. CASE q = c
        BY <2>1, <3>2, <4>1 DEF TypeOK
      <4>2. CASE q # c
        <5>1. state[q] # "P_FREE" /\ ppid'[q] = ppid[q] /\ ppid[q] \in Procs
          BY <2>1, <3>1, <3>2, <4>2 DEF TypeOK
        <5>2. state[ppid[q]] \notin {"P_FREE", "P_ZOMBIE"}
          BY <5>1 DEF Structure, ParentAlive
        <5> QED
          BY <3>2, <5>1, <5>2
      <4> QED
        BY <4>1, <4>2
    <3>5. ZeroIsKernel'
      <4>1. ppid'[0] = 0
        BY <2>1 DEF Structure, ZeroIsKernel, TypeOK
      <4>2. state'[0] = state[0]
        BY <3>2
      <4>3. pc'[0] \in {"kmain", "wait"} /\ \A q \in UserProcs : pc'[q] # "kmain"
        BY <2>1 DEF Structure, ZeroIsKernel, TypeOK
      <4> QED
        BY <4>1, <4>2, <4>3 DEF Structure, ZeroIsKernel
    <3> QED
      BY <3>3, <3>4, <3>5 DEF Structure
  <2>2. CASE ReturnToUser(p) /\ UNCHANGED <<state, curproc, ppid>>
    BY <1>a, <1>c, <2>2
  <2> QED
    BY <1>2, <2>1, <2>2 DEF SysVfork
<1>3. ASSUME NEW p \in UserProcs, SysExec(p) PROVE Structure'
  <2>1. pc'[0] \in {"kmain", "wait"} /\ \A q \in UserProcs : pc'[q] # "kmain"
    BY <1>0, <1>a, <1>3 DEF SysExec
  <2>2. CASE ExecDetach(p)
    <3> DEFINE v == ppid[p]
    <3>1. /\ v \in Procs /\ state[v] = "P_VFORK" /\ curproc = p /\ p # v /\ v # 0
          /\ curproc' = v
      BY <1>3, <2>2 DEF ExecDetach, SysExec, At, Structure, OneRunning, ZeroIsKernel, TypeOK
    <3>2. \A q \in Procs : state'[q] = IF q = v THEN "P_RUNNING" ELSE
                                       IF q = p THEN "P_READY" ELSE state[q]
      BY <2>2, <3>1 DEF ExecDetach, TypeOK
    <3>3. OneRunning'
      BY <3>1, <3>2 DEF Structure, OneRunning
    <3>4. /\ \A q \in Procs : state[q] = "P_FREE" <=> state'[q] = "P_FREE"
          /\ \A q \in Procs : state'[q] = "P_ZOMBIE" => state[q] = "P_ZOMBIE"
          /\ state'[0] # "P_VFORK"
      BY <3>1, <3>2 DEF Structure, OneRunning, ZeroIsKernel
    <3>5. ppid' = ppid
      BY <1>3 DEF SysExec
    <3> QED
      BY <2>1, <3>3, <3>4, <3>5, CalmStep
  <2>3. CASE UNCHANGED <<state, curproc>>
    BY <1>3, <1>c, <2>1, <2>3 DEF SysExec
  <2> QED
    BY <1>3, <2>2, <2>3 DEF SysExec, ExecInPlace
<1>4. ASSUME NEW p \in UserProcs, SysWaitpid(p) PROVE Structure'
  <2>1. PICK pid \in WaitPids : GoTo(p, "wait", pid)
    BY <1>4 DEF SysWaitpid
  <2> QED
    BY <1>0, <1>4, <1>c, <2>1 DEF SysWaitpid, tablevars
<1>5. ASSUME NEW p \in UserProcs, SysWaitpidNohang(p) PROVE Structure'
  BY <1>5, <1>a, <1>c, ReapStep DEF SysWaitpidNohang, At
<1>6. ASSUME NEW p \in Procs, WaitScan(p) PROVE Structure'
  <2>1. ASSUME WaitReturn(p)
        PROVE  pc'[0] \in {"kmain", "wait"} /\ \A q \in UserProcs : pc'[q] # "kmain"
    <3>1. CASE p = 0
      BY <2>1, <3>1 DEF WaitReturn, GoTo, Structure, ZeroIsKernel, TypeOK
    <3>2. CASE p # 0
      BY <1>a, <2>1, <3>2 DEF WaitReturn
    <3> QED
      BY <3>1, <3>2
  <2>2. CASE Reap(p, arg[p]) /\ WaitReturn(p) /\ UNCHANGED curproc
    BY <1>6, <2>1, <2>2, ReapStep DEF WaitScan, At
  <2>3. CASE WaitReturn(p) /\ UNCHANGED <<state, curproc, nproc>>
    BY <1>6, <1>c, <2>1, <2>3 DEF WaitScan
  <2>4. CASE /\ Schedule([state EXCEPT ![p] = "P_SLEEPING"])
             /\ UNCHANGED <<pc, arg, nproc>>
    <3>1. ppid' = ppid /\ curproc = p /\ "P_SLEEPING" \in {"P_SLEEPING", "P_STOPPED"}
      BY <1>6 DEF WaitScan, At
    <3> QED
      BY <1>b, <2>4, <3>1, BlockStep
  <2> QED
    BY <1>6, <2>2, <2>3, <2>4 DEF WaitScan
<1>7. ASSUME NEW p \in UserProcs, SysSignal(p) PROVE Structure'
  BY <1>7, <1>a, <1>c DEF SysSignal, tablevars
<1>8. ASSUME NEW p \in UserProcs, SysKill(p) PROVE Structure'
  <2>1. PICK s \in Signals, t \in Procs :
          state' = IF s = SIGCONT /\ state[t] = "P_STOPPED"
                   THEN [state EXCEPT ![t] = "P_READY"]
                   ELSE Wakeup(state, t)
    BY <1>8 DEF SysKill
  <2>2. \A q \in Procs : \/ state'[q] = state[q]
                         \/ /\ state[q] \in {"P_STOPPED", "P_SLEEPING"}
                            /\ state'[q] = "P_READY"
    BY <2>1 DEF Wakeup, TypeOK
  <2>3. curproc' = curproc /\ ppid' = ppid /\ curproc \in Procs
    BY <1>8 DEF SysKill, TypeOK
  <2>4. OneRunning'
    BY <2>2, <2>3 DEF Structure, OneRunning
  <2>5. /\ \A q \in Procs : state[q] = "P_FREE" <=> state'[q] = "P_FREE"
        /\ \A q \in Procs : state'[q] = "P_ZOMBIE" => state[q] = "P_ZOMBIE"
        /\ state'[0] # "P_VFORK"
    BY <2>2 DEF Structure, ZeroIsKernel
  <2>6. pc'[0] \in {"kmain", "wait"} /\ \A q \in UserProcs : pc'[q] # "kmain"
    BY <1>8, <1>a DEF SysKill
  <2> QED
    BY <2>3, <2>4, <2>5, <2>6, CalmStep
<1>9. ASSUME NEW p \in UserProcs, SigDeliver(p) PROVE Structure'
  <2>1. CASE SigDone(p)
    BY <1>0, <1>c, <2>1 DEF SigDone, tablevars
  <2>2. ASSUME NEW s \in Signals, SigIgnore(p, s) PROVE Structure'
    BY <1>0, <1>c, <2>2 DEF SigIgnore, tablevars
  <2>3. ASSUME NEW s \in Signals, SigTerminate(p, s) PROVE Structure'
    BY <2>3, ExitStructure DEF SigTerminate, TakeSignal, At
  <2>4. ASSUME NEW s \in Signals, SigStop(p, s) PROVE Structure'
    <3>1. /\ ppid' = ppid /\ curproc = p
          /\ "P_STOPPED" \in {"P_SLEEPING", "P_STOPPED"}
          /\ Schedule([state EXCEPT ![p] = "P_STOPPED"])
      BY <2>4 DEF SigStop, TakeSignal, At
    <3>2. pc'[0] \in {"kmain", "wait"} /\ \A q \in UserProcs : pc'[q] # "kmain"
      BY <1>0, <2>4 DEF SigStop
    <3> QED
      BY <3>1, <3>2, BlockStep
  <2>5. ASSUME NEW s \in Signals, SigCatch(p, s) PROVE Structure'
    BY <1>0, <1>c, <2>5 DEF SigCatch, tablevars
  <2> QED
    BY <1>9, <2>1, <2>2, <2>3, <2>4, <2>5 DEF SigDeliver
<1>10. ASSUME NEW p \in UserProcs, TimerTick(p) PROVE Structure'
  <2>1. Schedule(state) /\ ppid' = ppid
    BY <1>10 DEF TimerTick
  <2>2. /\ OneRunning'
        /\ \A q \in Procs :
              /\ state'[q] = "P_FREE" <=> state[q] = "P_FREE"
              /\ state'[q] = "P_ZOMBIE" <=> state[q] = "P_ZOMBIE"
              /\ state'[q] = "P_VFORK" <=> state[q] = "P_VFORK"
    BY <2>1, ScheduleKeeps DEF TypeOK, Structure, OneRunning
  <2>3. pc'[0] \in {"kmain", "wait"} /\ \A q \in UserProcs : pc'[q] # "kmain"
    BY <1>10, <1>a DEF TimerTick
  <2>4. state'[0] # "P_VFORK"
    BY <2>2 DEF Structure, ZeroIsKernel
  <2> QED
    BY <2>1, <2>2, <2>3, <2>4, CalmStep
<1>11. ASSUME Spawn, At(0, "kmain") PROVE Structure'
  <2>1. PICK c \in UserProcs :
          /\ AllocPid(c)
          /\ state' = [state EXCEPT ![c] = "P_READY"]
          /\ ppid' = [ppid EXCEPT ![c] = 0]
          /\ pc' = [pc EXCEPT ![c] = "user", ![0] = "wait"]
    BY <1>11 DEF Spawn
  <2>2. state[c] = "P_FREE"
    BY <2>1, AllocPidFacts
  <2>3. OneRunning'
    BY <1>11, <2>1, <2>2 DEF Spawn, At, Structure, OneRunning, TypeOK
  <2>4. pc'[0] \in {"kmain", "wait"} /\ \A q \in UserProcs : pc'[q] # "kmain"
    BY <2>1 DEF Structure, ZeroIsKernel, TypeOK
  <2>5. /\ state'[c] \notin {"P_FREE", "P_ZOMBIE"}
        /\ \A r \in Procs \ {c} :
               /\ state[r] = "P_FREE" <=> state'[r] = "P_FREE"
               /\ state'[r] = "P_ZOMBIE" => state[r] = "P_ZOMBIE"
        /\ state[0] \notin {"P_FREE", "P_ZOMBIE"}
        /\ state'[0] # "P_VFORK"
    BY <2>1 DEF Structure, ZeroIsKernel, TypeOK
  <2> QED
    BY <2>1, <2>2, <2>3, <2>4, <2>5, StartStep
<1>12. ASSUME SpawnFails PROVE Structure'
  BY <1>12, <1>b, <1>c DEF SpawnFails
<1>13. CASE KmainSpawn
  BY <1>11, <1>12, <1>13 DEF KmainSpawn
<1>14. CASE ShellCommand
  BY <1>11, <1>12, <1>14 DEF ShellCommand
<1>15. CASE ShellIdle
  <2>1. CASE UNCHANGED <<state, curproc>>
    BY <1>15, <1>b, <1>c, <2>1 DEF ShellIdle
  <2>2. CASE Schedule([state EXCEPT ![0] = "P_SLEEPING"])
    <3>1. ppid' = ppid /\ curproc = 0 /\ "P_SLEEPING" \in {"P_SLEEPING", "P_STOPPED"}
      BY <1>15 DEF ShellIdle, At
    <3>2. pc'[0] \in {"kmain", "wait"} /\ \A q \in UserProcs : pc'[q] # "kmain"
      BY <1>15, <1>b DEF ShellIdle
    <3> QED
      BY <2>2, <3>1, <3>2, BlockStep
  <2> QED
    BY <1>15, <2>1, <2>2 DEF ShellIdle
<1>17. ASSUME NEW p \in UserProcs, SysRead(p) \/ ReadReturns(p) PROVE Structure'
  BY <1>0, <1>a, <1>17, <1>c DEF SysRead, ReadReturns, tablevars
<1>18. ASSUME NEW p \in UserProcs, ReadBlocks(p) PROVE Structure'
  <2>1. /\ ppid' = ppid /\ curproc = p /\ "P_SLEEPING" \in {"P_SLEEPING", "P_STOPPED"}
        /\ Schedule([state EXCEPT ![p] = "P_SLEEPING"])
    BY <1>18 DEF ReadBlocks, At
  <2>2. pc'[0] \in {"kmain", "wait"} /\ \A q \in UserProcs : pc'[q] # "kmain"
    BY <1>18, <1>b DEF ReadBlocks
  <2> QED
    BY <2>1, <2>2, BlockStep
<1>19. ASSUME NEW p \in Procs, WakeReader(p) PROVE Structure'
  <2>1. /\ curproc' = curproc /\ ppid' = ppid /\ curproc \in Procs
        /\ \A q \in Procs : \/ state'[q] = state[q]
                            \/ state[q] = "P_SLEEPING" /\ state'[q] = "P_READY"
    BY <1>19 DEF WakeReader, Wakeup, TypeOK
  <2>2. OneRunning'
    BY <2>1 DEF Structure, OneRunning
  <2>3. /\ \A q \in Procs : state[q] = "P_FREE" <=> state'[q] = "P_FREE"
        /\ \A q \in Procs : state'[q] = "P_ZOMBIE" => state[q] = "P_ZOMBIE"
        /\ state'[0] # "P_VFORK"
    BY <2>1 DEF Structure, ZeroIsKernel
  <2>4. pc'[0] \in {"kmain", "wait"} /\ \A q \in UserProcs : pc'[q] # "kmain"
    BY <1>19, <1>b DEF WakeReader
  <2> QED
    BY <2>1, <2>2, <2>3, <2>4, CalmStep
<1>16. CASE UNCHANGED vars
  BY <1>16, <1>b, <1>c DEF vars, tablevars
<1> QED
  BY <1>1, <1>2, <1>3, <1>4, <1>5, <1>6, <1>7, <1>8, <1>9, <1>10, <1>13, <1>14,
     <1>15, <1>16, <1>17, <1>18, <1>19 DEF Next, UserStep, KernelStep, Wild

\* Whatever programs do -- background jobs, exec in place, stop signals -- one
\* process is RUNNING, and every process has a live parent to reap it.
THEOREM TableStructure == Spec => [](OneRunning /\ ParentAlive)
<1>1. Init => TypeOK /\ Structure
  BY InitType, InitStructure
<1>2. TypeOK /\ Structure /\ [Next]_vars => (TypeOK /\ Structure)'
  BY StepType, StepStructure
<1>3. TypeOK /\ Structure => OneRunning /\ ParentAlive
  BY DEF Structure
<1> QED
  BY <1>1, <1>2, <1>3, PTL DEF Spec
-----------------------------------------------------------------------------
(* nproc *)

\* The slots in use.
Used == {p \in Procs : state[p] # "P_FREE"}

LEMMA UsedFinite == IsFiniteSet(Used)
<1>1. IsFiniteSet(Procs)
  BY FS_Interval, TableSize DEF Procs
<1> QED
  BY <1>1, FS_Subset DEF Used

\* The three things a step may do to the slots.
SlotsKept == nproc' = nproc /\ Used' = Used
SlotTaken == \E c \in Procs : c \notin Used /\ Used' = Used \cup {c} /\ nproc' = nproc + 1
SlotFreed == \E q \in Procs : q \in Used /\ Used' = Used \ {q} /\ nproc' = nproc - 1

\* schedule() neither takes nor frees a slot.
LEMMA ScheduleSlots ==
    ASSUME TypeOK, Structure, NEW s \in [Procs -> ProcStates], Schedule(s),
           \A q \in Procs \ {curproc} :
               \/ s[q] = state[q]
               \/ state[q] = "P_SLEEPING" /\ s[q] = "P_READY",
           s[curproc] \notin {"P_FREE", "P_VFORK"}
    PROVE  \A q \in Procs : state'[q] = "P_FREE" <=> state[q] = "P_FREE"
<1>1. curproc \in Procs /\ \A q \in Procs : s[q] = "P_RUNNING" => q = curproc
  BY DEF TypeOK, Structure, OneRunning
<1>2. \A q \in Procs : state'[q] = "P_FREE" <=> s[q] = "P_FREE"
  BY <1>1, ScheduleKeeps
<1> QED
  BY <1>2 DEF Structure, OneRunning

LEMMA ExitSlots ==
    ASSUME TypeOK, Structure, NEW p \in UserProcs, curproc = p, NEW point,
           DoExit(p, point)
    PROVE  SlotsKept
<1> p \in Procs
  BY TableSize
<1>1. CASE ExecLeave(p)
  BY <1>1 DEF DoExit, ExecLeave, SlotsKept, Used
<1>2. CASE ExitProcess(p, point)
  <2> DEFINE zombie == [state EXCEPT ![p] = "P_ZOMBIE"]
             parent == ppid[p]
  <2>1. /\ zombie \in [Procs -> ProcStates]
        /\ zombie[p] = "P_ZOMBIE"
        /\ \A q \in Procs : q # p => zombie[q] = state[q]
        /\ parent \in Procs
    BY DEF TypeOK, ProcStates
  <2>2. CASE zombie[parent] = "P_VFORK"
    <3>1. state' = [zombie EXCEPT ![parent] = "P_RUNNING"]
      BY <1>2, <2>2 DEF ExitProcess
    <3>2. \A q \in Procs : state'[q] = "P_FREE" <=> state[q] = "P_FREE"
      BY <2>1, <2>2, <3>1 DEF Structure, OneRunning
    <3> QED
      BY <3>2 DEF DoExit, SlotsKept, Used
  <2>3. CASE zombie[parent] # "P_VFORK"
    <3> DEFINE s == NotifyParent(zombie, parent)
    <3>1. Schedule(s)
      BY <1>2, <2>3 DEF ExitProcess
    <3>2. /\ s \in [Procs -> ProcStates]
          /\ \A q \in Procs : \/ s[q] = zombie[q]
                              \/ zombie[q] = "P_SLEEPING" /\ s[q] = "P_READY"
      BY <2>1 DEF NotifyParent, Wakeup, ProcStates
    <3> HIDE DEF s
    <3>3. s[p] = "P_ZOMBIE"
      BY <2>1, <3>2
    <3>4. \A q \in Procs : state'[q] = "P_FREE" <=> state[q] = "P_FREE"
      BY <2>1, <3>1, <3>2, <3>3, ScheduleSlots
    <3> QED
      BY <3>4 DEF DoExit, SlotsKept, Used
  <2> QED
    BY <2>2, <2>3
<1> QED
  BY <1>1, <1>2 DEF DoExit

LEMMA StepSlots ==
    TypeOK /\ Structure /\ [Next]_vars => SlotsKept \/ SlotTaken \/ SlotFreed
<1> SUFFICES ASSUME TypeOK, Structure, [Next]_vars
             PROVE  SlotsKept \/ SlotTaken \/ SlotFreed
  OBVIOUS
<1> USE TableSize
<1>0. ASSUME UNCHANGED <<state, nproc>> PROVE SlotsKept
  BY <1>0 DEF SlotsKept, Used
<1>a. ASSUME NEW p \in Procs, curproc = p, NEW x \in {"P_SLEEPING", "P_STOPPED"},
             Schedule([state EXCEPT ![p] = x]), nproc' = nproc
      PROVE  SlotsKept
  <2>1. [state EXCEPT ![p] = x] \in [Procs -> ProcStates]
    BY DEF TypeOK, ProcStates
  <2>2. \A q \in Procs : state'[q] = "P_FREE" <=> state[q] = "P_FREE"
    BY <1>a, <2>1, ScheduleSlots DEF TypeOK
  <2> QED
    BY <1>a, <2>2 DEF SlotsKept, Used
<1>1. ASSUME NEW p \in UserProcs, SysExit(p) PROVE SlotsKept
  BY <1>1, ExitSlots DEF SysExit, At
<1>2. ASSUME NEW p \in UserProcs, SysVfork(p) PROVE SlotsKept \/ SlotTaken
  <2>1. ASSUME NEW c \in UserProcs, AllocPid(c), state' = VforkStates(p, c),
               nproc' = nproc + 1
        PROVE  SlotTaken
    <3>1. state[c] = "P_FREE" /\ p # c /\ state[p] # "P_FREE"
      BY <1>2, <2>1, AllocPidFacts DEF SysVfork, At, Structure, OneRunning
    <3>2. \A q \in Procs : state'[q] # "P_FREE" <=> q = c \/ state[q] # "P_FREE"
      BY <2>1, <3>1 DEF VforkStates, TypeOK
    <3>3. c \in Procs /\ c \notin Used /\ Used' = Used \cup {c}
      BY <3>1, <3>2 DEF Used
    <3> QED
      BY <2>1, <3>3 DEF SlotTaken
  <2> QED
    BY <1>0, <1>2, <2>1 DEF SysVfork
<1>3. ASSUME NEW p \in UserProcs, SysExec(p) PROVE SlotsKept
  <2>1. CASE ExecDetach(p)
    <3>1. \A q \in Procs : state'[q] = "P_FREE" <=> state[q] = "P_FREE"
      BY <1>3, <2>1 DEF ExecDetach, SysExec, At, Structure, OneRunning, TypeOK
    <3> QED
      BY <1>3, <3>1 DEF SysExec, SlotsKept, Used
  <2> QED
    BY <1>0, <1>3, <2>1 DEF SysExec, ExecInPlace
<1>4. ASSUME NEW p \in UserProcs, SysWaitpid(p) PROVE SlotsKept
  BY <1>0, <1>4 DEF SysWaitpid, tablevars
<1>5. ASSUME NEW p \in Procs, NEW pid, Reap(p, pid) PROVE SlotFreed
  <2>1. PICK q \in Procs : /\ state[q] = "P_ZOMBIE"
                           /\ state' = [state EXCEPT ![q] = "P_FREE"]
                           /\ nproc' = nproc - 1
    BY <1>5 DEF Reap, Reapable, Children
  <2>2. q \in Used /\ Used' = Used \ {q}
    BY <2>1 DEF Used, TypeOK
  <2> QED
    BY <2>1, <2>2 DEF SlotFreed
<1>6. ASSUME NEW p \in UserProcs, SysWaitpidNohang(p) PROVE SlotsKept \/ SlotFreed
  BY <1>0, <1>5, <1>6 DEF SysWaitpidNohang
<1>7. ASSUME NEW p \in Procs, WaitScan(p) PROVE SlotsKept \/ SlotFreed
  <2>1. curproc = p /\ "P_SLEEPING" \in {"P_SLEEPING", "P_STOPPED"}
    BY <1>7 DEF WaitScan, At
  <2> QED
    BY <1>0, <1>5, <1>7, <1>a, <2>1 DEF WaitScan
<1>8. ASSUME NEW p \in UserProcs, SysSignal(p) PROVE SlotsKept
  BY <1>0, <1>8 DEF SysSignal, tablevars
<1>9. ASSUME NEW p \in UserProcs, SysKill(p) PROVE SlotsKept
  <2>1. PICK s \in Signals, t \in Procs :
          state' = IF s = SIGCONT /\ state[t] = "P_STOPPED"
                   THEN [state EXCEPT ![t] = "P_READY"]
                   ELSE Wakeup(state, t)
    BY <1>9 DEF SysKill
  <2>2. \A q \in Procs : state'[q] = "P_FREE" <=> state[q] = "P_FREE"
    BY <2>1 DEF Wakeup, TypeOK
  <2> QED
    BY <1>9, <2>2 DEF SysKill, SlotsKept, Used
<1>10. ASSUME NEW p \in UserProcs, SigDeliver(p) PROVE SlotsKept
  <2>1. CASE SigDone(p)
    BY <1>0, <2>1 DEF SigDone, tablevars
  <2>2. ASSUME NEW s \in Signals, SigIgnore(p, s) PROVE SlotsKept
    BY <1>0, <2>2 DEF SigIgnore, tablevars
  <2>3. ASSUME NEW s \in Signals, SigTerminate(p, s) PROVE SlotsKept
    BY <2>3, ExitSlots DEF SigTerminate, TakeSignal, At
  <2>4. ASSUME NEW s \in Signals, SigStop(p, s) PROVE SlotsKept
    <3>1. curproc = p /\ "P_STOPPED" \in {"P_SLEEPING", "P_STOPPED"}
      BY <2>4 DEF SigStop, TakeSignal, At
    <3> QED
      BY <1>a, <2>4, <3>1 DEF SigStop
  <2>5. ASSUME NEW s \in Signals, SigCatch(p, s) PROVE SlotsKept
    BY <1>0, <2>5 DEF SigCatch, tablevars
  <2> QED
    BY <1>10, <2>1, <2>2, <2>3, <2>4, <2>5 DEF SigDeliver
<1>11. ASSUME NEW p \in UserProcs, TimerTick(p) PROVE SlotsKept
  <2>1. \A q \in Procs : state'[q] = "P_FREE" <=> state[q] = "P_FREE"
    BY <1>11, ScheduleSlots DEF TimerTick, TypeOK, Structure, OneRunning
  <2> QED
    BY <1>11, <2>1 DEF TimerTick, SlotsKept, Used
<1>12. ASSUME Spawn PROVE SlotTaken
  <2>1. PICK c \in UserProcs :
          /\ AllocPid(c)
          /\ state' = [state EXCEPT ![c] = "P_READY"]
          /\ nproc' = nproc + 1
    BY <1>12 DEF Spawn
  <2>2. state[c] = "P_FREE"
    BY <2>1, AllocPidFacts
  <2>3. c \in Procs /\ c \notin Used /\ Used' = Used \cup {c}
    BY <2>1, <2>2 DEF Used, TypeOK
  <2> QED
    BY <2>1, <2>3 DEF SlotTaken
<1>13. CASE KmainSpawn
  BY <1>0, <1>12, <1>13 DEF KmainSpawn, SpawnFails
<1>14. CASE ShellCommand
  BY <1>0, <1>12, <1>14 DEF ShellCommand, SpawnFails
<1>15. CASE ShellIdle
  <2>1. curproc = 0 /\ "P_SLEEPING" \in {"P_SLEEPING", "P_STOPPED"}
    BY <1>15 DEF ShellIdle, At
  <2> QED
    BY <1>0, <1>15, <1>a, <2>1 DEF ShellIdle
<1>17. ASSUME NEW p \in UserProcs, SysRead(p) \/ ReadReturns(p) PROVE SlotsKept
  BY <1>0, <1>17 DEF SysRead, ReadReturns, tablevars
<1>18. ASSUME NEW p \in UserProcs, ReadBlocks(p) PROVE SlotsKept
  <2>1. curproc = p /\ "P_SLEEPING" \in {"P_SLEEPING", "P_STOPPED"}
    BY <1>18 DEF ReadBlocks, At
  <2> QED
    BY <1>18, <1>a, <2>1 DEF ReadBlocks
<1>19. ASSUME NEW p \in Procs, WakeReader(p) PROVE SlotsKept
  <2>1. \A q \in Procs : state'[q] = "P_FREE" <=> state[q] = "P_FREE"
    BY <1>19 DEF WakeReader, Wakeup, TypeOK
  <2> QED
    BY <1>19, <2>1 DEF WakeReader, SlotsKept, Used
<1>16. CASE UNCHANGED vars
  BY <1>0, <1>16 DEF vars, tablevars
<1> QED
  BY <1>1, <1>2, <1>3, <1>4, <1>6, <1>7, <1>8, <1>9, <1>10, <1>11, <1>13, <1>14,
     <1>15, <1>16, <1>17, <1>18, <1>19 DEF Next, UserStep, KernelStep, Wild

LEMMA StepNproc ==
    TypeOK /\ Structure /\ NprocCounts /\ [Next]_vars => NprocCounts'
<1> SUFFICES ASSUME TypeOK, Structure, NprocCounts, [Next]_vars PROVE NprocCounts'
  OBVIOUS
<1>0. nproc = Cardinality(Used) /\ Cardinality(Used) \in Nat
  BY UsedFinite, FS_CardinalityType DEF NprocCounts, Used
<1> SUFFICES nproc' = Cardinality(Used')
  BY DEF NprocCounts, Used
<1>1. CASE SlotsKept
  BY <1>0, <1>1 DEF SlotsKept
<1>2. CASE SlotTaken
  <2>1. PICK c \in Procs : c \notin Used /\ Used' = Used \cup {c} /\ nproc' = nproc + 1
    BY <1>2 DEF SlotTaken
  <2>2. Cardinality(Used \cup {c}) = Cardinality(Used) + 1
    BY <2>1, UsedFinite, FS_AddElement
  <2> QED
    BY <1>0, <2>1, <2>2
<1>3. CASE SlotFreed
  <2>1. PICK q \in Procs : q \in Used /\ Used' = Used \ {q} /\ nproc' = nproc - 1
    BY <1>3 DEF SlotFreed
  <2>2. Cardinality(Used \ {q}) = Cardinality(Used) - 1
    BY <2>1, UsedFinite, FS_RemoveElement
  <2> QED
    BY <1>0, <2>1, <2>2
<1> QED
  BY <1>1, <1>2, <1>3, StepSlots

LEMMA InitNproc == Init => NprocCounts
<1> SUFFICES ASSUME Init PROVE NprocCounts
  OBVIOUS
<1>1. {p \in Procs : state[p] # "P_FREE"} = {0}
  BY TableSize DEF Init
<1>2. Cardinality({0}) = 1
  BY FS_Singleton
<1> QED
  BY <1>1, <1>2 DEF Init, NprocCounts

\* nproc counts the slots in use: every path that takes a slot counts it once,
\* and only waitpid() gives one back.
THEOREM NprocCorrect == Spec => []NprocCounts
<1>1. Init => TypeOK /\ Structure /\ NprocCounts
  BY InitType, InitStructure, InitNproc
<1>2. TypeOK /\ Structure /\ NprocCounts /\ [Next]_vars
         => (TypeOK /\ Structure /\ NprocCounts)'
  BY StepType, StepStructure, StepNproc
<1> QED
  BY <1>1, <1>2, PTL DEF Spec

-----------------------------------------------------------------------------
(* User mode and vfork, when no stop signal is sent *)

NoStopSignals == Signals \cap {SIGSTOP, SIGTSTP} = {}

\* schedule() returns only when nobody else is READY; else the process that
\* has the CPU is RUNNING.
LEMMA ScheduleRuns ==
    ASSUME NEW s \in [Procs -> ProcStates], curproc \in Procs, Schedule(s)
    PROVE  \/ /\ state' = s
              /\ curproc' = curproc
              /\ \A q \in Procs \ {curproc} : s[q] # "P_READY"
           \/ state'[curproc'] = "P_RUNNING"
<1>1. CASE Runnable(s) = {} /\ state' = s /\ curproc' = curproc
  BY <1>1 DEF Runnable
<1>2. CASE \E n \in Procs \ {curproc} :
                 /\ s[n] = "P_READY"
                 /\ state' = [s EXCEPT
                       ![curproc] = IF s[curproc] = "P_RUNNING" THEN "P_READY"
                                    ELSE s[curproc],
                       ![n] = "P_RUNNING"]
                 /\ curproc' = n
  BY <1>2
<1> QED
  BY <1>1, <1>2, ScheduleCases

Awake == {"P_RUNNING", "P_SLEEPING", "P_READY"}

\* A process in user mode or on its way there is RUNNING, or came back from a read.
LEMMA UserRuns ==
    ASSUME TypeOK, CurprocRuns, NEW p \in UserProcs, curproc = p, pc[p] \notin {"wait", "read"}
    PROVE  state[p] \in Awake /\ (state[p] = "P_RUNNING" \/ p \in dozing)
BY TableSize DEF CurprocRuns, Awake

\* A step after which curproc is RUNNING, and that stops nobody.
LEMMA RunningStep ==
    ASSUME TypeOK, CurprocRuns, state'[curproc'] = "P_RUNNING",
           \A q \in Procs : state'[q] = "P_STOPPED" => state[q] = "P_STOPPED",
           \A q \in UserProcs : state'[q] # "P_FREE" => ppid'[q] # q
    PROVE  CurprocRuns'
BY DEF CurprocRuns

\* A step in which curproc stays, and may be woken.
LEMMA StayStep ==
    ASSUME TypeOK, CurprocRuns, NEW p \in UserProcs, curproc = p,
           state[p] = "P_RUNNING" \/ p \in dozing, UNCHANGED <<curproc, ppid, dozing>>,
           \/ state'[p] = state[p]
           \/ state[p] = "P_SLEEPING" /\ state'[p] = "P_READY",
           \A q \in Procs : state'[q] = "P_STOPPED" => state[q] = "P_STOPPED",
           \A q \in Procs : state'[q] # "P_FREE" => state[q] # "P_FREE"
    PROVE  CurprocRuns'
BY TableSize DEF CurprocRuns

\* The parent of a process that exits is another process, alive, and not
\* RUNNING.
LEMMA ExitingParent ==
    ASSUME TypeOK, Structure, CurprocRuns, NEW p \in UserProcs, curproc = p,
           state[p] \in Awake
    PROVE  /\ ppid[p] \in Procs \ {p}
           /\ state[ppid[p]] \in {"P_READY", "P_SLEEPING", "P_VFORK"}
<1>1. ppid[p] \in Procs /\ ppid[p] # p /\ p \in Procs
  BY TableSize DEF TypeOK, CurprocRuns
<1>2. state[ppid[p]] \in ProcStates
  BY <1>1 DEF TypeOK
<1>3. state[ppid[p]] \notin {"P_FREE", "P_ZOMBIE", "P_RUNNING", "P_STOPPED"}
  BY <1>1 DEF Structure, OneRunning, ParentAlive, CurprocRuns
<1> QED
  BY <1>1, <1>2, <1>3 DEF ProcStates

\* do_exit() does not come back to the process that called it: its parent is
\* resumed from vfork, or can be scheduled.
LEMMA ExitLeaves ==
    ASSUME TypeOK, Structure, CurprocRuns, NEW p \in UserProcs, curproc = p,
           state[p] \in Awake, NEW point, ExitProcess(p, point)
    PROVE  /\ state'[curproc'] = "P_RUNNING"
           /\ state'[p] = "P_ZOMBIE"
           /\ \A q \in Procs \ {p} :
                 /\ state'[q] = "P_FREE" <=> state[q] = "P_FREE"
                 /\ state'[q] = "P_ZOMBIE" <=> state[q] = "P_ZOMBIE"
                 /\ state'[q] = "P_STOPPED" => state[q] = "P_STOPPED"
                 /\ state'[q] = "P_VFORK" <=> state[q] = "P_VFORK" /\ q # ppid[p]
           /\ ppid' = [q \in Procs |-> IF state[q] # "P_FREE" /\ ppid[q] = p THEN 0
                                       ELSE ppid[q]]
<1> DEFINE zombie == [state EXCEPT ![p] = "P_ZOMBIE"]
           parent == ppid[p]
<1>1. /\ p \in Procs
      /\ zombie \in [Procs -> ProcStates]
      /\ zombie[p] = "P_ZOMBIE"
      /\ \A q \in Procs : q # p => zombie[q] = state[q]
  BY TableSize DEF TypeOK, ProcStates
<1>2. parent \in Procs \ {p} /\ state[parent] \in {"P_READY", "P_SLEEPING", "P_VFORK"}
  BY ExitingParent
<1>3. ppid' = [q \in Procs |-> IF state[q] # "P_FREE" /\ ppid[q] = p THEN 0
                               ELSE ppid[q]]
  BY <1>1 DEF ExitProcess, Reparent, Awake
<1>4. CASE state[parent] = "P_VFORK"
  <2>1. state' = [zombie EXCEPT ![parent] = "P_RUNNING"] /\ curproc' = parent
    BY <1>1, <1>2, <1>4 DEF ExitProcess
  <2>2. \A q \in Procs : state'[q] = IF q = parent THEN "P_RUNNING" ELSE zombie[q]
    BY <1>1, <2>1
  <2> QED
    BY <1>1, <1>2, <1>3, <1>4, <2>1, <2>2 DEF Awake
<1>5. CASE state[parent] # "P_VFORK"
  <2> DEFINE s == NotifyParent(zombie, parent)
  <2>1. Schedule(s)
    BY <1>1, <1>2, <1>5 DEF ExitProcess
  <2>2. /\ s \in [Procs -> ProcStates]
        /\ \A q \in Procs \ {parent} : s[q] = zombie[q]
        /\ s[parent] = "P_READY"
    BY <1>1, <1>2, <1>5 DEF NotifyParent, Wakeup, ProcStates
  <2>3. /\ \A q \in Procs : s[q] = "P_RUNNING" => q = curproc
        /\ s[curproc] = "P_ZOMBIE"
    BY <1>1, <1>2, <2>2 DEF Structure, OneRunning
  <2> HIDE DEF s
  <2>4. \A q \in Procs :
            /\ state'[q] = "P_FREE" <=> s[q] = "P_FREE"
            /\ state'[q] = "P_ZOMBIE" <=> s[q] = "P_ZOMBIE"
            /\ state'[q] = "P_VFORK" <=> s[q] = "P_VFORK"
            /\ state'[q] = "P_STOPPED" <=> s[q] = "P_STOPPED"
    BY <1>1, <2>1, <2>2, <2>3, ScheduleKeeps
  <2>5. state'[curproc'] = "P_RUNNING"
    BY <1>1, <1>2, <2>1, <2>2, ScheduleRuns
  <2> QED
    BY <1>1, <1>2, <1>3, <1>5, <2>2, <2>3, <2>4, <2>5 DEF Awake
<1> QED
  BY <1>4, <1>5

LEMMA ExitCurprocRuns ==
    ASSUME TypeOK, Structure, CurprocRuns, NEW p \in UserProcs, curproc = p,
           pc[p] \notin {"wait", "read"}, NEW point, DoExit(p, point)
    PROVE  CurprocRuns'
<1>0. state[p] \in Awake /\ (state[p] = "P_RUNNING" \/ p \in dozing) /\ dozing' = dozing
  BY UserRuns DEF DoExit
<1>1. CASE ExecLeave(p)
  BY <1>0, <1>1, StayStep DEF ExecLeave
<1>2. CASE ExitProcess(p, point)
  <2>1. \A q \in UserProcs : state'[q] # "P_FREE" => ppid'[q] # q
    BY <1>0, <1>2, ExitLeaves, TableSize DEF CurprocRuns
  <2>2. \A q \in Procs : state'[q] = "P_STOPPED" => state[q] = "P_STOPPED"
    BY <1>0, <1>2, ExitLeaves
  <2> QED
    BY <1>0, <1>2, <2>1, <2>2, ExitLeaves, RunningStep
<1> QED
  BY <1>1, <1>2 DEF DoExit

LEMMA StepCurprocRuns ==
    NoStopSignals /\ TypeOK /\ Structure /\ CurprocRuns /\ [Next]_vars => CurprocRuns'
<1> SUFFICES ASSUME NoStopSignals, TypeOK, Structure, CurprocRuns, [Next]_vars
             PROVE  CurprocRuns'
  OBVIOUS
<1> USE TableSize
<1>0. ASSUME NEW p \in UserProcs, At(p, "user") \/ At(p, "sig")
      PROVE  /\ curproc = p /\ pc[p] \notin {"wait", "read"}
             /\ state[p] \in Awake /\ (state[p] = "P_RUNNING" \/ p \in dozing)
  BY <1>0, UserRuns DEF At
<1>a. ASSUME NEW p \in UserProcs, At(p, "user") \/ At(p, "sig"),
             UNCHANGED <<state, curproc, ppid, dozing>>
      PROVE  CurprocRuns'
  BY <1>0, <1>a, StayStep
<1>1. ASSUME NEW p \in UserProcs, SysExit(p) PROVE CurprocRuns'
  BY <1>0, <1>1, ExitCurprocRuns DEF SysExit
<1>2. ASSUME NEW p \in UserProcs, SysVfork(p) PROVE CurprocRuns'
  <2>1. ASSUME NEW c \in UserProcs,
               AllocPid(c),
               state' = VforkStates(p, c),
               ppid' = [ppid EXCEPT ![c] = p],
               curproc' = c
        PROVE  CurprocRuns'
    <3>1. state[c] = "P_FREE" /\ p # c /\ curproc = p
      BY <1>0, <1>2, <2>1, AllocPidFacts DEF SysVfork, Awake
    <3>2. \A q \in Procs : state'[q] = IF q = p THEN "P_VFORK" ELSE
                                       IF q = c THEN "P_RUNNING" ELSE state[q]
      BY <2>1, <3>1 DEF VforkStates, TypeOK
    <3>3. \A q \in UserProcs : state'[q] # "P_FREE" => ppid'[q] # q
      BY <1>0, <1>2, <2>1, <3>1, <3>2 DEF CurprocRuns, TypeOK, SysVfork
    <3> QED
      BY <2>1, <3>1, <3>2, <3>3, RunningStep
  <2>2. CASE UNCHANGED <<state, curproc, ppid, dozing>>
    BY <1>2, <1>a, <2>2 DEF SysVfork
  <2> QED
    BY <1>2, <2>1, <2>2 DEF SysVfork
<1>3. ASSUME NEW p \in UserProcs, SysExec(p) PROVE CurprocRuns'
  <2>1. CASE ExecDetach(p)
    <3> DEFINE v == ppid[p]
    <3>1. v \in Procs /\ p # v /\ curproc' = v /\ ppid' = ppid
      BY <1>0, <1>3, <2>1 DEF ExecDetach, SysExec, TypeOK
    <3>2. \A q \in Procs : state'[q] = IF q = v THEN "P_RUNNING" ELSE
                                       IF q = p THEN "P_READY" ELSE state[q]
      BY <2>1, <3>1 DEF ExecDetach, TypeOK
    <3>3. \A q \in UserProcs : state'[q] # "P_FREE" => ppid'[q] # q
      BY <1>0, <1>3, <2>1, <3>1, <3>2 DEF CurprocRuns, SysExec, ExecDetach
    <3> QED
      BY <3>1, <3>2, <3>3, RunningStep
  <2>2. CASE UNCHANGED <<state, curproc>>
    BY <1>3, <1>a, <2>2 DEF SysExec
  <2> QED
    BY <1>3, <2>1, <2>2 DEF SysExec, ExecInPlace
<1>4. ASSUME NEW p \in UserProcs, SysWaitpid(p) PROVE CurprocRuns'
  BY <1>4, <1>a DEF SysWaitpid, tablevars
<1>5. ASSUME NEW p \in Procs, curproc = p, NEW pid, Reap(p, pid),
             UNCHANGED <<curproc, ppid, dozing>>,
             p = 0 \/ state[p] = "P_RUNNING" \/ p \in dozing
      PROVE  CurprocRuns'
  <2>1. PICK q \in Procs : /\ state[q] = "P_ZOMBIE"
                           /\ state' = [state EXCEPT ![q] = "P_FREE"]
    BY <1>5 DEF Reap, Reapable, Children
  <2>2. q # p
    BY <1>5, <2>1 DEF CurprocRuns
  <2>3. /\ state'[p] = state[p]
        /\ \A r \in Procs : state'[r] = "P_STOPPED" => state[r] = "P_STOPPED"
        /\ \A r \in Procs : state'[r] # "P_FREE" => state[r] # "P_FREE"
    BY <2>1, <2>2 DEF TypeOK
  <2>4. CASE p = 0
    BY <1>5, <2>3, <2>4 DEF CurprocRuns
  <2>5. CASE p # 0
    BY <1>5, <2>3, <2>5, StayStep
  <2> QED
    BY <2>4, <2>5
<1>6. ASSUME NEW p \in UserProcs, SysWaitpidNohang(p) PROVE CurprocRuns'
  BY <1>0, <1>5, <1>6, <1>a DEF SysWaitpidNohang
<1>7. ASSUME NEW p \in Procs, Schedule([state EXCEPT ![p] = "P_SLEEPING"]),
             curproc = p, ppid' = ppid,
             p # 0 => /\ UNCHANGED <<pc, arg>>
                      /\ \/ pc[p] = "read"
                         \/ /\ pc[p] = "wait"
                            /\ Children(p) # {}
                            /\ Reapable(p, arg[p]) = {}
      PROVE  CurprocRuns'
  <2> DEFINE s == [state EXCEPT ![p] = "P_SLEEPING"]
  <2>1. /\ s \in [Procs -> ProcStates]
        /\ s[p] = "P_SLEEPING"
        /\ \A q \in Procs : q # p => s[q] = state[q]
    BY DEF TypeOK, ProcStates
  <2>2. /\ \A q \in Procs : s[q] = "P_RUNNING" => q = curproc
        /\ s[curproc] \notin {"P_FREE", "P_VFORK"}
        /\ state[p] \in {"P_RUNNING", "P_SLEEPING", "P_READY"}
    BY <1>7, <2>1 DEF Structure, OneRunning, CurprocRuns
  <2>3. Schedule(s)
    BY <1>7
  <2> HIDE DEF s
  <2>4. \A q \in Procs : /\ state'[q] = "P_FREE" <=> state[q] = "P_FREE"
                         /\ state'[q] = "P_ZOMBIE" <=> state[q] = "P_ZOMBIE"
                         /\ state'[q] = "P_STOPPED" <=> state[q] = "P_STOPPED"
    BY <1>7, <2>1, <2>2, <2>3, ScheduleKeeps
  <2>5. CASE state'[curproc'] = "P_RUNNING"
    BY <1>7, <2>4, <2>5, RunningStep DEF CurprocRuns
  <2>6. CASE state' = s /\ curproc' = curproc
    <3>1. p # 0 /\ pc[p] = "wait" => Children(p)' # {} /\ Reapable(p, arg[p])' = {}
      <4> SUFFICES ASSUME p # 0, pc[p] = "wait"
                   PROVE  Children(p)' # {} /\ Reapable(p, arg[p])' = {}
        OBVIOUS
      <4>1. Children(p)' = Children(p)
        BY <1>7, <2>4 DEF Children
      <4>2. Reapable(p, arg[p])' = Reapable(p, arg[p])
        BY <1>7, <2>4 DEF Reapable, Children
      <4> QED
        BY <1>7, <4>1, <4>2
    <3>2. /\ curproc' = p /\ state'[p] = "P_SLEEPING"
          /\ p # 0 => pc' = pc /\ pc[p] \in {"wait", "read"}
      BY <1>7, <2>1, <2>6
    <3> QED
      BY <1>7, <2>4, <3>1, <3>2 DEF CurprocRuns
  <2> QED
    BY <2>1, <2>3, <2>5, <2>6, ScheduleRuns, <1>7
<1>8. ASSUME NEW p \in Procs, WaitScan(p) PROVE CurprocRuns'
  <2>0. curproc = p /\ pc[p] = "wait" /\ ppid' = ppid /\ dozing' = dozing
    BY <1>8 DEF WaitScan, At
  <2>1. CASE Reap(p, arg[p]) /\ UNCHANGED curproc
    <3>1. Reapable(p, arg[p]) # {}
      BY <2>1 DEF Reap
    <3>2. p = 0 \/ state[p] = "P_RUNNING" \/ p \in dozing
      BY <2>0, <3>1 DEF CurprocRuns
    <3> QED
      BY <1>5, <2>0, <2>1, <3>2
  <2>2. CASE Children(p) = {} /\ UNCHANGED <<state, curproc, nproc>>
    <3>1. p = 0 \/ state[p] = "P_RUNNING" \/ p \in dozing
      BY <2>0, <2>2 DEF CurprocRuns
    <3> QED
      BY <2>0, <2>2, <3>1 DEF CurprocRuns
  <2>3. CASE /\ Children(p) # {}
             /\ Reapable(p, arg[p]) = {}
             /\ Schedule([state EXCEPT ![p] = "P_SLEEPING"])
             /\ UNCHANGED <<pc, arg, nproc>>
    BY <1>7, <2>0, <2>3
  <2> QED
    BY <1>8, <2>1, <2>2, <2>3 DEF WaitScan
<1>9. ASSUME NEW p \in UserProcs, SysSignal(p) PROVE CurprocRuns'
  BY <1>9, <1>a DEF SysSignal, tablevars
<1>10. ASSUME NEW p \in UserProcs, SysKill(p) PROVE CurprocRuns'
  <2>1. PICK s \in Signals, t \in Procs :
          state' = IF s = SIGCONT /\ state[t] = "P_STOPPED"
                   THEN [state EXCEPT ![t] = "P_READY"]
                   ELSE Wakeup(state, t)
    BY <1>10 DEF SysKill
  <2>2. \A q \in Procs : \/ state'[q] = state[q]
                         \/ /\ state[q] \in {"P_STOPPED", "P_SLEEPING"}
                            /\ state'[q] = "P_READY"
    BY <2>1 DEF Wakeup, TypeOK
  <2>3. UNCHANGED <<curproc, ppid, dozing>> /\ curproc = p
        /\ state[p] \in Awake /\ (state[p] = "P_RUNNING" \/ p \in dozing)
    BY <1>0, <1>10 DEF SysKill
  <2> QED
    BY <2>2, <2>3, StayStep DEF Awake
<1>11. ASSUME NEW p \in UserProcs, SigDeliver(p) PROVE CurprocRuns'
  <2>1. CASE SigDone(p)
    BY <1>a, <2>1 DEF SigDone, tablevars
  <2>2. ASSUME NEW s \in Signals, SigIgnore(p, s) PROVE CurprocRuns'
    BY <1>a, <2>2 DEF SigIgnore, TakeSignal, tablevars
  <2>3. ASSUME NEW s \in Signals, SigTerminate(p, s) PROVE CurprocRuns'
    BY <1>0, <2>3, ExitCurprocRuns DEF SigTerminate, TakeSignal
  <2>4. ASSUME NEW s \in Signals, SigStop(p, s) PROVE FALSE
    BY <2>4 DEF SigStop, Fate, SignalFate, NoStopSignals, SIGSTOP, SIGTSTP, SIGKILL,
       SIGCHLD, SIGCONT
  <2>5. ASSUME NEW s \in Signals, SigCatch(p, s) PROVE CurprocRuns'
    BY <1>a, <2>5 DEF SigCatch, TakeSignal, tablevars
  <2> QED
    BY <1>11, <2>1, <2>2, <2>3, <2>4, <2>5 DEF SigDeliver
<1>12. ASSUME NEW p \in UserProcs, TimerTick(p) PROVE CurprocRuns'
  <2>1. Schedule(state) /\ UNCHANGED <<ppid, dozing>> /\ curproc = p
        /\ state[p] \in Awake /\ (state[p] = "P_RUNNING" \/ p \in dozing)
    BY <1>0, <1>12 DEF TimerTick
  <2>2. \A q \in Procs : /\ state'[q] = "P_FREE" <=> state[q] = "P_FREE"
                         /\ state'[q] = "P_STOPPED" <=> state[q] = "P_STOPPED"
    BY <2>1, ScheduleKeeps DEF TypeOK, Structure, OneRunning
  <2>3. (state' = state /\ curproc' = curproc) \/ state'[curproc'] = "P_RUNNING"
    BY <2>1, ScheduleRuns DEF TypeOK
  <2>4. CASE state' = state /\ curproc' = curproc
    BY <2>1, <2>4, StayStep
  <2>5. CASE state'[curproc'] = "P_RUNNING"
    BY <2>1, <2>2, <2>5, RunningStep DEF CurprocRuns
  <2> QED
    BY <2>3, <2>4, <2>5
<1>13. ASSUME UNCHANGED <<state, curproc, ppid>>, At(0, "kmain") PROVE CurprocRuns'
  BY <1>13 DEF At, CurprocRuns
<1>14. ASSUME Spawn, At(0, "kmain") PROVE CurprocRuns'
  <2>1. PICK c \in UserProcs :
          /\ AllocPid(c)
          /\ state' = [state EXCEPT ![c] = "P_READY"]
          /\ ppid' = [ppid EXCEPT ![c] = 0]
    BY <1>14 DEF Spawn
  <2> QED
    BY <1>14, <2>1 DEF Spawn, At, CurprocRuns, TypeOK
<1>15. CASE KmainSpawn
  BY <1>13, <1>14, <1>15 DEF KmainSpawn, SpawnFails
<1>16. CASE ShellCommand
  BY <1>13, <1>14, <1>16 DEF ShellCommand, SpawnFails
<1>17. CASE ShellIdle
  BY <1>7, <1>13, <1>17 DEF ShellIdle, At
<1>19. ASSUME NEW p \in UserProcs, SysRead(p) PROVE CurprocRuns'
  BY <1>19, <1>a DEF SysRead, tablevars
<1>20. ASSUME NEW p \in UserProcs, ReadBlocks(p) PROVE CurprocRuns'
  BY <1>7, <1>20 DEF ReadBlocks, At
<1>21. ASSUME NEW p \in UserProcs, ReadReturns(p) PROVE CurprocRuns'
  <2>1. /\ curproc = p /\ UNCHANGED <<state, curproc, ppid>>
        /\ state[p] # "P_RUNNING" => p \in dozing'
    BY <1>21 DEF ReadReturns, At, tablevars
  <2> QED
    BY <2>1 DEF CurprocRuns
<1>22. ASSUME NEW p \in Procs, WakeReader(p) PROVE CurprocRuns'
  <2>1. /\ UNCHANGED <<curproc, ppid, pc, arg, dozing>> /\ pc[p] \in {"read", "kmain"}
        /\ state[p] = "P_SLEEPING" /\ state'[p] = "P_READY"
        /\ \A q \in Procs : q # p => state'[q] = state[q]
    BY <1>22 DEF WakeReader, Wakeup, TypeOK
  <2>2. \A q \in Procs : /\ state'[q] = "P_FREE" <=> state[q] = "P_FREE"
                         /\ state'[q] = "P_ZOMBIE" <=> state[q] = "P_ZOMBIE"
                         /\ state'[q] = "P_STOPPED" <=> state[q] = "P_STOPPED"
    BY <2>1
  <2>3. /\ Children(curproc)' = Children(curproc)
        /\ Reapable(curproc, arg[curproc])' = Reapable(curproc, arg[curproc])
    BY <2>1, <2>2 DEF Children, Reapable
  <2>4. curproc # 0 /\ curproc = p => pc[curproc] = "read"
    BY <2>1 DEF Structure, ZeroIsKernel, TypeOK
  <2>5. curproc # p => state'[curproc] = state[curproc]
    BY <2>1 DEF TypeOK
  <2> QED
    BY <2>1, <2>2, <2>3, <2>4, <2>5 DEF CurprocRuns
<1>18. CASE UNCHANGED vars
  BY <1>18 DEF vars, tablevars, CurprocRuns, Children, Reapable
<1> QED
  BY <1>1, <1>2, <1>3, <1>4, <1>6, <1>8, <1>9, <1>10, <1>11, <1>12, <1>15,
     <1>16, <1>17, <1>18, <1>19, <1>20, <1>21, <1>22 DEF Next, UserStep, KernelStep, Wild
LEMMA InitCurprocRuns == Init => CurprocRuns
BY TableSize DEF Init, CurprocRuns

\* As long as nobody sends stop signals, user code runs only in a process that
\* is marked RUNNING, or that tty_read() came back to when nobody else was READY;
\* above all, do_exit() never returns to a dead program, because a parent that is
\* alive and not RUNNING can always take over.
THEOREM UserModeRuns == NoStopSignals /\ Spec => []UserModeIsRunning
<1> SUFFICES ASSUME NoStopSignals PROVE Spec => []UserModeIsRunning
  OBVIOUS
<1> DEFINE IInv == TypeOK /\ Structure /\ CurprocRuns
<1>1. Init => IInv
  BY InitType, InitStructure, InitCurprocRuns
<1>2. IInv /\ [Next]_vars => IInv'
  BY StepType, StepStructure, StepCurprocRuns
<1>3. IInv => UserModeIsRunning
  <2> SUFFICES ASSUME IInv, pc[curproc] = "user"
               PROVE  \/ state[curproc] = "P_RUNNING"
                      \/ curproc \in dozing /\ state[curproc] \in {"P_SLEEPING", "P_READY"}
    BY DEF UserModeIsRunning
  <2>1. curproc # 0
    BY DEF Structure, ZeroIsKernel
  <2> QED
    BY <2>1 DEF CurprocRuns
<1> QED
  BY <1>1, <1>2, <1>3, PTL DEF Spec
-----------------------------------------------------------------------------
(* What the other steps do *)

\* Nobody starts, dies, is reaped, freezes or thaws.
Quiet ==
    /\ \A q \in Procs : /\ state'[q] = "P_FREE" <=> state[q] = "P_FREE"
                        /\ state'[q] = "P_ZOMBIE" <=> state[q] = "P_ZOMBIE"
                        /\ state'[q] = "P_VFORK" <=> state[q] = "P_VFORK"
    /\ UNCHANGED <<ppid, aspace, exec_active>>

\* curproc reaps one of its zombies.
Reaps ==
    /\ \E q \in Procs : /\ state[q] = "P_ZOMBIE" /\ ppid[q] = curproc
                        /\ state' = [state EXCEPT ![q] = "P_FREE"]
    /\ UNCHANGED <<ppid, aspace, exec_active>>

Exits == \E p \in UserProcs, point \in {"sig", "user"} :
            /\ curproc = p /\ state[p] \in Awake
            /\ DoExit(p, point)

Vforks == \E p \in UserProcs : SysVfork(p) /\ ~Quiet
Execs == \E p \in UserProcs : SysExec(p) /\ ~Quiet
Spawns == At(0, "kmain") /\ Spawn

LEMMA BlockQuiet ==
    ASSUME TypeOK, Structure, CurprocRuns, curproc \in Procs,
           NEW x \in Awake,
           Schedule([state EXCEPT ![curproc] = x]),
           UNCHANGED <<ppid, aspace, exec_active>>
    PROVE  Quiet
<1> DEFINE s == [state EXCEPT ![curproc] = x]
<1>1. /\ s \in [Procs -> ProcStates]
      /\ s[curproc] = x
      /\ \A q \in Procs : q # curproc => s[q] = state[q]
  BY DEF TypeOK, ProcStates, Awake
<1>2. /\ \A q \in Procs : s[q] = "P_RUNNING" => q = curproc
      /\ s[curproc] \notin {"P_FREE", "P_VFORK"}
      /\ state[curproc] \in Awake
  BY <1>1 DEF Structure, OneRunning, CurprocRuns, Awake
<1>3. Schedule(s)
  OBVIOUS
<1> HIDE DEF s
<1>4. \A q \in Procs :
          /\ state'[q] = "P_FREE" <=> s[q] = "P_FREE"
          /\ state'[q] = "P_ZOMBIE" <=> s[q] = "P_ZOMBIE"
          /\ state'[q] = "P_VFORK" <=> s[q] = "P_VFORK"
  BY <1>1, <1>2, <1>3, ScheduleKeeps
<1> QED
  BY <1>1, <1>2, <1>4 DEF Quiet, Awake

LEMMA StepKinds ==
    ASSUME NoStopSignals, TypeOK, Structure, CurprocRuns, [Next]_vars
    PROVE  Quiet \/ Reaps \/ Exits \/ Vforks \/ Execs \/ Spawns
<1> USE TableSize
<1>0. ASSUME UNCHANGED <<state, ppid, aspace, exec_active>> PROVE Quiet
  BY <1>0 DEF Quiet
<1>a. ASSUME NEW p \in UserProcs, At(p, "user") \/ At(p, "sig")
      PROVE  curproc = p /\ state[p] \in Awake
  BY <1>a, UserRuns DEF At
<1>1. ASSUME NEW p \in UserProcs, SysExit(p) PROVE Exits
  BY <1>1, <1>a DEF SysExit, Exits
<1>2. ASSUME NEW p \in UserProcs, SysVfork(p) PROVE Quiet \/ Vforks
  BY <1>2 DEF Vforks
<1>3. ASSUME NEW p \in UserProcs, SysExec(p) PROVE Quiet \/ Execs
  BY <1>3 DEF Execs
<1>4. ASSUME NEW p \in UserProcs, SysWaitpid(p) PROVE Quiet
  BY <1>0, <1>4 DEF SysWaitpid, tablevars
<1>5. ASSUME NEW p \in Procs, curproc = p, NEW pid, Reap(p, pid),
             UNCHANGED <<ppid, aspace, exec_active>>
      PROVE  Reaps
  BY <1>5 DEF Reap, Reapable, Children, Reaps
<1>6. ASSUME NEW p \in UserProcs, SysWaitpidNohang(p) PROVE Quiet \/ Reaps
  BY <1>0, <1>5, <1>6, <1>a DEF SysWaitpidNohang
<1>7. ASSUME NEW p \in Procs, WaitScan(p) PROVE Quiet \/ Reaps
  <2>1. /\ curproc = p /\ UNCHANGED <<ppid, aspace, exec_active>>
        /\ "P_SLEEPING" \in Awake
    BY <1>7 DEF WaitScan, At, Awake
  <2>2. CASE Schedule([state EXCEPT ![p] = "P_SLEEPING"])
    BY <2>1, <2>2, BlockQuiet
  <2> QED
    BY <1>0, <1>5, <1>7, <2>1, <2>2 DEF WaitScan
<1>8. ASSUME NEW p \in UserProcs, SysSignal(p) PROVE Quiet
  BY <1>0, <1>8 DEF SysSignal, tablevars
<1>9. ASSUME NEW p \in UserProcs, SysKill(p) PROVE Quiet
  <2>1. PICK s \in Signals, t \in Procs :
          state' = IF s = SIGCONT /\ state[t] = "P_STOPPED"
                   THEN [state EXCEPT ![t] = "P_READY"]
                   ELSE Wakeup(state, t)
    BY <1>9 DEF SysKill
  <2>2. \A q \in Procs : /\ state'[q] = "P_FREE" <=> state[q] = "P_FREE"
                         /\ state'[q] = "P_ZOMBIE" <=> state[q] = "P_ZOMBIE"
                         /\ state'[q] = "P_VFORK" <=> state[q] = "P_VFORK"
    BY <2>1 DEF Wakeup, TypeOK
  <2> QED
    BY <1>9, <2>2 DEF SysKill, Quiet
<1>10. ASSUME NEW p \in UserProcs, SigDeliver(p) PROVE Quiet \/ Exits
  <2>1. CASE SigDone(p)
    BY <1>0, <2>1 DEF SigDone, tablevars
  <2>2. ASSUME NEW s \in Signals, SigIgnore(p, s) PROVE Quiet
    BY <1>0, <2>2 DEF SigIgnore, tablevars
  <2>3. ASSUME NEW s \in Signals, SigTerminate(p, s) PROVE Exits
    BY <1>a, <2>3 DEF SigTerminate, TakeSignal, Exits
  <2>4. ASSUME NEW s \in Signals, SigStop(p, s) PROVE FALSE
    BY <2>4 DEF SigStop, Fate, SignalFate, NoStopSignals, SIGSTOP, SIGTSTP, SIGKILL,
       SIGCHLD, SIGCONT
  <2>5. ASSUME NEW s \in Signals, SigCatch(p, s) PROVE Quiet
    BY <1>0, <2>5 DEF SigCatch, tablevars
  <2> QED
    BY <1>10, <2>1, <2>2, <2>3, <2>4, <2>5 DEF SigDeliver
<1>11. ASSUME NEW p \in UserProcs, TimerTick(p) PROVE Quiet
  <2>1. /\ curproc \in Procs /\ state[curproc] \in Awake
        /\ Schedule(state) /\ UNCHANGED <<ppid, aspace, exec_active>>
    BY <1>11, <1>a DEF TimerTick
  <2>2. state = [state EXCEPT ![curproc] = state[curproc]]
    BY <2>1 DEF TypeOK
  <2> QED
    BY <2>1, <2>2, BlockQuiet
<1>12. CASE KmainSpawn
  BY <1>0, <1>12 DEF KmainSpawn, SpawnFails, Spawns
<1>13. CASE ShellCommand
  BY <1>0, <1>13 DEF ShellCommand, SpawnFails, Spawns
<1>14. CASE ShellIdle
  <2>1. /\ curproc = 0 /\ UNCHANGED <<ppid, aspace, exec_active>>
        /\ "P_SLEEPING" \in Awake
    BY <1>14 DEF ShellIdle, At, Awake
  <2>2. CASE Schedule([state EXCEPT ![0] = "P_SLEEPING"])
    BY <2>1, <2>2, BlockQuiet
  <2> QED
    BY <1>0, <1>14, <2>1, <2>2 DEF ShellIdle
<1>16. ASSUME NEW p \in UserProcs, SysRead(p) \/ ReadReturns(p) PROVE Quiet
  BY <1>0, <1>16 DEF SysRead, ReadReturns, tablevars
<1>17. ASSUME NEW p \in UserProcs, ReadBlocks(p) PROVE Quiet
  <2>1. /\ curproc = p /\ UNCHANGED <<ppid, aspace, exec_active>>
        /\ "P_SLEEPING" \in Awake /\ Schedule([state EXCEPT ![p] = "P_SLEEPING"])
    BY <1>17 DEF ReadBlocks, At, Awake
  <2> QED
    BY <2>1, BlockQuiet
<1>18. ASSUME NEW p \in Procs, WakeReader(p) PROVE Quiet
  BY <1>18 DEF WakeReader, Wakeup, TypeOK, Quiet
<1>15. CASE UNCHANGED vars
  BY <1>0, <1>15 DEF vars, tablevars
<1> QED
  BY <1>1, <1>2, <1>3, <1>4, <1>6, <1>7, <1>8, <1>9, <1>10, <1>11, <1>12, <1>13,
     <1>14, <1>15, <1>16, <1>17, <1>18 DEF Next, UserStep, KernelStep, Wild

\* vfork() that found a slot.
LEMMA VforkEffect ==
    ASSUME TypeOK, Structure, CurprocRuns, Vforks
    PROVE  \E p, c \in UserProcs :
              /\ p # c /\ curproc = p
              /\ state[p] \in Awake /\ state[c] = "P_FREE"
              /\ Background \/ (LiveChildren(p) = {} /\ aspace[p] = p)
              /\ \A q \in Procs : state'[q] = IF q = p THEN "P_VFORK" ELSE
                                               IF q = c THEN "P_RUNNING" ELSE state[q]
              /\ ppid' = [ppid EXCEPT ![c] = p]
              /\ aspace' = [aspace EXCEPT ![c] = aspace[p]]
              /\ exec_active' = exec_active
<1>1. PICK p \in UserProcs : SysVfork(p) /\ ~Quiet
  BY DEF Vforks
<1>2. curproc = p /\ state[p] \in Awake
  BY <1>1, UserRuns DEF SysVfork, At
<1>3. PICK c \in UserProcs :
             /\ AllocPid(c)
             /\ state' = VforkStates(p, c)
             /\ ppid' = [ppid EXCEPT ![c] = p]
             /\ aspace' = [aspace EXCEPT ![c] = aspace[p]]
  BY <1>1 DEF SysVfork, Quiet
<1>4. state[c] = "P_FREE" /\ p # c
  BY <1>2, <1>3, AllocPidFacts DEF Awake
<1>5. \A q \in Procs : state'[q] = IF q = p THEN "P_VFORK" ELSE
                                   IF q = c THEN "P_RUNNING" ELSE state[q]
  BY <1>3, <1>4, TableSize DEF VforkStates, TypeOK
<1> QED
  BY <1>1, <1>2, <1>3, <1>4, <1>5 DEF SysVfork

\* exec() that thaws the caller's parent.
LEMMA ExecEffect ==
    ASSUME TypeOK, Structure, CurprocRuns, Execs
    PROVE  \E p \in UserProcs :
              /\ curproc = p /\ state[p] \in Awake
              /\ InPlaceExec \/ aspace[p] # p
              /\ ppid' = ppid
              /\ aspace' = [aspace EXCEPT ![p] = p]
              /\ \/ state[ppid[p]] # "P_VFORK" /\ state' = state
                 \/ /\ state[ppid[p]] = "P_VFORK"
                    /\ ppid[p] # p
                    /\ exec_active' = exec_active
                    /\ \A q \in Procs : state'[q] =
                          IF q = ppid[p] THEN "P_RUNNING" ELSE
                          IF q = p THEN "P_READY" ELSE state[q]
<1>1. PICK p \in UserProcs : SysExec(p) /\ ~Quiet
  BY DEF Execs
<1>2. curproc = p /\ state[p] \in Awake /\ p \in Procs /\ ppid[p] \in Procs
  BY <1>1, UserRuns, TableSize DEF SysExec, At, TypeOK
<1>3. /\ ExecDetach(p) \/ ExecInPlace(p)
      /\ aspace' = [aspace EXCEPT ![p] = p]
  BY <1>1 DEF SysExec, Quiet
<1>4. /\ ppid' = ppid
      /\ InPlaceExec \/ aspace[p] # p
  BY <1>1 DEF SysExec
<1>5. CASE ExecInPlace(p)
  BY <1>2, <1>3, <1>4, <1>5 DEF ExecInPlace
<1>6. CASE ExecDetach(p)
  <2>1. ppid[p] # p
    BY <1>2, <1>6 DEF ExecDetach, Awake
  <2>2. \A q \in Procs : state'[q] = IF q = ppid[p] THEN "P_RUNNING" ELSE
                                     IF q = p THEN "P_READY" ELSE state[q]
    BY <1>2, <1>6, <2>1 DEF ExecDetach, TypeOK
  <2> QED
    BY <1>2, <1>3, <1>4, <1>6, <2>1, <2>2 DEF ExecDetach
<1> QED
  BY <1>3, <1>5, <1>6

\* do_spawn() that found a slot.
LEMMA SpawnEffect ==
    ASSUME TypeOK, Spawns
    PROVE  \E c \in UserProcs :
              /\ state[c] = "P_FREE"
              /\ state' = [state EXCEPT ![c] = "P_READY"]
              /\ ppid' = [ppid EXCEPT ![c] = 0]
              /\ aspace' = [aspace EXCEPT ![c] = c]
              /\ exec_active' = exec_active
BY AllocPidFacts DEF Spawns, Spawn

-----------------------------------------------------------------------------
(* Zombies *)

ZombieStep ==
    \A p \in Procs : state[p] = "P_ZOMBIE" =>
        \/ state'[p] = "P_ZOMBIE"
        \/ state'[p] = "P_FREE" /\ curproc = ppid[p]

LEMMA StepZombie ==
    NoStopSignals /\ TypeOK /\ Structure /\ CurprocRuns /\ [Next]_vars => ZombieStep
<1> SUFFICES ASSUME NoStopSignals, TypeOK, Structure, CurprocRuns, [Next]_vars,
                    NEW z \in Procs, state[z] = "P_ZOMBIE"
             PROVE  \/ state'[z] = "P_ZOMBIE"
                    \/ state'[z] = "P_FREE" /\ curproc = ppid[z]
  BY DEF ZombieStep
<1>1. CASE Quiet
  BY <1>1 DEF Quiet
<1>2. CASE Reaps
  BY <1>2 DEF Reaps, TypeOK
<1>3. CASE Exits
  <2>1. PICK p \in UserProcs, point \in {"sig", "user"} :
            curproc = p /\ state[p] \in Awake /\ DoExit(p, point)
    BY <1>3 DEF Exits
  <2>2. CASE ExecLeave(p)
    BY <2>2 DEF ExecLeave
  <2>3. CASE ExitProcess(p, point)
    BY <2>1, <2>3, ExitLeaves
  <2> QED
    BY <2>1, <2>2, <2>3 DEF DoExit
<1>4. CASE Vforks
  BY <1>4, VforkEffect DEF Awake
<1>5. CASE Execs
  BY <1>5, ExecEffect DEF Awake
<1>6. CASE Spawns
  BY <1>6, SpawnEffect DEF TypeOK
<1> QED
  BY <1>1, <1>2, <1>3, <1>4, <1>5, <1>6, StepKinds

\* A zombie is not run, woken or reused before its parent reaps it.
THEOREM ZombiesStay == NoStopSignals /\ Spec => ZombieFinal
<1> SUFFICES ASSUME NoStopSignals PROVE Spec => ZombieFinal
  OBVIOUS
<1> DEFINE IInv == TypeOK /\ Structure /\ CurprocRuns
<1>1. Init => IInv
  BY InitType, InitStructure, InitCurprocRuns
<1>2. IInv /\ [Next]_vars => IInv'
  BY StepType, StepStructure, StepCurprocRuns
<1>3. IInv /\ [Next]_vars => [ZombieStep]_vars
  BY StepZombie
<1>4. ZombieFinal <=> [][ZombieStep]_vars
  BY DEF ZombieFinal, ZombieStep
<1> QED
  BY <1>1, <1>2, <1>3, <1>4, PTL DEF Spec
-----------------------------------------------------------------------------
(* vfork *)

\* Programs as sh(1) without background jobs runs them: a process vforks only
\* when it has no other live child and is no vforked child itself, and execs
\* only in a vforked child.
Sequential == ~Background /\ ~InPlaceExec

LEMMA InitOneBorrower == Init => OneBorrower
BY TableSize DEF Init, OneBorrower, Alive

\* A step that brings nobody back to life, and keeps who is frozen, who is
\* whose child and who executes where.
LEMMA QuietBorrower ==
    ASSUME TypeOK, OneBorrower,
           \A q \in Procs : /\ Alive(q)' => Alive(q)
                            /\ state'[q] = "P_VFORK" <=> state[q] = "P_VFORK",
           UNCHANGED <<ppid, aspace, exec_active>>
    PROVE  OneBorrower'
BY DEF OneBorrower, TypeOK

\* When curproc p, whose parent is frozen, leaves the parent's memory or dies,
\* nobody else borrows it.
LEMMA OnlyBorrower ==
    ASSUME TypeOK, OneBorrower, NEW p \in Procs, Alive(p), state[ppid[p]] = "P_VFORK",
           NEW d \in Procs, Alive(d), d # p
    PROVE  ppid[d] # ppid[p]
BY DEF OneBorrower, TypeOK

LEMMA StepOneBorrower ==
    ASSUME NoStopSignals, Sequential, TypeOK, Structure, CurprocRuns, OneBorrower,
           [Next]_vars
    PROVE  OneBorrower'
<1> USE TableSize
<1>1. CASE Quiet
  BY <1>1, QuietBorrower DEF Quiet, Alive
<1>2. CASE Reaps
  BY <1>2, QuietBorrower DEF Reaps, Alive, TypeOK
<1>3. CASE Exits
  <2>1. PICK p \in UserProcs, point \in {"sig", "user"} :
            curproc = p /\ state[p] \in Awake /\ DoExit(p, point)
    BY <1>3 DEF Exits
  <2>2. ExitProcess(p, point) /\ exec_active' = exec_active /\ aspace' = aspace
    BY <2>1 DEF DoExit, ExecLeave, ExitProcess, OneBorrower
  <2>3. p \in Procs /\ Alive(p) /\ ~Alive(p)'
    BY <2>1, <2>2, ExitLeaves DEF Alive, Awake
  <2>4. \A q \in Procs : Alive(q)' => Alive(q) /\ q # p
    BY <2>1, <2>2, <2>3, ExitLeaves DEF Alive
  <2>5. \A q \in Procs : state'[q] = "P_VFORK" <=> state[q] = "P_VFORK" /\ q # ppid[p]
    BY <2>1, <2>2, ExitLeaves DEF Awake
  <2>6. \A q \in Procs : Alive(q) =>
            ppid'[q] = IF ppid[q] = p THEN 0 ELSE ppid[q]
    BY <2>1, <2>2, ExitLeaves DEF Alive
  <2>7. state[0] # "P_VFORK" /\ ~exec_active
    BY DEF Structure, ZeroIsKernel, OneBorrower
  <2>8. ASSUME NEW c \in Procs, Alive(c)', aspace'[c] # c
        PROVE  aspace'[c] = ppid'[c] /\ state'[ppid'[c]] = "P_VFORK"
    <3>1. /\ Alive(c) /\ c # p /\ aspace[c] = ppid[c] /\ state[ppid[c]] = "P_VFORK"
          /\ ppid[c] \in Procs
      BY <2>2, <2>4, <2>8 DEF OneBorrower, TypeOK
    <3>2. ppid[c] # p
      BY <2>1, <3>1 DEF Awake
    <3>3. ppid[c] # ppid[p]
      BY <2>3, <3>1, OnlyBorrower
    <3> QED
      BY <2>2, <2>5, <2>6, <3>1, <3>2, <3>3
  <2>9. ASSUME NEW v \in Procs, NEW c \in Procs, NEW d \in Procs,
               state'[v] = "P_VFORK",
               Alive(c)', ppid'[c] = v, Alive(d)', ppid'[d] = v
        PROVE  c = d
    <3>1. state[v] = "P_VFORK" /\ v # 0 /\ Alive(c) /\ Alive(d)
      BY <2>4, <2>5, <2>7, <2>9
    <3>2. ppid[c] = v /\ ppid[d] = v
      BY <2>6, <2>9, <3>1
    <3> QED
      BY <3>1, <3>2 DEF OneBorrower
  <2> QED
    BY <2>2, <2>7, <2>8, <2>9 DEF OneBorrower
<1>4. CASE Vforks
  <2>1. PICK p \in UserProcs, c \in UserProcs :
              /\ p # c /\ curproc = p
              /\ state[p] \in Awake /\ state[c] = "P_FREE"
              /\ LiveChildren(p) = {} /\ aspace[p] = p
              /\ \A q \in Procs : state'[q] = IF q = p THEN "P_VFORK" ELSE
                                               IF q = c THEN "P_RUNNING" ELSE state[q]
              /\ ppid' = [ppid EXCEPT ![c] = p]
              /\ aspace' = [aspace EXCEPT ![c] = aspace[p]]
              /\ exec_active' = exec_active
    BY <1>4, VforkEffect DEF Sequential
  <2>2. p \in Procs /\ c \in Procs /\ ~exec_active
    BY DEF OneBorrower
  <2>3. \A q \in Procs : Alive(q)' <=> Alive(q) \/ q = c
    BY <2>1, <2>2 DEF Alive, Awake
  <2>4. \A q \in Procs : /\ ppid'[q] = IF q = c THEN p ELSE ppid[q]
                         /\ aspace'[q] = IF q = c THEN p ELSE aspace[q]
    BY <2>1, <2>2 DEF TypeOK
  <2>5. \A q \in Procs : Alive(q) => ppid[q] # p
    BY <2>1 DEF LiveChildren, Children, Alive
  <2>6. ASSUME NEW d \in Procs, Alive(d)', aspace'[d] # d
        PROVE  aspace'[d] = ppid'[d] /\ state'[ppid'[d]] = "P_VFORK"
    <3>1. CASE d = c
      BY <2>1, <2>2, <2>4, <3>1
    <3>2. CASE d # c
      <4>1. aspace[d] = ppid[d] /\ state[ppid[d]] = "P_VFORK" /\ ppid[d] \in Procs
        BY <2>3, <2>4, <2>6, <3>2 DEF OneBorrower, TypeOK
      <4> QED
        BY <2>1, <2>4, <3>2, <4>1
    <3> QED
      BY <3>1, <3>2
  <2>7. ASSUME NEW v \in Procs, NEW d \in Procs, NEW e \in Procs,
               state'[v] = "P_VFORK",
               Alive(d)', ppid'[d] = v, Alive(e)', ppid'[e] = v
        PROVE  d = e
    <3>1. CASE v = p
      BY <2>3, <2>4, <2>5, <2>7, <3>1
    <3>2. CASE v # p
      <4>1. /\ state[v] = "P_VFORK" /\ d # c /\ e # c /\ Alive(d) /\ Alive(e)
            /\ ppid[d] = v /\ ppid[e] = v
        BY <2>1, <2>3, <2>4, <2>7, <3>2
      <4> QED
        BY <4>1 DEF OneBorrower
    <3> QED
      BY <3>1, <3>2
  <2> QED
    BY <2>1, <2>2, <2>6, <2>7 DEF OneBorrower
<1>5. CASE Execs
  <2>1. PICK p \in UserProcs :
              /\ curproc = p /\ state[p] \in Awake
              /\ aspace[p] # p
              /\ ppid' = ppid
              /\ aspace' = [aspace EXCEPT ![p] = p]
              /\ \/ state[ppid[p]] # "P_VFORK" /\ state' = state
                 \/ /\ state[ppid[p]] = "P_VFORK"
                    /\ ppid[p] # p
                    /\ exec_active' = exec_active
                    /\ \A q \in Procs : state'[q] =
                          IF q = ppid[p] THEN "P_RUNNING" ELSE
                          IF q = p THEN "P_READY" ELSE state[q]
    BY <1>5, ExecEffect DEF Sequential
  <2>2. p \in Procs /\ Alive(p) /\ state[ppid[p]] = "P_VFORK" /\ ~exec_active
    BY <2>1 DEF OneBorrower, Alive, Awake
  <2>3. \A q \in Procs : Alive(q)' <=> Alive(q)
    BY <2>1, <2>2 DEF Alive
  <2>4. ASSUME NEW d \in Procs, Alive(d)', aspace'[d] # d
        PROVE  aspace'[d] = ppid'[d] /\ state'[ppid'[d]] = "P_VFORK"
    <3>1. d # p /\ aspace'[d] = aspace[d]
      BY <2>1, <2>2, <2>4 DEF TypeOK
    <3>2. aspace[d] = ppid[d] /\ state[ppid[d]] = "P_VFORK" /\ ppid[d] \in Procs
      BY <2>3, <2>4, <3>1 DEF OneBorrower, TypeOK
    <3>3. ppid[d] # ppid[p]
      BY <2>2, <2>3, <2>4, <3>1, OnlyBorrower
    <3> QED
      BY <2>1, <2>2, <3>1, <3>2, <3>3 DEF Awake
  <2>5. ASSUME NEW v \in Procs, NEW d \in Procs, NEW e \in Procs,
               state'[v] = "P_VFORK",
               Alive(d)', ppid'[d] = v, Alive(e)', ppid'[e] = v
        PROVE  d = e
    <3>1. state[v] = "P_VFORK" /\ Alive(d) /\ Alive(e) /\ ppid[d] = v /\ ppid[e] = v
      BY <2>1, <2>2, <2>3, <2>5
    <3> QED
      BY <3>1 DEF OneBorrower
  <2> QED
    BY <2>1, <2>2, <2>4, <2>5 DEF OneBorrower
<1>6. CASE Spawns
  <2>1. PICK c \in UserProcs :
              /\ state[c] = "P_FREE"
              /\ state' = [state EXCEPT ![c] = "P_READY"]
              /\ ppid' = [ppid EXCEPT ![c] = 0]
              /\ aspace' = [aspace EXCEPT ![c] = c]
              /\ exec_active' = exec_active
    BY <1>6, SpawnEffect
  <2>2. c \in Procs /\ ~exec_active /\ state[0] # "P_VFORK"
    BY DEF OneBorrower, Structure, ZeroIsKernel
  <2>3. \A q \in Procs : /\ Alive(q)' <=> Alive(q) \/ q = c
                         /\ state'[q] = "P_VFORK" <=> state[q] = "P_VFORK"
                         /\ ppid'[q] = IF q = c THEN 0 ELSE ppid[q]
                         /\ aspace'[q] = IF q = c THEN c ELSE aspace[q]
    BY <2>1, <2>2 DEF Alive, TypeOK
  <2>4. ASSUME NEW d \in Procs, Alive(d)', aspace'[d] # d
        PROVE  aspace'[d] = ppid'[d] /\ state'[ppid'[d]] = "P_VFORK"
    BY <2>3, <2>4 DEF OneBorrower, TypeOK
  <2>5. ASSUME NEW v \in Procs, NEW d \in Procs, NEW e \in Procs,
               state'[v] = "P_VFORK",
               Alive(d)', ppid'[d] = v, Alive(e)', ppid'[e] = v
        PROVE  d = e
    BY <2>2, <2>3, <2>5 DEF OneBorrower
  <2> QED
    BY <2>1, <2>2, <2>4, <2>5 DEF OneBorrower
<1> QED
  BY <1>1, <1>2, <1>3, <1>4, <1>5, <1>6, StepKinds

\* Sequential programs: as long as a vforked child executes in its parent's
\* memory, the parent is frozen.  do_exit() and do_exec() thaw a frozen parent
\* for any child of its; that only the right one is there to ask is what
\* OneBorrower adds.
THEOREM VforkIsolated == NoStopSignals /\ Sequential /\ Spec => []VforkIsolation
<1> SUFFICES ASSUME NoStopSignals, Sequential PROVE Spec => []VforkIsolation
  OBVIOUS
<1> DEFINE IInv == TypeOK /\ Structure /\ CurprocRuns /\ OneBorrower
<1>1. Init => IInv
  BY InitType, InitStructure, InitCurprocRuns, InitOneBorrower
<1>2. IInv /\ [Next]_vars => IInv'
  BY StepType, StepStructure, StepCurprocRuns, StepOneBorrower
<1>3. IInv => VforkIsolation
  BY DEF OneBorrower, VforkIsolation
<1> QED
  BY <1>1, <1>2, <1>3, PTL DEF Spec

-----------------------------------------------------------------------------
(* The builtin shell's descriptors *)

LEMMA FdFacts == MAXFD \in Nat /\ Fds \subseteq Nat /\ -1 \notin Fds /\ IsFiniteSet(Fds)
<1>1. PICK m \in Nat : m = MAXFD - 1
  BY ShellAssumption
<1>2. Fds = 0..m
  BY <1>1 DEF Fds
<1>3. IsFiniteSet(0..m)
  BY FS_Interval
<1> QED
  BY <1>2, <1>3, ShellAssumption DEF Fds

LEMMA HasLeast ==
    ASSUME NEW S \in SUBSET Nat, S # {}
    PROVE  \E x \in S : \A y \in S : x <= y
<1>1. PICK x \in S : \A y \in S : ~(<<y, x>> \in OpToRel(<, Nat))
  BY NatLessThanWellFounded, WFMin
<1>2. \A y \in S : ~(y < x)
  BY <1>1 DEF OpToRel
<1> QED
  BY <1>2

\* fd_alloc() finds a free descriptor if there is one.
LEMMA AllocIsFree ==
    ASSUME NEW table, FreeFds(table) # {}
    PROVE  fd_alloc(table) \in Fds /\ table[fd_alloc(table)] = None
<1> DEFINE S == FreeFds(table)
<1>1. S \in SUBSET Nat /\ S # {}
  BY FdFacts DEF FreeFds
<1> HIDE DEF S
<1>2. Min(S) \in S
  BY <1>1, HasLeast DEF Min
<1> QED
  BY <1>2 DEF S, fd_alloc, FreeFds

LEMMA SomeFree ==
    ASSUME NEW table, NEW n \in Nat, n > 0, Cardinality(FreeFds(table)) >= n
    PROVE  FreeFds(table) # {}
BY FS_EmptySet

\* Two descriptors, as do_pipe() allocates them.
LEMMA TwoFree ==
    ASSUME NEW table, Cardinality(FreeFds(table)) >= 2, NEW x \in FreeFds(table), NEW f,
           table = [d \in Fds |-> table[d]]
    PROVE  FreeFds([table EXCEPT ![x] = f]) # {}
<1> DEFINE S == FreeFds(table)
<1>1. IsFiniteSet(S)
  BY FdFacts, FS_Subset DEF FreeFds
<1>2. S # {x}
  BY FS_Singleton
<1>3. PICK y \in S : y # x
  BY <1>2
<1>4. y \in FreeFds([table EXCEPT ![x] = f])
  BY <1>3 DEF FreeFds
<1> QED
  BY <1>4

-----------------------------------------------------------------------------
(* Opening and closing *)

IsTable(t) == t = [d \in Fds |-> t[d]]

LEMMA Opened ==
    ASSUME NEW table, IsTable(table), NEW S, OnlyOpened(table, S),
           NEW d \in FreeFds(table), NEW f
    PROVE  IsTable([table EXCEPT ![d] = f]) /\ OnlyOpened([table EXCEPT ![d] = f], S \cup {d})
BY DEF IsTable, OnlyOpened, FreeFds

LEMMA ClosedAgain ==
    ASSUME NEW table, IsTable(table), NEW S, OnlyOpened(table, S),
           NEW d, d \in Fds => fd_before[d] = None
    PROVE  IsTable(sys_close(table, d)) /\ OnlyOpened(sys_close(table, d), S \ {d})
BY DEF IsTable, OnlyOpened, sys_close

LEMMA OnlyOpenedMore ==
    ASSUME NEW table, NEW S, NEW T, OnlyOpened(table, S), S \subseteq T,
           \A d \in (T \ S) \cap Fds : fd_before[d] = None
    PROVE  OnlyOpened(table, T)
BY DEF OnlyOpened

LEMMA NothingOpened ==
    ASSUME NEW table, IsTable(table), NEW S, OnlyOpened(table, S), S \cap Fds = {},
           IsTable(fd_before)
    PROVE  table = fd_before
BY DEF IsTable, OnlyOpened

\* A number that is no descriptor makes no difference.
LEMMA NoNumber ==
    ASSUME NEW table, NEW S, NEW T, S \cap Fds = T \cap Fds
    PROVE  OnlyOpened(table, S) <=> OnlyOpened(table, T)
BY DEF OnlyOpened

-----------------------------------------------------------------------------
(* Steps *)

LEMMA ShellStarts == ShellInit => ShellInv
BY DEF ShellInit, ShellInv, Initial

\* What a redirection leaves open, whichever of its files there are.
LEMMA RedirectOpens ==
    ASSUME ShellInv, NEW in \in BOOLEAN, NEW out \in BOOLEAN, Redirect(in, out)
    PROVE  /\ IsTable(fd') /\ IsTable(fd_before')
           /\ OnlyOpened(fd, {in_fd, out_fd})'
<1>1. IsTable(fd) /\ fd_before' = fd
  BY DEF ShellInv, IsTable, Redirect
<1> DEFINE in1 == IF in THEN fd_alloc(fd) ELSE -1
           table1 == IF in THEN [fd EXCEPT ![in1] = File] ELSE fd
           out1 == IF out THEN fd_alloc(table1) ELSE -1
           files == {b \in {<<in, 1>>, <<out, 2>>} : b[1]}
<1>2. /\ Cardinality(FreeFds(fd)) >= Cardinality(files)
      /\ fd' = IF out THEN [table1 EXCEPT ![out1] = File] ELSE table1
      /\ in_fd' = in1 /\ out_fd' = out1
  BY DEF Redirect
<1>3. Cardinality(files) = (IF in THEN 1 ELSE 0) + (IF out THEN 1 ELSE 0)
  <2>1. files = (IF in THEN {<<in, 1>>} ELSE {}) \cup (IF out THEN {<<out, 2>>} ELSE {})
    OBVIOUS
  <2>2. <<in, 1>> # <<out, 2>>
    OBVIOUS
  <2>3. Cardinality({<<in, 1>>}) = 1 /\ Cardinality({<<out, 2>>}) = 1 /\ Cardinality({}) = 0
    BY FS_Singleton, FS_EmptySet
  <2>4. IsFiniteSet({<<in, 1>>}) /\ Cardinality({<<in, 1>>} \cup {<<out, 2>>}) = 2
    <3>1. IsFiniteSet({<<in, 1>>})
      BY FS_Singleton
    <3>2. Cardinality({<<in, 1>>} \cup {<<out, 2>>}) = Cardinality({<<in, 1>>}) + 1
      BY <3>1, <2>2, FS_AddElement
    <3> QED
      BY <3>1, <3>2, <2>3
  <2> HIDE DEF files
  <2>5. CASE in /\ out
    BY <2>1, <2>4, <2>5
  <2>6. CASE in /\ ~out
    BY <2>1, <2>3, <2>6
  <2>7. CASE ~in /\ out
    BY <2>1, <2>3, <2>7
  <2>8. CASE ~in /\ ~out
    BY <2>1, <2>3, <2>8
  <2> QED
    BY <2>5, <2>6, <2>7, <2>8
<1> HIDE DEF files
<1>4. in => in1 \in FreeFds(fd)
  BY <1>2, <1>3, SomeFree, AllocIsFree DEF FreeFds
<1>5. out => out1 \in FreeFds(table1)
  <2>1. CASE in /\ out
    BY <2>1, <1>1, <1>2, <1>3, <1>4, TwoFree, AllocIsFree DEF FreeFds, IsTable
  <2>2. CASE ~in /\ out
    BY <2>2, <1>2, <1>3, SomeFree, AllocIsFree DEF FreeFds
  <2> QED
    BY <2>1, <2>2
<1> HIDE DEF in1, out1
<1>6. IsTable(table1) /\ IsTable(fd')
  BY <1>1, <1>2 DEF IsTable
<1>7. ASSUME NEW d \in {in1, out1} \cap Fds
      PROVE  fd[d] = None
  <2>1. -1 \notin Fds
    BY FdFacts
  <2>2. CASE d = in1
    BY <2>1, <2>2, <1>4 DEF FreeFds, in1
  <2>3. CASE d = out1
    <3>1. out /\ table1[d] = None
      BY <2>1, <2>3, <1>5 DEF FreeFds, out1
    <3>2. table1[d] = fd[d] \/ (in /\ d = in1)
      BY <1>1 DEF IsTable
    <3> QED
      BY <3>1, <3>2, <1>4 DEF FreeFds
  <2> QED
    BY <2>2, <2>3
<1>8. ASSUME NEW d \in Fds, d \notin {in1, out1}
      PROVE  fd'[d] = fd[d]
  BY <1>1, <1>2, <1>8 DEF IsTable
<1> HIDE DEF table1
<1> QED
  BY <1>1, <1>2, <1>6, <1>7, <1>8 DEF OnlyOpened

LEMMA SimpleKeeps == ShellInv /\ Simple => ShellInv'
<1> SUFFICES ASSUME ShellInv, Simple PROVE ShellInv'
  OBVIOUS
<1>1. PICK in \in BOOLEAN, out \in BOOLEAN : Redirect(in, out)
  BY DEF Simple
<1>2. IsTable(fd') /\ IsTable(fd_before') /\ OnlyOpened(fd, {in_fd, out_fd})'
  BY <1>1, RedirectOpens
<1> QED
  BY <1>2 DEF Simple, ShellInv, IsTable

LEMMA PipelineKeeps == ShellInv /\ Pipeline => ShellInv'
<1> SUFFICES ASSUME ShellInv, Pipeline PROVE ShellInv'
  OBVIOUS
<1>1. PICK in \in BOOLEAN, out \in BOOLEAN : Redirect(in, out)
  BY DEF Pipeline
<1>2. IsTable(fd') /\ IsTable(fd_before') /\ OnlyOpened(fd, {in_fd, out_fd})'
  BY <1>1, RedirectOpens
<1>3. OnlyOpened(fd, {out_fd, prev_read_fd})'
  BY <1>2 DEF Pipeline, OnlyOpened
<1>4. nseg' \in Commands \ {1} /\ Commands \subseteq Nat /\ \A n \in Commands : n >= 1
  BY ShellAssumption DEF Pipeline, Commands
<1> QED
  BY <1>2, <1>3, <1>4 DEF Pipeline, ShellInv, IsTable

\* "Close remaining FDs" closes all that was opened, except in the case that
\* DescriptorsRestored excepts.
LEMMA SimpleCloses ==
    ASSUME ShellInv, SimpleDone
    PROVE  fd' = fd_before
<1>1. IsTable(fd) /\ IsTable(fd_before) /\ OnlyOpened(fd, {in_fd, out_fd})
  BY DEF ShellInv, SimpleDone, IsTable
<1> DEFINE t1 == sys_close(fd, in_fd)
           t2 == sys_close(t1, out_fd)
<1>2. /\ in_fd \in Fds => fd_before[in_fd] = None
      /\ out_fd \in Fds => fd_before[out_fd] = None
  BY <1>1 DEF OnlyOpened
<1>3. IsTable(t1) /\ OnlyOpened(t1, {in_fd, out_fd} \ {in_fd})
  BY <1>1, <1>2, ClosedAgain
<1> HIDE DEF t1
<1>4. IsTable(t2) /\ OnlyOpened(t2, ({in_fd, out_fd} \ {in_fd}) \ {out_fd})
  BY <1>2, <1>3, ClosedAgain
<1> HIDE DEF t2
<1>5. t2 = fd_before
  BY <1>1, <1>4, NothingOpened
<1> QED
  BY <1>5 DEF SimpleDone, t2, t1

LEMMA PipelineCloses ==
    ASSUME ShellInv, PipelineDone
    PROVE  IsTable(fd') /\ (fd' = fd_before \/ (in_fd # -1 /\ spawned < nseg))
<1>1. IsTable(fd) /\ IsTable(fd_before) /\ OnlyOpened(fd, {out_fd, prev_read_fd})
  BY DEF ShellInv, PipelineDone, IsTable
<1> DEFINE t1 == IF prev_read_fd # in_fd THEN sys_close(fd, prev_read_fd) ELSE fd
           t2 == sys_close(t1, out_fd)
<1>2. /\ prev_read_fd \in Fds => fd_before[prev_read_fd] = None
      /\ out_fd \in Fds => fd_before[out_fd] = None
  BY <1>1 DEF OnlyOpened
<1>3. fd' = t2
  BY DEF PipelineDone, Leftovers
<1>4. IsTable(t1)
  BY <1>1, <1>2, ClosedAgain
<1>5. IsTable(t2)
  BY <1>4 DEF IsTable, sys_close
<1>6. CASE prev_read_fd = in_fd /\ in_fd # -1
  <2>1. spawned < nseg
    <3>1. spawned \in 0..nseg /\ spawned # nseg /\ nseg \in Nat
      BY <1>6, ShellAssumption DEF ShellInv, PipelineDone, Commands
    <3> QED
      BY <3>1
  <2> QED
    BY <2>1, <1>3, <1>5, <1>6
<1>7. CASE ~(prev_read_fd = in_fd /\ in_fd # -1)
  <2>1. OnlyOpened(t1, {out_fd})
    <3>1. CASE prev_read_fd # in_fd
      <4>1. OnlyOpened(t1, {out_fd, prev_read_fd} \ {prev_read_fd})
        BY <3>1, <1>1, <1>2, ClosedAgain
      <4> QED
        BY <4>1, <1>2 DEF OnlyOpened
    <3>2. CASE prev_read_fd = in_fd
      <4>1. t1 = fd /\ {out_fd, prev_read_fd} \cap Fds = {out_fd} \cap Fds
        BY <3>2, <1>7, FdFacts
      <4> QED
        BY <4>1, <1>1, NoNumber
    <3> QED
      BY <3>1, <3>2
  <2> HIDE DEF t1
  <2>2. OnlyOpened(t2, {out_fd} \ {out_fd})
    BY <1>2, <1>4, <2>1, ClosedAgain
  <2> HIDE DEF t2
  <2>3. t2 = fd_before
    BY <1>1, <1>5, <2>2, NothingOpened
  <2> QED
    BY <1>3, <1>5, <2>3
<1> QED
  BY <1>6, <1>7

\* The command is at hand, and the shell has the ends of the pipe to the next.
LEMMA LaunchKeeps ==
    ASSUME ShellInv, at = "start", NEW table, IsTable(table), NEW rfd, NEW wfd,
           OnlyOpened(table, {out_fd, prev_read_fd, rfd, wfd}),
           rfd = -1 <=> i = nseg,
           Launch(table, rfd, wfd),
           UNCHANGED <<nseg, out_fd, fd_before>>
    PROVE  ShellInv'
<1> DEFINE S == {out_fd, prev_read_fd, rfd, wfd}
           t1 == sys_close(table, prev_read_fd)
           rest == sys_close(t1, wfd)
           t3 == sys_close(rest, rfd)
<1>1. \A d \in S \cap Fds : fd_before[d] = None
  BY DEF OnlyOpened
<1>2. IsTable(t1) /\ OnlyOpened(t1, S \ {prev_read_fd})
  BY <1>1, ClosedAgain
<1> HIDE DEF t1
<1>3. IsTable(rest) /\ OnlyOpened(rest, (S \ {prev_read_fd}) \ {wfd})
  BY <1>1, <1>2, ClosedAgain
<1>4. AfterSpawn(table, prev_read_fd, wfd) = rest
  BY DEF AfterSpawn, t1
<1> HIDE DEF rest
<1>5. IsTable(t3) /\ OnlyOpened(t3, ((S \ {prev_read_fd}) \ {wfd}) \ {rfd})
  BY <1>1, <1>3, ClosedAgain
<1> HIDE DEF t3
<1>6. OnlyOpened(rest, {out_fd, rfd}) /\ OnlyOpened(t3, {out_fd, prev_read_fd})
  BY <1>1, <1>3, <1>5 DEF OnlyOpened
<1>7. /\ IsTable(fd_before) /\ i \in 1..nseg /\ spawned = i - 1 /\ nseg \in Commands
      /\ nseg \in Nat
  BY ShellAssumption DEF ShellInv, IsTable, Commands
<1>8. CASE /\ spawned' = spawned + 1 /\ prev_read_fd' = rfd
           /\ fd' = rest /\ i' = i + 1
           /\ at' = IF i = nseg THEN "wait" ELSE "start"
  <2>1. OnlyOpened(fd, {out_fd, prev_read_fd})'
    BY <1>6, <1>8 DEF OnlyOpened
  <2>2. spawned' = i /\ i \in Nat /\ spawned' \in 0..nseg /\ (spawned' = nseg => rfd = -1)
    BY <1>7, <1>8
  <2>3. at' = "start" => i' \in 1..nseg /\ spawned' = i' - 1
    BY <1>7, <1>8, <2>2
  <2> QED
    BY <1>3, <1>7, <1>8, <2>1, <2>2, <2>3 DEF ShellInv, IsTable
<1>9. CASE /\ fd' = t3 /\ at' = "wait"
           /\ UNCHANGED <<spawned, prev_read_fd, i>>
  <2>1. OnlyOpened(fd, {out_fd, prev_read_fd})'
    BY <1>6, <1>9 DEF OnlyOpened
  <2>2. spawned' \in 0..nseg /\ spawned' # nseg
    BY <1>7, <1>9
  <2> QED
    BY <1>5, <1>7, <1>9, <2>1, <2>2 DEF ShellInv, IsTable
<1> QED
  BY <1>4, <1>8, <1>9 DEF Launch, t3

LEMMA StartKeeps == ShellInv /\ Start => ShellInv'
<1> SUFFICES ASSUME ShellInv, Start PROVE ShellInv'
  OBVIOUS
<1>1. /\ at = "start" /\ IsTable(fd) /\ OnlyOpened(fd, {out_fd, prev_read_fd})
      /\ UNCHANGED <<nseg, out_fd, fd_before>>
  BY DEF Start, ShellInv, IsTable
<1>2. CASE i = nseg
  <2>1. Launch(fd, -1, -1)
    BY <1>2 DEF Start
  <2>2. OnlyOpened(fd, {out_fd, prev_read_fd, -1, -1})
    <3>1. {out_fd, prev_read_fd, -1, -1} \cap Fds = {out_fd, prev_read_fd} \cap Fds
      BY FdFacts
    <3> QED
      BY <3>1, <1>1, NoNumber
  <2> QED
    BY <1>1, <1>2, <2>1, <2>2, LaunchKeeps
<1>3. CASE i # nseg
  <2> DEFINE k == Min(FreePipes)
             rfd == fd_alloc(fd)
             table1 == [fd EXCEPT ![rfd] = ReadEnd(k)]
             wfd == fd_alloc(table1)
             table2 == [table1 EXCEPT ![wfd] = WriteEnd(k)]
  <2>1. CanPipe /\ Launch(table2, rfd, wfd)
    BY <1>3 DEF Start
  <2> HIDE DEF k
  <2>2. rfd \in FreeFds(fd)
    BY <2>1, SomeFree, AllocIsFree DEF CanPipe, FreeFds
  <2>3. wfd \in FreeFds(table1)
    <3>1. FreeFds(table1) # {}
      BY <2>1, <2>2, <1>1, TwoFree DEF CanPipe, IsTable
    <3> HIDE DEF table1
    <3> QED
      BY <3>1, AllocIsFree DEF FreeFds
  <2> HIDE DEF rfd
  <2>4. IsTable(table1) /\ OnlyOpened(table1, {out_fd, prev_read_fd} \cup {rfd})
    BY <1>1, <2>2, Opened
  <2> HIDE DEF table1, wfd
  <2>5. IsTable(table2)
        /\ OnlyOpened(table2, ({out_fd, prev_read_fd} \cup {rfd}) \cup {wfd})
    BY <2>3, <2>4, Opened
  <2> HIDE DEF table2
  <2>6. ({out_fd, prev_read_fd} \cup {rfd}) \cup {wfd} = {out_fd, prev_read_fd, rfd, wfd}
    OBVIOUS
  <2>7. rfd # -1
    BY <2>2, FdFacts DEF FreeFds
  <2> QED
    BY <1>1, <1>3, <2>1, <2>5, <2>6, <2>7, LaunchKeeps
<1> QED
  BY <1>2, <1>3

LEMMA StepKeeps == ShellInv /\ [ShellNext]_shell_vars => ShellInv'
<1> SUFFICES ASSUME ShellInv, [ShellNext]_shell_vars PROVE ShellInv'
  OBVIOUS
<1>1. CASE Simple
  BY <1>1, SimpleKeeps
<1>2. CASE SimpleDone
  <2>1. fd' = fd_before
    BY <1>2, SimpleCloses
  <2> QED
    BY <1>2, <2>1 DEF SimpleDone, ShellInv
<1>3. CASE Pipeline
  BY <1>3, PipelineKeeps
<1>4. CASE Start
  BY <1>4, StartKeeps
<1>5. CASE Break
  <2>1. spawned \in 0..nseg /\ spawned # nseg
    BY <1>5, ShellAssumption DEF ShellInv, Break, Commands
  <2> QED
    BY <1>5, <2>1 DEF Break, ShellInv, OnlyOpened
<1>6. CASE PipelineDone
  <2>1. IsTable(fd')
    BY <1>6, PipelineCloses
  <2> QED
    BY <1>6, <2>1 DEF PipelineDone, ShellInv, IsTable
<1>7. CASE UNCHANGED <<local, fd, fd_before>>
  BY <1>7 DEF local, ShellInv, OnlyOpened
<1>8. ASSUME NEW c \in Commands, Step(c) \/ Quit(c)
      PROVE  UNCHANGED <<local, fd, fd_before>>
  BY <1>8 DEF Step, Read, Produce, Write, Finish, Quit
<1>9. CASE UNCHANGED shell_vars
  BY <1>9, <1>7 DEF shell_vars
<1> QED
  BY <1>1, <1>2, <1>3, <1>4, <1>5, <1>6, <1>7, <1>8, <1>9 DEF ShellNext, Shell

\* shell_exec_cmd() gives back every descriptor it has opened, whichever
\* do_pipe() or do_spawn_fd() fails and whichever command is empty ("Close
\* remaining FDs", main.c:1214), but in the case that the property excepts.
THEOREM DescriptorsComeBack == ShellSpec => DescriptorsRestored
<1>1. ShellInit => ShellInv
  BY ShellStarts
<1>2. ShellInv /\ [ShellNext]_shell_vars => ShellInv'
  BY StepKeeps
<1>3. ShellInv /\ [ShellNext]_shell_vars
      => [at # "prompt" /\ at' = "prompt"
            => fd' = fd_before \/ (in_fd # -1 /\ spawned < nseg)]_shell_vars
  <2> SUFFICES ASSUME ShellInv, ShellNext, at # "prompt", at' = "prompt"
               PROVE  fd' = fd_before \/ (in_fd # -1 /\ spawned < nseg)
    OBVIOUS
  <2>1. ASSUME NEW c \in Commands, Step(c) \/ Quit(c)
        PROVE  at' = at
    BY <2>1 DEF Step, Read, Produce, Write, Finish, Quit, local
  <2>2. SimpleDone \/ PipelineDone
    <3>1. ~Simple /\ ~Pipeline /\ ~Break
      BY DEF Simple, Pipeline, Break
    <3>2. ~Start
      BY DEF Start, Launch
    <3> QED
      BY <2>1, <3>1, <3>2 DEF ShellNext, Shell
  <2> QED
    BY <2>2, SimpleCloses, PipelineCloses
<1> QED
  BY <1>1, <1>2, <1>3, PTL DEF ShellSpec, DescriptorsRestored
=============================================================================
