------------------------------- MODULE MCProc -------------------------------
(* Instances of Proc for TLC.  MAXPROC must be a power of two: 4 slots are  *)
(* process 0, a shell and two descendants, enough for a child that races    *)
(* with its sibling.                                                        *)
EXTENDS Proc

\* SIGINT stands for every signal whose default is to terminate.
Install == {"handler", "SIG_IGN"}
WaitAll == Procs
WaitAny == {0}
NoDispositions == {}
NoSignals == {}
KillSignals == {9}
TermSignals == {2}
StopSignals == {19}
JobSignals == {18, 19}

\* A slot that is free, or whose zombie does not have the CPU, is not read
\* again before vfork or spawn overwrites it, except for the zombie's parent.
Dead(p) == state[p] = "P_FREE" \/ (state[p] = "P_ZOMBIE" /\ p # curproc)
LiveView ==
    <<state, curproc, nproc, next_pid, exec_active, shell, {p \in dozing : ~Dead(p)},
      [p \in Procs |-> IF Dead(p) THEN <<>>
                       ELSE <<sig_pending[p], sig_handler[p], aspace[p], pc[p], arg[p]>>],
      [p \in Procs |-> IF state[p] = "P_FREE" THEN 0 ELSE ppid[p]]>>
=============================================================================
