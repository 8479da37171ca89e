---------------------------- MODULE ShellPipeline ----------------------------
(***************************************************************************)
(* Commands of the builtin shell: shell_exec_cmd() of kernel/main.c with   *)
(* do_spawn_fd(), do_pipe(), sys_open() and sys_close() of kernel/proc.c   *)
(* as it calls them, and the programs it starts.                           *)
(*                                                                         *)
(* The shell is process 0 and runs in the kernel: nothing preempts it, so  *)
(* programs take steps only while it sleeps in do_waitpid().  A pipe is    *)
(* what PipeFifo promises, and has as many readers and writers as there    *)
(* are descriptors for its ends (OpenFiles!PipeEnds).                      *)
(*                                                                         *)
(* Programs are filters: they read standard input to its end, write to     *)
(* standard output in between, and exit; a program whose input is no pipe  *)
(* writes MaxOutput units at most.  They leave when a write fails, and may *)
(* leave before (head, a signal): quitters.                                *)
(***************************************************************************)
EXTENDS Integers, Sequences, FiniteSetsExt

CONSTANTS
    MAXFD, MAXPIPE, PIPE_SIZE,
    MaxCommands,    \* bound: commands in a pipeline (the code stops at 8)
    MaxOutput,      \* bound: what a program without a pipe to read writes
    SpawnMayFail,   \* may do_spawn_fd() fail?
    EmptyAt         \* where in a pipeline there may be nothing between the bars

ASSUME ShellAssumption ==
    /\ {MAXPIPE, PIPE_SIZE, MaxCommands, MaxOutput} \subseteq Nat \ {0}
    /\ MAXFD \in Nat /\ MAXFD >= 3 + 2 + 2
    /\ SpawnMayFail \in BOOLEAN /\ EmptyAt \subseteq 1..MaxCommands

VARIABLES
    at,             \* where shell_exec_cmd() is
    nseg, i,        \* commands of the pipeline; the one at hand
    spawned,        \* how many programs have been started
    fd,             \* the shell's descriptors
    in_fd, out_fd, prev_read_fd,
    prog,           \* the programs
    count,          \* how full each pipe is
    quitters,       \* programs that left while their input had not ended
    fd_before       \* the shell's descriptors when the command was typed

local == <<at, nseg, i, spawned, in_fd, out_fd, prev_read_fd>>
shell_vars == <<local, fd, prog, count, quitters, fd_before>>

Fds == 0..(MAXFD - 1)
Pipes == 0..(MAXPIPE - 1)
Commands == 1..MaxCommands

\* What a descriptor may refer to.
None == [end |-> "none", pipe |-> 0]
Console == [end |-> "console", pipe |-> 0]
File == [end |-> "file", pipe |-> 0]
ReadEnd(k) == [end |-> "read", pipe |-> k]
WriteEnd(k) == [end |-> "write", pipe |-> k]

Closed == [d \in Fds |-> None]
Initial == [d \in Fds |-> IF d < 3 THEN Console ELSE None]
NoProgram == [alive |-> FALSE, fd |-> Closed, left |-> 0, unit |-> FALSE]

\* proc_init().
ShellInit ==
    /\ at = "prompt"
    /\ nseg = 0 /\ i = 0 /\ spawned = 0
    /\ fd = Initial
    /\ in_fd = -1 /\ out_fd = -1 /\ prev_read_fd = -1
    /\ prog = [c \in Commands |-> NoProgram]
    /\ count = [k \in Pipes |-> 0]
    /\ quitters = {}
    /\ fd_before = Initial

-----------------------------------------------------------------------------
(* Descriptors *)

Holds(table, f) == \E d \in Fds : table[d] = f
Open(f) == Holds(fd, f) \/ \E c \in Commands : Holds(prog[c].fd, f)

FreeFds(table) == {d \in Fds : table[d] = None}

\* fd_alloc(): the lowest descriptor that is free.
fd_alloc(table) == Min(FreeFds(table))

\* sys_close(); -1 and a descriptor that is not open are refused.
sys_close(table, d) == IF d \in Fds THEN [table EXCEPT ![d] = None] ELSE table

\* The pipe do_pipe() takes: the first whose ends are both closed.
FreePipes == {k \in Pipes : ~Open(ReadEnd(k)) /\ ~Open(WriteEnd(k))}

\* do_spawn_fd(): the child has all descriptors of the shell, with standard
\* input and output replaced.
ChildTable(table, in, out) ==
    [table EXCEPT ![0] = IF in \in Fds THEN table[in] ELSE @,
                  ![1] = IF out \in Fds THEN table[out] ELSE @]

Program(table) ==
    [alive |-> TRUE, fd |-> table, unit |-> FALSE,
     left |-> IF table[0].end = "read" THEN 0 ELSE MaxOutput]

-----------------------------------------------------------------------------
(* shell_exec_cmd() *)

\* The files of a redirection are opened.  (When one cannot be, or the spawn of
\* a single command fails, what was opened is closed again: not a step.)
Redirect(in, out) ==
    LET in1 == IF in THEN fd_alloc(fd) ELSE -1
        table1 == IF in THEN [fd EXCEPT ![in1] = File] ELSE fd
        out1 == IF out THEN fd_alloc(table1) ELSE -1
    IN  /\ Cardinality(FreeFds(fd)) >= Cardinality({b \in {<<in, 1>>, <<out, 2>>} : b[1]})
        /\ fd_before' = fd
        /\ fd' = IF out THEN [table1 EXCEPT ![out1] = File] ELSE table1
        /\ in_fd' = in1
        /\ out_fd' = out1

\* A command without a bar: one program, then both files are closed.
Simple ==
    /\ at = "prompt"
    /\ \E in, out \in BOOLEAN :
          /\ Redirect(in, out)
          /\ prog' = [prog EXCEPT ![1] = Program(ChildTable(fd', in_fd', out_fd'))]
    /\ at' = "simple"
    /\ spawned' = 1 /\ i' = 1 /\ nseg' = 1
    /\ UNCHANGED <<prev_read_fd, count, quitters>>

\* do_waitpid() and the end of the simple case.
SimpleDone ==
    /\ at = "simple"
    /\ ~prog[1].alive
    /\ fd' = sys_close(sys_close(fd, in_fd), out_fd)
    /\ at' = "prompt"
    /\ prog' = [c \in Commands |-> NoProgram]
    /\ quitters' = {}
    /\ in_fd' = -1 /\ out_fd' = -1
    /\ UNCHANGED <<nseg, i, spawned, prev_read_fd, count, fd_before>>

\* A pipeline: its files are opened.
Pipeline ==
    /\ at = "prompt"
    /\ \E n \in Commands \ {1} : nseg' = n
    /\ \E in, out \in BOOLEAN : Redirect(in, out)
    /\ prev_read_fd' = in_fd'
    /\ i' = 1 /\ spawned' = 0
    /\ at' = "start"
    /\ UNCHANGED <<prog, count, quitters>>

\* Mutant: the shell keeps the write end it has given to the child.
AfterSpawnKeeps(table, prev, wfd) == sys_close(table, prev)

\* "Close parent's copies of FDs given to child".
AfterSpawn(table, prev, wfd) == sys_close(sys_close(table, prev), wfd)

\* do_spawn_fd() of command i and what follows it, when the shell has table and
\* the ends rfd and wfd of the next pipe (-1 at the end of the pipeline).
Launch(table, rfd, wfd) ==
    LET stdout == IF wfd = -1 THEN out_fd ELSE wfd
        rest == AfterSpawn(table, prev_read_fd, wfd)
    IN  \/ /\ prog' = [prog EXCEPT ![i] =
                          Program(ChildTable(table, prev_read_fd, stdout))]
           /\ spawned' = spawned + 1
           /\ prev_read_fd' = rfd
           /\ fd' = rest
           /\ i' = i + 1
           /\ at' = IF i = nseg THEN "wait" ELSE "start"
        \/ /\ SpawnMayFail              \* "exec failed"
           /\ fd' = sys_close(rest, rfd)
           /\ at' = "wait"
           /\ UNCHANGED <<prog, spawned, prev_read_fd, i>>

\* do_pipe() succeeds.
CanPipe == FreePipes # {} /\ Cardinality(FreeFds(fd)) >= 2

\* One turn of the loop that starts the commands.
Start ==
    /\ at = "start"
    /\ IF i = nseg
       THEN Launch(fd, -1, -1) /\ UNCHANGED count
       ELSE /\ CanPipe
            /\ LET k == Min(FreePipes)
                   rfd == fd_alloc(fd)
                   table1 == [fd EXCEPT ![rfd] = ReadEnd(k)]
                   wfd == fd_alloc(table1)
               IN  /\ Launch([table1 EXCEPT ![wfd] = WriteEnd(k)], rfd, wfd)
                   /\ count' = [count EXCEPT ![k] = 0]
    /\ UNCHANGED <<nseg, in_fd, out_fd, quitters, fd_before>>

\* The turn in which do_pipe() fails, or the command is empty: the loop is
\* left, with prev_read_fd open.  When the first command is empty that is in_fd,
\* which nobody closes then.
Break ==
    /\ at = "start"
    /\ i \in EmptyAt \/ (i < nseg /\ ~CanPipe)
    /\ at' = "wait"
    /\ UNCHANGED <<nseg, i, spawned, fd, in_fd, out_fd, prev_read_fd, prog,
                   count, quitters, fd_before>>

\* Mutant: the last read end is left to the next command.
LeftoversOutput == sys_close(fd, out_fd)

\* "Close remaining FDs".
Leftovers ==
    sys_close(IF prev_read_fd # in_fd THEN sys_close(fd, prev_read_fd) ELSE fd,
              out_fd)

\* do_waitpid() has returned for every program.
PipelineDone ==
    /\ at = "wait"
    /\ \A c \in 1..spawned : ~prog[c].alive
    /\ fd' = Leftovers
    /\ at' = "prompt"
    /\ prog' = [c \in Commands |-> NoProgram]
    /\ quitters' = {}
    /\ in_fd' = -1 /\ out_fd' = -1 /\ prev_read_fd' = -1
    /\ UNCHANGED <<nseg, i, spawned, count, fd_before>>

-----------------------------------------------------------------------------
(* Programs *)

Running(c) == at \in {"simple", "wait"} /\ prog[c].alive

\* do_exit() closes every descriptor.
Leave(c) == prog' = [prog EXCEPT ![c] = NoProgram]

\* A unit is read, and dropped or kept to be written.
Read(c) ==
    LET in == prog[c].fd[0]
    IN  /\ Running(c) /\ ~prog[c].unit
        /\ in.end = "read" /\ count[in.pipe] > 0
        /\ count' = [count EXCEPT ![in.pipe] = @ - 1]
        /\ \E keep \in BOOLEAN : prog' = [prog EXCEPT ![c].unit = keep]
        /\ UNCHANGED <<local, fd, quitters, fd_before>>

\* A unit of a program that reads no pipe.
Produce(c) ==
    /\ Running(c) /\ ~prog[c].unit
    /\ prog[c].left > 0
    /\ prog' = [prog EXCEPT ![c].left = @ - 1, ![c].unit = TRUE]
    /\ UNCHANGED <<local, fd, count, quitters, fd_before>>

\* pipe_write(): the unit goes into the pipe if it has room; without readers
\* the program leaves.  The console and files take everything.
Write(c) ==
    LET out == prog[c].fd[1]
    IN  /\ Running(c) /\ prog[c].unit
        /\ \/ /\ out.end = "write"
              /\ Open(ReadEnd(out.pipe)) /\ count[out.pipe] < PIPE_SIZE
              /\ count' = [count EXCEPT ![out.pipe] = @ + 1]
              /\ prog' = [prog EXCEPT ![c].unit = FALSE]
           \/ /\ out.end = "write" /\ ~Open(ReadEnd(out.pipe))
              /\ Leave(c)
              /\ UNCHANGED count
           \/ /\ out.end # "write"
              /\ prog' = [prog EXCEPT ![c].unit = FALSE]
              /\ UNCHANGED count
        /\ UNCHANGED <<local, fd, quitters, fd_before>>

\* End of input: pipe_read() returns 0, or everything has been written.
Finish(c) ==
    LET in == prog[c].fd[0]
    IN  /\ Running(c) /\ ~prog[c].unit
        /\ IF in.end = "read"
           THEN count[in.pipe] = 0 /\ ~Open(WriteEnd(in.pipe))
           ELSE prog[c].left = 0
        /\ Leave(c)
        /\ UNCHANGED <<local, fd, count, quitters, fd_before>>

\* A reader of a pipe leaves early.
Quit(c) ==
    /\ Running(c)
    /\ prog[c].fd[0].end = "read"
    /\ Leave(c)
    /\ quitters' = quitters \cup {c}
    /\ UNCHANGED <<local, fd, count, fd_before>>

Shell == Simple \/ SimpleDone \/ Pipeline \/ Start \/ Break \/ PipelineDone
Step(c) == Read(c) \/ Produce(c) \/ Write(c) \/ Finish(c)

ShellNext == Shell \/ \E c \in Commands : Step(c) \/ Quit(c)

ShellSpec == ShellInit /\ [][ShellNext]_shell_vars

\* Programs are not starved (Proc!NoStarvation), nor is the shell; nobody need
\* type a command.
FairShellSpec ==
    /\ ShellSpec
    /\ \A c \in Commands : WF_shell_vars(Step(c))
    /\ WF_shell_vars(SimpleDone \/ Start \/ PipelineDone)

-----------------------------------------------------------------------------
(* Properties *)

\* A command leaves the shell with the descriptors it had, whichever spawn or
\* pipe failed on the way ("Close remaining FDs", main.c:1214).  The exception
\* is a pipeline with redirected input whose loop is left early: in_fd is not
\* closed, or not prev_read_fd when it has been given the same number.
DescriptorsRestored ==
    [][at # "prompt" /\ at' = "prompt"
         => fd' = fd_before \/ (in_fd # -1 /\ spawned < nseg)]_shell_vars

\* A pipeline whose commands have all been started returns to the prompt: every
\* program meets the end of its input, which takes that nobody but the program
\* before it holds the write end; or some program has left its input early.
FullPipelineReturns ==
    (at = "wait" /\ spawned = nseg) ~> (at = "prompt" \/ quitters # {})

\* Whatever its programs do, the shell gets to "Wait for all pipeline processes
\* to complete" (main.c:1208) and returns to the prompt.
PipelineReturns == at = "wait" ~> at = "prompt"

-----------------------------------------------------------------------------
(* Inductive invariant *)

\* What table has open is what the shell had open when the command was typed,
\* but for S, whose descriptors were free then.
OnlyOpened(table, S) ==
    /\ \A d \in S \cap Fds : fd_before[d] = None
    /\ \A d \in Fds \ S : table[d] = fd_before[d]

\* in_fd is prev_read_fd until the first program has been started.
ShellInv ==
    /\ fd = [d \in Fds |-> fd[d]] /\ fd_before = [d \in Fds |-> fd_before[d]]
    /\ at \in {"prompt", "simple", "start", "wait"}
    /\ at = "prompt" => in_fd = -1 /\ out_fd = -1 /\ prev_read_fd = -1
    /\ at = "simple" => prev_read_fd = -1 /\ OnlyOpened(fd, {in_fd, out_fd})
    /\ at = "start" => i \in 1..nseg /\ spawned = i - 1
    /\ at \in {"start", "wait"} =>
          /\ nseg \in Commands /\ spawned \in 0..nseg
          /\ spawned = nseg => prev_read_fd = -1
          /\ OnlyOpened(fd, {out_fd, prev_read_fd})
=============================================================================
