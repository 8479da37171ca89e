------------------------------ MODULE OpenFiles ------------------------------
(***************************************************************************)
(* File descriptors: the fd tables of the processes, the system-wide table *)
(* of open files they share, and the reader and writer counts of pipes and *)
(* references to inodes that hang on the open files' reference counts.     *)
(* kernel/proc.c, and the FD_CLOEXEC loop of do_exec() in kernel/exec.c.   *)
(*                                                                         *)
(* None of this code sleeps, so a system call is one step; which process   *)
(* comes next is Proc's affair and left open here, except that a parent in *)
(* vfork stands still.                                                     *)
(***************************************************************************)
EXTENDS Integers, FiniteSets, FiniteSetsExt

CONSTANTS
    MAXPROC,        \* slots of proctab[] (16)
    MAXFD,          \* descriptors per process (16)
    MAXOPEN,        \* open files (64)
    MAXPIPE,        \* pipes (4)
    StdFds,         \* descriptors process 0 starts with (3)
    RefModulus,     \* refcount is a uint8_t: 256
    Inodes,         \* files that can be opened
    HighFds,        \* where shells keep descriptors of their own: what they give
                    \* F_DUPFD as the minimum and set FD_CLOEXEC on
    FailingDup,     \* do programs dup() with their table full?
    DirectExec      \* do programs exec outside a vfork window, or make pipes
                    \* in one?

ASSUME OpenFilesAssumption ==
    /\ MAXPROC \in Nat \ {0}
    /\ MAXFD \in Nat \ {0}
    /\ MAXOPEN \in Nat \ {0}
    /\ MAXPIPE \in Nat \ {0}
    /\ StdFds \in 0..MAXFD /\ StdFds <= MAXOPEN
    /\ RefModulus \in Nat \ {0, 1}
    /\ HighFds \subseteq 0..(MAXFD - 1)
    /\ FailingDup \in BOOLEAN
    /\ DirectExec \in BOOLEAN

Procs == 0..(MAXPROC - 1)
Fds == 0..(MAXFD - 1)
Ofiles == 0..(MAXOPEN - 1)
Pipes == 0..(MAXPIPE - 1)
NULL == -1

VARIABLES
    fd,             \* proctab[p].fd[i]: an open file, or NULL
    fd_flags,       \* the descriptors of p with FD_CLOEXEC
    refcount,       \* ofile_table[o].refcount
    file,           \* what ofile_table[o] refers to
    readers, writers,   \* pipe_table[k]
    iref,           \* references to an inode that open files hold
    live,           \* processes that are not free or zombies
    parent,         \* the process that vforked p, while it waits for p
    last            \* the descriptor the last call made, if it made one

vars == <<fd, fd_flags, refcount, file, readers, writers, iref, live, parent, last>>

\* What an open file refers to: the console (no inode), an inode, or an end of
\* a pipe (the index is kept in the inode pointer, the end in flags).
Console == [kind |-> "console", id |-> 0]
InodeFile(i) == [kind |-> "inode", id |-> i]
ReadEnd(k) == [kind |-> "pipe_read", id |-> k]
WriteEnd(k) == [kind |-> "pipe_write", id |-> k]
Files ==
    {Console} \cup {InodeFile(i) : i \in Inodes}
    \cup {ReadEnd(k) : k \in Pipes} \cup {WriteEnd(k) : k \in Pipes}

NoFd == [p |-> NULL, fd |-> NULL]

TypeOK ==
    /\ fd \in [Procs -> [Fds -> Ofiles \cup {NULL}]]
    /\ fd_flags \in [Procs -> SUBSET Fds]
    /\ refcount \in [Ofiles -> 0..(RefModulus - 1)]
    /\ file \in [Ofiles -> Files]
    /\ readers \in [Pipes -> {0, 1}]
    /\ writers \in [Pipes -> {0, 1}]
    /\ iref \in [Inodes -> 0..MAXOPEN]
    /\ live \subseteq Procs
    /\ parent \in [Procs -> Procs \cup {NULL}]
    /\ last \in [p : Procs \cup {NULL}, fd : Fds \cup {NULL}]

\* proc_init(): process 0 has the console as its first descriptors, an open
\* file each.
Init ==
    /\ fd = [p \in Procs |-> [i \in Fds |-> IF p = 0 /\ i < StdFds THEN i ELSE NULL]]
    /\ fd_flags = [p \in Procs |-> {}]
    /\ refcount = [o \in Ofiles |-> IF o < StdFds THEN 1 ELSE 0]
    /\ file = [o \in Ofiles |-> Console]
    /\ readers = [k \in Pipes |-> 0]
    /\ writers = [k \in Pipes |-> 0]
    /\ iref = [i \in Inodes |-> 0]
    /\ live = {0}
    /\ parent = [p \in Procs |-> NULL]
    /\ last = NoFd

-----------------------------------------------------------------------------
(* Helpers *)

\* p can run: it is not frozen in vfork.
Runs(p) == p \in live /\ \A c \in Procs : parent[c] # p

\* p can run and is not the kernel's own process, which only opens and closes
\* files, makes pipes and spawns (shell_exec_cmd in kernel/main.c).
RunsProgram(p) == Runs(p) /\ p # 0

IsOpen(p, i) == fd[p][i] # NULL
FreeFds(p, min) == {i \in Fds : i >= min /\ ~IsOpen(p, i)}
FreeOfiles == {o \in Ofiles : refcount[o] = 0}
FreePipes == {k \in Pipes : readers[k] = 0 /\ writers[k] = 0}

\* Descriptors of table t that refer to o.
RefsIn(t, o) == {i \in Fds : t[i] = o}
Refs(o) == {d \in Procs \X Fds : fd[d[1]][d[2]] = o}

NoRefs == [o \in Ofiles |-> 0]
OneRef(o) == [NoRefs EXCEPT ![o] = 1]
AllRefs(t) == [o \in Ofiles |-> Cardinality(RefsIn(t, o))]

\* Mutant: the open file survives its last descriptor.
GoneNever(drop) == {}

\* The open files whose count reaches zero when drop[o] references are dropped.
Gone(drop) == {o \in Ofiles : refcount[o] \in 1..drop[o]}

\* Mutant: a pipe end is closed with every descriptor.
ClosedEndsAlways(drop) == {file[o] : o \in {q \in Ofiles : drop[q] > 0}}

\* What sys_close() and do_exit() close for good.
ClosedEnds(drop) == {file[o] : o \in Gone(drop)}

\* "of->inode = NULL".
Emptied(drop) == [o \in Ofiles |-> IF o \in Gone(drop) THEN Console ELSE file[o]]

\* References are dropped, then others added.  An open file that reaches zero
\* is closed: a pipe end leaves the pipe, an inode is put.
Recount(drop, add) ==
    LET ends == ClosedEnds(drop)
    IN  /\ refcount' = [o \in Ofiles |-> (refcount[o] - drop[o] + add[o]) % RefModulus]
        /\ readers' = [k \in Pipes |-> IF ReadEnd(k) \in ends THEN 0 ELSE readers[k]]
        /\ writers' = [k \in Pipes |-> IF WriteEnd(k) \in ends THEN 0 ELSE writers[k]]
        /\ iref' = [i \in Inodes |->
                       iref[i] - Cardinality({o \in Gone(drop) : file[o] = InodeFile(i)})]
        /\ file' = Emptied(drop)

Made(p, i) == last' = [p |-> p, fd |-> i]
MadeNone == last' = NoFd

-----------------------------------------------------------------------------
(* open, close, dup, fcntl *)

\* SYS_OPEN of a file that exists.  ENFILE and EMFILE put the inode and leave
\* everything as it was.
SysOpen(p) ==
    /\ Runs(p)
    /\ \/ \E i \in Inodes :
             /\ FreeOfiles # {} /\ FreeFds(p, 0) # {}
             /\ LET o == Min(FreeOfiles)
                    n == Min(FreeFds(p, 0))
                IN  /\ refcount' = [refcount EXCEPT ![o] = 1]
                    /\ file' = [file EXCEPT ![o] = InodeFile(i)]
                    /\ fd' = [fd EXCEPT ![p][n] = o]
                    /\ Made(p, n)
             /\ iref' = [iref EXCEPT ![i] = @ + 1]
       \/ /\ FreeOfiles = {} \/ FreeFds(p, 0) = {}
          /\ MadeNone
          /\ UNCHANGED <<refcount, file, fd, iref>>
    /\ UNCHANGED <<fd_flags, readers, writers, live, parent>>

\* sys_close() of descriptor i.  FD_CLOEXEC stays behind.  Process 0 keeps its
\* console.
SysClose(p) ==
    /\ Runs(p)
    /\ \E i \in Fds :
          /\ IsOpen(p, i)
          /\ p = 0 => i >= StdFds
          /\ fd' = [fd EXCEPT ![p][i] = NULL]
          /\ Recount(OneRef(fd[p][i]), NoRefs)
    /\ MadeNone
    /\ UNCHANGED <<fd_flags, live, parent>>

\* sys_dup().  When the table is full the count stays up.
SysDup(p) ==
    /\ RunsProgram(p)
    /\ \E i \in Fds :
          /\ IsOpen(p, i)
          /\ Recount(NoRefs, OneRef(fd[p][i]))
          /\ \/ /\ FreeFds(p, 0) # {}
                /\ fd' = [fd EXCEPT ![p][Min(FreeFds(p, 0))] = fd[p][i]]
                /\ Made(p, Min(FreeFds(p, 0)))
             \/ /\ FreeFds(p, 0) = {}
                /\ FailingDup
                /\ MadeNone
                /\ UNCHANGED fd
    /\ UNCHANGED <<fd_flags, live, parent>>

\* sys_dup2().  The new descriptor is closed first if it is open; if it is the
\* old one, there is nothing left to duplicate (the count that is incremented
\* is at address NULL).
SysDup2(p) ==
    /\ RunsProgram(p)
    /\ \E old, new \in Fds :
          /\ IsOpen(p, old)
          /\ IF old = new
             THEN /\ fd' = [fd EXCEPT ![p][new] = NULL]
                  /\ Recount(OneRef(fd[p][old]), NoRefs)
             ELSE /\ fd' = [fd EXCEPT ![p][new] = fd[p][old]]
                  /\ Recount(IF IsOpen(p, new) THEN OneRef(fd[p][new]) ELSE NoRefs,
                             OneRef(fd[p][old]))
          /\ Made(p, new)
    /\ UNCHANGED <<fd_flags, live, parent>>

\* SYS_FCNTL, F_DUPFD.  When there is no descriptor the count is put back.
FDupfd(p) ==
    /\ RunsProgram(p)
    /\ \E i \in Fds, min \in HighFds :
          /\ IsOpen(p, i)
          /\ \/ /\ FreeFds(p, min) # {}
                /\ Recount(NoRefs, OneRef(fd[p][i]))
                /\ fd' = [fd EXCEPT ![p][Min(FreeFds(p, min))] = fd[p][i]]
                /\ Made(p, Min(FreeFds(p, min)))
             \/ /\ FreeFds(p, min) = {}
                /\ MadeNone
                /\ UNCHANGED <<fd, refcount, file, readers, writers, iref>>
    /\ UNCHANGED <<fd_flags, live, parent>>

\* SYS_FCNTL, F_SETFD.
FSetfd(p) ==
    /\ RunsProgram(p)
    /\ \E i \in HighFds :
          /\ IsOpen(p, i)
          /\ fd_flags' \in {[fd_flags EXCEPT ![p] = @ \cup {i}],
                            [fd_flags EXCEPT ![p] = @ \ {i}]}
    /\ MadeNone
    /\ UNCHANGED <<fd, refcount, file, readers, writers, iref, live, parent>>

-----------------------------------------------------------------------------
(* pipe *)

\* Mutant: the error path leaves the reader counted.
PipeUndoneHalf(k) == readers' = [readers EXCEPT ![k] = 1] /\ UNCHANGED writers

\* What the error paths of do_pipe() make of pipe k.
PipeUndone(k) == UNCHANGED <<readers, writers>>

\* do_pipe().  Two open files and two descriptors, or nothing.
DoPipe(p) ==
    LET k == Min(FreePipes)
        r == Min(FreeOfiles)
        w == Min(FreeOfiles \ {r})
        i == Min(FreeFds(p, 0))
        j == Min(FreeFds(p, 0) \ {i})
        room == Cardinality(FreeOfiles) >= 2 /\ Cardinality(FreeFds(p, 0)) >= 2
    IN  /\ Runs(p)
        /\ DirectExec \/ parent[p] = NULL
        /\ \/ /\ FreePipes # {} /\ room
              /\ readers' = [readers EXCEPT ![k] = 1]
              /\ writers' = [writers EXCEPT ![k] = 1]
              /\ refcount' = [refcount EXCEPT ![r] = 1, ![w] = 1]
              /\ file' = [file EXCEPT ![r] = ReadEnd(k), ![w] = WriteEnd(k)]
              /\ fd' = [fd EXCEPT ![p][i] = r, ![p][j] = w]
              /\ Made(p, j)
           \/ /\ FreePipes # {} /\ ~room
              /\ PipeUndone(k)
              /\ MadeNone
              /\ UNCHANGED <<refcount, file, fd>>
           \/ /\ FreePipes = {}
              /\ MadeNone
              /\ UNCHANGED <<readers, writers, refcount, file, fd>>
        /\ UNCHANGED <<fd_flags, iref, live, parent>>

-----------------------------------------------------------------------------
(* Processes *)

\* Mutant: the child's descriptors are not counted.
InheritUncounted(t) == NoRefs

\* "Increment refcounts on open file descriptors", do_vfork() and do_spawn().
Inherit(t) == AllRefs(t)

\* do_vfork(): the child gets a copy of the table.
Vfork(p) ==
    /\ RunsProgram(p)
    /\ \E c \in Procs \ live :
          /\ fd' = [fd EXCEPT ![c] = fd[p]]
          /\ fd_flags' = [fd_flags EXCEPT ![c] = fd_flags[p]]
          /\ Recount(NoRefs, Inherit(fd[p]))
          /\ live' = live \cup {c}
          /\ parent' = [parent EXCEPT ![c] = p]
    /\ MadeNone

\* do_spawn_fd() by process 0: the child's first descriptors are replaced by
\* descriptors of the caller's.  The inherited ones they replace were counted a
\* moment ago on top of the caller's, so no count reaches zero.  When loading
\* the program fails, do_spawn() takes back what it counted.
SpawnFd ==
    /\ Runs(0)
    /\ \E c \in Procs \ live :
         \E map \in [0..(StdFds - 1) -> {i \in Fds : IsOpen(0, i)} \cup {NULL}] :
          LET table == [i \in Fds |->
                           IF i < StdFds /\ map[i] # NULL THEN fd[0][map[i]] ELSE fd[0][i]]
          IN  /\ fd' = [fd EXCEPT ![c] = table]
              /\ fd_flags' = [fd_flags EXCEPT ![c] = fd_flags[0]]
              /\ Recount(NoRefs, Inherit(table))
              /\ live' = live \cup {c}
    /\ MadeNone
    /\ UNCHANGED parent

\* do_exit(): all descriptors are closed, and a parent in vfork goes on.  (An
\* exit during a synchronous exec, ExecLeave in Proc, closes nothing and is no
\* step here.)
DoExit(p) ==
    /\ RunsProgram(p)
    /\ fd' = [fd EXCEPT ![p] = [i \in Fds |-> NULL]]
    /\ Recount(AllRefs(fd[p]), NoRefs)
    /\ live' = live \ {p}
    /\ parent' = [parent EXCEPT ![p] = NULL]
    /\ MadeNone
    /\ UNCHANGED fd_flags

\* do_exec(): the descriptors with FD_CLOEXEC are closed.  This loop takes a
\* pipe's index for a pointer to an inode and does not tell the pipe, which
\* matters when nobody else has that end open.
DoExec(p) ==
    LET closed == {i \in fd_flags[p] : IsOpen(p, i)}
        drop == [o \in Ofiles |-> Cardinality(RefsIn(fd[p], o) \cap closed)]
    IN  /\ RunsProgram(p)
        /\ DirectExec \/ parent[p] # NULL
        /\ fd' = [fd EXCEPT ![p] = [i \in Fds |-> IF i \in closed THEN NULL ELSE @[i]]]
        /\ fd_flags' = [fd_flags EXCEPT ![p] = @ \ closed]
        /\ refcount' = [o \in Ofiles |-> (refcount[o] - drop[o]) % RefModulus]
        /\ iref' = [i \in Inodes |->
                       iref[i] - Cardinality({o \in Gone(drop) : file[o] = InodeFile(i)})]
        /\ file' = Emptied(drop)
        /\ parent' = [parent EXCEPT ![p] = NULL]
        /\ MadeNone
        /\ UNCHANGED <<readers, writers, live>>

Next ==
    \/ \E p \in Procs :
          \/ SysOpen(p) \/ SysClose(p) \/ SysDup(p) \/ SysDup2(p)
          \/ FDupfd(p) \/ FSetfd(p) \/ DoPipe(p)
          \/ Vfork(p) \/ DoExit(p) \/ DoExec(p)
    \/ SpawnFd

Spec == Init /\ [][Next]_vars

-----------------------------------------------------------------------------
(* Properties *)

\* Every open file counts exactly the descriptors that refer to it, over all
\* processes: "ofile refcount tracks correctly across dup/close"
\* (tests/test_syscalls.c), vfork, spawn, exec and exit.
RefcountExact == \A o \in Ofiles : refcount[o] = Cardinality(Refs(o))

\* A pipe has a reader, or a writer, exactly as long as some process has a
\* descriptor for that end: readers see the end of the file when, and only
\* when, the last writer has gone.
PipeEnds ==
    \A k \in Pipes :
        /\ readers[k] = 1 <=> \E o \in Ofiles : Refs(o) # {} /\ file[o] = ReadEnd(k)
        /\ writers[k] = 1 <=> \E o \in Ofiles : Refs(o) # {} /\ file[o] = WriteEnd(k)

\* Open files hold one reference each to their inode, so that fs_iput() frees
\* an unlinked file neither too early nor never.
InodeRefs ==
    \A i \in Inodes :
        iref[i] = Cardinality({o \in Ofiles : Refs(o) # {} /\ file[o] = InodeFile(i)})

\* An open file that somebody refers to is never given away: what a descriptor
\* refers to changes only when the descriptor does.
DescriptorStable ==
    [][\A p \in Procs, i \in Fds :
          fd[p][i] # NULL /\ fd'[p][i] = fd[p][i] => file'[fd[p][i]] = file[fd[p][i]]]_vars

\* Does not hold.  "new fd1 should have fd_flags = 0 (POSIX: dup2 clears FD_CLOEXEC)"
\* (tests/test_syscalls.c): a new descriptor starts without FD_CLOEXEC.
NewFdNotCloexec ==
    last # NoFd => last.fd \notin fd_flags[last.p]
-----------------------------------------------------------------------------
(* Inductive invariants *)

\* What CountInv and PipeInv hold under.  The kernel's 16 processes of 16
\* descriptors are just the 256 a byte can count: they are enough because
\* process 0 never duplicates a descriptor, so that no open file has them all.
CountsFit == ~FailingDup /\ MAXFD >= 2 /\ MAXPROC * MAXFD <= RefModulus

\* Process 0 is there, and each of its descriptors has an open file of its own.
ProcessZeroShares ==
    /\ 0 \in live
    /\ \A i, j \in Fds : IsOpen(0, i) /\ fd[0][i] = fd[0][j] => i = j

\* A slot that is not in use holds no descriptors and is nobody's child.
DeadHoldNothing ==
    \A p \in Procs \ live : parent[p] = NULL /\ \A i \in Fds : ~IsOpen(p, i)

\* An open file that is free refers to nothing.
FreeFilesEmpty == \A o \in FreeOfiles : file[o] = Console

CountInv ==
    /\ TypeOK
    /\ ProcessZeroShares
    /\ DeadHoldNothing
    /\ FreeFilesEmpty
    /\ RefcountExact
    /\ InodeRefs

\* A parent that waits is alive.
ParentsLive == \A c \in Procs : parent[c] # NULL => parent[c] \in live

\* An end of a pipe is one open file.
PipeFiles == {ReadEnd(k) : k \in Pipes} \cup {WriteEnd(k) : k \in Pipes}
EndsUnique ==
    \A o1, o2 \in Ofiles : file[o1] \in PipeFiles /\ file[o1] = file[o2] => o1 = o2

\* Every end of a pipe that a vforked child has open, its parent has open too,
\* and the parent stands still: FD_CLOEXEC closes no last descriptor.
WindowPipes ==
    \A c \in Procs, i \in Fds :
        parent[c] # NULL /\ IsOpen(c, i) /\ file[fd[c][i]] \in PipeFiles =>
            \E j \in Fds : fd[parent[c]][j] = fd[c][i]

PipeInv == ParentsLive /\ EndsUnique /\ WindowPipes /\ PipeEnds

=============================================================================
