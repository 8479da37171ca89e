# Genix in TLA+

A verification development for the Genix kernel (`kernel/`): a small Unix-like
system for the 68000 with vfork, pipes, signals and a MINIX-style file system.
There is one CPU and no memory protection between processes, so most of what can
go wrong is a matter of order: who runs next, who sleeps, who is woken, who still
refers to what, and what is on the disk when the power goes.

## The system

| Component | State | Operations | Meets the others through |
|---|---|---|---|
| Scheduler (`proc.c: schedule`, `exec_asm.S: swtch`) | `proctab[].state`, `curproc` | `schedule()`, wakeups | everybody's blocking loops |
| Processes (`proc.c`, tail of `exec.c: do_exec`, `main.c: kmain`) | `ppid`, `nproc`, `next_pid`, `vfork_ctx`, `exec_active` | vfork, exec, exit, waitpid, spawn | scheduler, descriptors, memory |
| Signals (`proc.c: sig_deliver`, `SYS_KILL`, `SYS_SIGNAL`) | `sig_pending`, `sig_handler` | kill, signal, delivery, sigreturn | scheduler, exit |
| Pipes (`proc.c: pipe_*`) | ring, `count`, `readers`, `writers`, one sleeping slot per side | read, write, close | scheduler, signals, open files |
| Descriptors and open files (`proc.c: sys_*`) | `fd[]`, `fd_flags[]`, `ofile_table[].refcount` | open, close, dup, fcntl, pipe, inheritance, close-on-exec | pipes, inodes |
| User memory (`mem.c`) | `mem_base`, `mem_size`, `brk` of the process table | `umem_alloc`, `sbrk_proc` | spawn, vfork, exec, exit |
| Kernel heap (`mem.c`) | free list | `kmalloc`, `kfree` | nobody calls it |
| File system (`fs.c`) | superblock and its free list, inode cache, directories | create, read, write, unlink, rename, mkdir, truncate | open files, buffer cache |
| Buffer cache (`buf.c`) | `bufs[]` | `bread`, `bwrite`, `brelse` | file system, disk |
| TTY (`tty.c`) | input queue, line buffer, `canon_ready`, `waiting` | `tty_inproc`, `tty_read` | keyboard interrupt, scheduler, signals |
| Loader (`exec.c`) | | header checks, loading, relocation | memory, file system |
| Builtin shell (`main.c`) | its descriptors | commands, redirections, pipelines | spawn, pipes, waitpid |
| Devices and platform (`dev.c`, `pal/`) | VDP owner, escape parser, keyboard | | TTY, disk |

**Execution model.** The kernel is never preempted. A process keeps the CPU until
it calls `schedule()`: from the timer interrupt in user mode, from a blocking call,
or from `do_exit()`. Every blocking call is a loop around `schedule()` that tests
its condition again. `schedule()` picks the next `P_READY` slot in round-robin order
and, when there is none, returns at once, in whatever state the caller has put
itself. That last point is where most of the difficulty lies. Interrupts do not
switch processes in the kernel, but on the Mega Drive the keyboard interrupt runs
the line discipline in the middle of `tty_read()`.

**Hard behaviours.** vfork shares the parent's memory and resumes it by a long jump;
wakeups come from several places for reasons the sleeper did not ask for; a pipe
and the terminal remember one sleeper each; reference counts are touched by every call
that makes or ends a process or a descriptor; signals stop, continue and kill
processes in the middle of these protocols; error paths must give back exactly what
they took; buffers are not pinned; the disk is written block by block, with no journal.
`PROJECT.json` lists the hazards with their lines and the properties that watch them.

## Modules

| Module | What it models |
|---|---|
| `Sched` | `schedule()` and the wakeup idiom, as operators on the table |
| `Proc` | the process table: exit, vfork, exec, waitpid, spawn, signals, timer, process 0 |
| `PipeFifo` | what a pipe promises: a bounded FIFO queue of bytes |
| `Pipe` | the ring, the sleeping slots and the closes; implements `PipeFifo` |
| `OpenFiles` | descriptor tables, open files, pipe ends and inode references |
| `FileTree` | what a disk promises: names, of which a step adds, removes or changes one |
| `MiniFs` | inodes, directories, free list and file calls, on a disk that may lose power; implements `FileTree` |
| `BufCache` | the buffer cache under the functions of `fs.c` that keep pointers into it |
| `TypeAhead` | what an input queue promises: characters, in order, once |
| `Tty` | line discipline, reader and keyboard interrupt; implements `TypeAhead` |
| `UserMem` | where programs are put in memory, and the heap they grow |
| `ShellPipeline` | commands of the builtin shell, over pipes, spawn and waitpid |
| `MC...` | instances for TLC |
| `Programs_proofs` | theorems about `Proc` and about the shell that starts programs, `ShellPipeline` |
| `Pipe_proofs` | theorems about `Pipe`, one of them that it implements `PipeFifo` |
| `OpenFiles_proofs`, `Tty_proofs`, `UserMem_proofs`, `BufCache_proofs` | theorems about the module of that name |
| `MiniFsDisk_proofs` | what the functions of `MiniFs` below directories do to the disk, as lemmas |
| `MiniFs_proofs` | directories, calls, crash and boot; theorems about `MiniFs` |

`Proc`, `Pipe` and `Tty` extend `Sched`. Each module models a handler whole as far as
that module's state goes; a handler that touches several parts appears in several
modules. `do_exit()`, for instance, is `DoExit` of `Proc` (table, parents, vfork,
scheduling), `Exit` of `Pipe` (closing the ends of one pipe, and the scheduling),
`DoExit` of `OpenFiles` (all descriptors) and `ExitProcess` and `ExecLeave` of `UserMem`
(memory). What one module assumes of a part that another models is checked there:
`ShellPipeline` takes from `Pipe` that pipes are queues, from `OpenFiles` that an end
is open exactly while a descriptor refers to it, and from `Proc` that nobody starves;
`MiniFs` takes from `BufCache` that buffers hold what the disk holds, but not that a
pointer into a buffer stays good, which `block_map_evict` refutes.

Operators named `...Never`, `...Quietly`, `...Uncounted` and the like, marked "Mutant",
are broken variants used to test that the properties can fail; nothing refers to them.

### Proc

`pc[p]` and `arg[p]` are p's continuation: `"user"`; `"sig"`, in the loop of
`sig_deliver()` on the way back to user mode; `"wait"`, in `do_waitpid()`'s loop;
`"read"`, in the loop of `tty_read()`, `pipe_read()` or `pipe_write()`; `"kmain"` for process 0; `"wild"` once the CPU runs on an overwritten stack. An
action is one pass through kernel code up to the next point where another process
may run. System calls that neither block nor touch the table or signals (and `sigreturn`) do
here what `waitpid(WNOHANG)` without a zombie does: they go back to user mode by way
of `sig_deliver()`.

A read or write that blocks is `SysRead`, turns of `ReadBlocks`, and `ReadReturns`. What it waits
for is not modelled (`Pipe` and `Tty` do): it may return after any turn, or never, and
`WakeReader` may wake the sleeper at any moment. When nobody is READY `schedule()` comes back at
once; if the key comes then, the read returns to a program whose process is still
marked SLEEPING, or READY if `tty_wake_reader()` has marked it. This is the ordinary state of
a shell that has read a line at its prompt while everybody else waits. `dozing` remembers to
whom it has happened: `UserModeIsRunning` says that only they run a program without being marked
RUNNING, and never as zombies, stopped or frozen. The next switch puts such a process out
for good if it is SLEEPING (`asleep` under Tty).

`aspace[p]` says whose memory p executes in. It is not a variable of the kernel but
what `mem_base == 0` after vfork means: the child runs on its parent's memory until it
execs.

`ExecLeave` models the global `exec_active`: an exit while any process is in a
synchronous `do_exec()` continues after that process's `exec_enter()`. Whether that
stack is still intact depends on the traps taken since; both outcomes are allowed, the
bad one leads to `"wild"`, of which nothing is assumed.

Typing `halt` at the builtin shell, which stops the machine, is left out, and `kill`
with signal 0 or to a pid that does not exist, which does nothing.

Constants describe the workload. `Background`: may a process vfork while it has
another live child, or inside a vfork window? `InPlaceExec`: may a program exec
outside a vfork window? `Signals`, `Dispositions`, `WaitPids`: what is sent, installed
and waited for. `Readers`: who makes calls that block. `SpawnErrors`: may loading fail? `MaxPending` bounds how many
processes have signals waiting.

### Pipe and PipeFifo

`call[p]`, `slept[p]` and `out[p]` record the call p is in, whether it is inside
`schedule()` in that call, and what its last call returned. `rend` and `wend` are the
processes that have an end open (the open file's reference count). The ring is
modelled with its positions; the copying loops, which run at most twice because a
transfer crosses the end of the ring at most once, are `Chunk` applied twice. `PipeFifo`
is implemented with `queue` mapped to the ring's contents, oldest first. A write of no
bytes that finds readers and room fails with EPIPE in the code; the abstract queue says
so as well.

### OpenFiles

None of this code sleeps, so a system call is one step. `Recount(drop, add)` is the
shared shape of every path: counts go down, then up; what reaches zero is closed, which
tells the pipe or puts the inode. `DoExec` does not use it because the loop in
`do_exec()` is different: it does not tell pipes. Process 0 only does what
`shell_exec_cmd()` and `kmain()` do. `iref` counts the references that open files hold
to inodes. The number of descriptors times processes is the modulus of the count
(`RefModulus`), as in the kernel, where 16 * 16 = 256 and the count is a byte.
A failed spawn gives back what it took and is not a step. `dup2(fd, fd)` is modelled up
to the write through NULL, whose effect is not.

### MiniFs and FileTree

The functions of `fs.c` are operators that map a record (free list, inode cache, disk,
log of writes, what the indirect block's buffer holds) to a record, composed as the C functions call each other, error paths
included: `balloc`, `bfree`, `ialloc`, `bmap`, `fs_iget`, `fs_iput`, `dir_link`,
`fs_create` and so on keep their names. A call is one step of the kernel's memory;
the block writes it makes go to `todo`, in program order, and `Flush` carries them out
one at a time. `Crash` may come before any of them and `Boot` mounts what is on the disk
again and makes the device nodes, as `fs_init()` and `dev_create_nodes()` do. Nothing
else runs while `todo` is not empty, because `bwrite()` is synchronous.

A cell stands for 32 bytes: a directory entry, a block pointer or a piece of data; the
link of a free block is in its first cell, where an entry has its inode number, so a
block that is freed and reused shows its old contents as the code's does. `ImageName`
and `ImageSize` are a file that `mkfs` put on the image.

**The indirect block.** `bmap()` keeps a pointer into the indirect block's buffer across
`balloc()`, `fs_iput()` one across `bfree()`, and these read other blocks. Once every buffer is valid
(`NBUFS` different blocks have been read since boot) `bread()` reuses `bufs[0]` for every miss. If
the pointer is into that one, both functions leave the superblock there, which they read last and which no other buffer
has, as `fs_init()` read it into the first one: `bmap()` then writes the pointer it has just allocated into the superblock, in memory and on the disk, and
`fs_iput()` frees the superblock's words as block numbers. So every call, and every boot, has a choice
`warm`: with FALSE the pointer stays good to its end (`buf = "kept"`), with TRUE
(`"reused"`) it is the superblock's from the first `balloc()` or `bfree()` on, and the call is one that
uses it after that, which sets `stolen`. A cache that
fills up in the middle of a call makes the writes of a `"kept"` call until then, and is damaged after. At boot
the cache is cold, so that `Boot(TRUE)` is more than can happen. What the call itself makes of the disk is
modelled (`IntoSuperblock`, `FreePointers`; `SbWords` and `FreeListWord` are the superblock's
words), its writes may be cut short by a crash, and then the model stops (`Stop`): the
code goes on with a damaged file system. All properties of the disk are claims up to that
moment, and false after it. `DiskConsistent` and `NothingLost` are violated at once when `stolen` is taken
out of them. On the target this is any write past the twelfth block of a file, or the
deletion of such a file, once 16 blocks have been read since boot and the indirect block is not
by chance in another buffer than `bufs[0]`.

`leaked` records two things the code does and that `NothingLost` has to except: a
`create` whose `dir_link()` fails leaves an inode without a name (`fs.c:523`), and a
`rename` over an existing name, or of a directory into itself, loses what it moves and
returns 0 (`fs.c:575`). `mkdir` on the name of a regular file appends `.` and `..` to the
file and returns 0 (`fs.c:584`); `WriteDirs` lets programs write to directories, which
the code permits and the run leaves out. A write that runs out of space returns its
count without the new size (`fs.c:319`), `O_TRUNC` sets the size and keeps the blocks:
both are modelled, and both keep the invariants.

Relative paths, time stamps, `stat` and `getdents` are left out; directories have no
links but `.` and `..`. On the Mega Drive the root disk is ROM and writes to it are
dropped (`pal/megadrive/platform.c:459`): the model is of the disk that is written to.

### BufCache

`bufs`, `disk`, the superblock's `free_list`, the inodes of open files. `bread()` chooses
a victim as the code does: an invalid buffer first, then a clean one, then the first.
As no buffer stays dirty, a full cache always evicts the first one. Functions that use
their pointer after another `bread()` do so here, by buffer number: `bmap()` for the
indirect block (`fs.c:258-264`) and `fs_iput()` (`fs.c:122-127`). In block 1 an inode is
one word, as good as one of its pointers. `written` is what
programs wrote, for the properties; `stolen` says that a function has used a buffer that
had been given away.

### Tty and TypeAhead

`tty_read()` is split at each access to what `tty_inproc()` writes: `Test`, `Mark`
(`waiting = pid + 1`), `Doze` (`state = P_SLEEPING`), `Swtch`, `Woken`, `Copy` and
`CopyNext` (the two halves of `inq_get()`), `Clear` (`canon_ready = 0`). `TCSETSF` is split in the
same way: `SetMode`, then the three statements of `inq_flush()` (`FlushInput`). `Interrupt(c)`
may come between any two of them when `keyboard = "interrupt"`; with `"poll"` the reader
itself takes the character (`Poll`). `lost` names the windows that were hit, and each
property says which of them breaks it:

| Window | Moment | Consequence |
|---|---|---|
| late | interrupt between the test and `waiting = pid + 1` | the reader sleeps although its line is there |
| missed | between that and `state = P_SLEEPING` | the wakeup is overwritten |
| forgot | between the drained queue's test, or `inq_flush()`'s `head = tail = 0`, and `canon_ready = 0` | the new line is invisible until the next newline |
| torn | `^C` between the halves of `inq_get()` | tail passes head: the queue is full of old characters |
| overwritten | a second reader takes the one slot | the first is not woken |
| switched | ICANON changes under a reader, or with input pending | characters wait for a line that was complete |
| asleep | `schedule()` found nobody, the read returns | the process runs on in `P_SLEEPING`; the next tick switches it out for ever |

"ISR-safe: only writes inq_head" (`tty.h:127`) is true of ordinary characters and not of
`^C`. The next newline, or any wakeup, ends the first three.

From the code, without a run: `^D` on an empty line sets `canon_ready` but not a
character, and `tty_read()` wants both, so the read never returns 0 (`tty.c:343`, against
the comment at 264); `^C` goes to whoever runs at that moment (`tty.c:147`); a read in
canonical mode may return more than one line, if two are in the queue; on the workbench
nobody polls the UART while its reader is switched out.

### UserMem

`mem_base`, `mem_size`, `brk` are the table's; `image[p]` is the memory p executes in, and
`homeless` those whose memory the table no longer claims: after a failed exec in place
(`exec.c:616`) and after `exec_leave()`. Loading is `Loads`, the set of ways `do_spawn()`
and `do_exec()` can go on after `umem_alloc()`: from ROM, from ROM and then, after a
failure, in RAM in a larger region, or not at all. `touched` is what a load or an sbrk
wrote or handed out. `umem_alloc()` sorts the claims and scans the gaps between them; here
`Sorted` is the claims in order of address, `GapStart` and `GapEnd` are `gap_start` and
`bases[i]` at each turn of the scan, and the result is the start of the first gap that
fits. sbrk by a vforked child moves the parent's break. Any live process
may take the next step: the order is `Proc`'s. `Args` are sizes that fit the stack; the
code does not check that (`exec_setup_stack()`). The relocation table of a ROM program
may be larger than its region (`exec.c:478`): `touched` holds it, and the run's programs
have one that fits, with the code's check being none. The exec that `kmain()` does in
autotest builds is left out.

### ShellPipeline

The shell is process 0, which nothing preempts: between `Simple` or `Pipeline` and the
wait, programs do not run. `fd` are the shell's descriptors, `prog` the programs with
their own copies, made by `do_spawn_fd()` as the code does: all of the shell's, with 0, 1
and perhaps 2 replaced. `Break` is each way out of the loop: `do_pipe()` fails, a command
is empty, the spawn fails. Programs are filters of units of output; `quitters` are those
that leave before the end of their input.

From the code: leaving the loop early keeps `prev_read_fd` open while the shell waits;
`in_fd` is leaked when the first command is empty or the first pipe fails, and as
`prev_read_fd` may then be given the same number, the test at `main.c:1215` can leak a pipe
end; commands beyond the eighth are dropped without a message, and six need five pipes
where there are four (`MAXPIPE`).

## Runs

| Run | Result | Shows |
|---|---|---|
| `proc_full` | passes | table structure, parents and `nproc` under every workload: background children, nested vfork, exec in place, SIGSTOP and SIGCONT |
| `proc_sequential` | passes | one live child at a time, no stop signals: vfork isolation, no dead process runs its program, and no sleeping one but after a read at which nobody else was READY; zombies stay. One process also makes reads that block. SIGINT stands for all signals that terminate; it is also caught and ignored |
| `proc_fair` | passes | no starvation, waitpid returns, while one process also blocks in reads |
| `pipe_flow` | passes | one reader, one writer: FIFO, no lost wakeup, both sides make progress |
| `open_files` | passes | exact counts, pipe ends, inode references, stable descriptors |
| `mini_fs` | passes | up to the first use of a reused buffer: bootable at every moment, nothing lost, sizes durable, one visible change per block write |
| `buf_cache` | passes | cache and disk agree at every call's end; until a buffer is stolen files read back as written and blocks are partitioned |
| `block_map_evict` | violation | `bmap()` writes a block number into whatever block its buffer holds by then |
| `tty` | passes | outside the windows: queue of characters, complete lines visible, no lost wakeup, reads return |
| `user_mem` | passes | disjoint regions, programs in memory the table knows, first fit, loads and sbrk write to nobody else |
| `shell_pipeline` | passes | the shell's descriptors come back; a pipeline of programs that read to the end returns |
| `shell_early_exit` | violation | a producer whose consumer leaves holds its own pipe's read end, and shell and producer hang |

**Bounds.**

- `proc_*`: four slots are process 0, a shell and two descendants: enough for a child that
  races with its sibling, for a grandchild that is orphaned, and for three processes READY
  at once. `MAXPROC` must be a power of two. The views leave out what no step reads again
  (fields of dead slots).
- `pipe_flow`: ring of 4, writes of 3 and of 0 bytes, reads of 3; 3 and 4 are coprime, so
  transfers wrap at every offset. Spurious wakeups are arbitrary.
- `open_files`: 3 processes, 2 descriptors each, 4 open files, 1 pipe, 2 files: every table can
  be full and every error path is taken. It excludes the two workloads that are known to
  break it: dup on a full table (`FailingDup`) and a close-on-exec pipe end that only the
  execing process has (`DirectExec`: exec outside vfork, or pipes made in the window).
- `mini_fs` (66 000 states, 12 600 of them after a stolen buffer): 4 inodes, 8 blocks of 3 cells, 1 direct pointer, so that a file of 4
  cells needs the indirect block and a directory of 4 entries a second block; 3 calls
  that write, boots not counted, and 1 crash before any block write. The image has a file, so the first call
  can already unlink, truncate, overwrite or rename. Inodes and blocks run out within the
  bound. The superblock has 3 words here, the free list in the second. The image has no `/bin`, `/dev` and `/tmp`, so that boot makes `/dev`
  by `mkdir` and the nodes in it.
- `buf_cache`: 4 buffers over 6 blocks, 2 files with 1 direct and 2 indirect pointers: 177 000 states. All
  reachable states: calls are not bounded.
- `tty` (264 000 states): queue of 3 (so that a line of 2 and its newline do not fit), a reader and a bystander
  that sleeps, wakes, is killed and kills; both keyboards; cooked and raw mode; a character,
  newline and `^C`. `CONSTRAINT NothingLost` stops at the first window, after which the
  properties promise nothing. With one reader `overwritten` does not happen. Two readers of
  one character each also pass, in 4.5 minutes.
- `user_mem` (36 000 states): three slots in a pool of 12 units with sizes that are not multiples
  of the alignment: two or three programs fit, and holes of every kind arise. `SYMMETRY` over the slots is
  sound because the allocator looks at addresses only. `VIEW` leaves out what the last step
  touched, which is a function of the step.
- `shell_pipeline` (11 000 states): up to 4 commands, 2 pipes of 1 unit, so that pipes run out, 9
  descriptors, which do not, failing spawns, empty first and third
  commands. The shell may stop for ever in `DescriptorsRestored`'s run, when a consumer leaves
  early; this is why deadlock is not checked there.

**Fairness.** Kernel code is weakly fair: it is not preempted and its loops have no
other exit. The timer is strongly fair: it fires 50 to 100 times a second, and a tick
in user mode cannot be missed for ever by a process that keeps returning there. Nothing
is assumed of programs: they need not exit, read or write. `ShellIdle` is weakly fair:
process 0 sleeping at its prompt is kernel code. Liveness is checked without signals
(`proc_fair`) and with arbitrary spurious wakeups (`pipe_flow`). In `Tty` somebody keeps
pressing Return (strong fairness of `Interrupt("nl")`): a read from a keyboard that
nobody touches need not return; and `ReadReturns` supposes that input is not flushed for
ever. In `ShellPipeline` programs go on reading, writing and finishing (weak fairness of
each program's step, which `NoStarvation` of `Proc` justifies), but need not leave early, and
nobody need type a command. In `Proc` nothing is assumed of reads: they may block for ever.

## Known disagreements

Two are runs: `block_map_evict` (the evicted block of `bmap()`) and `shell_early_exit` (`yes | head`
of `docs/test-coverage.md:129`, in the builtin shell). In the others the code does something other
than a comment, document or test says, and the definition named states what was said. To see a
counterexample, run the configuration named with the change given, checking that definition alone.

| Definition | Start from | Change | What happens |
|---|---|---|---|
| `Proc!VforkIsolation` | `ProcSequential.cfg` | `Background = TRUE` | a background child's exit or exec thaws a parent in vfork (`proc.c:430`, `exec.c:644`) |
| `Proc!UserModeIsRunning` | `ProcSequential.cfg` | `Signals <- StopSignals` | SIGSTOP with nobody else READY does not stop (`proc.c:838`) |
| `Proc!SignalInterruptsWait` | `ProcFair.cfg` | `Signals <- KillSignals` | a signal does not interrupt waitpid (`docs/multitasking.md`) |
| `Pipe!EofReturns` | `PipeFlow.cfg` | `Readers <- TwoReaders` | end of file reaches one of two sleeping readers |
| `Pipe!EpipeSignals` | `PipeFlow.cfg` | none | EPIPE without SIGPIPE when the reader leaves a sleeping writer (`proc.c:166`) |
| `OpenFiles!RefcountExact` | `OpenFiles.cfg` | `FailingDup = TRUE` | dup on a full table leaks a count (`proc.c:1057`) |
| `OpenFiles!NewFdNotCloexec` | `OpenFiles.cfg` | no `VIEW` | close-on-exec outlives its descriptor (`tests/test_syscalls.c`) |
| `MiniFs!RmdirRemovesEmpty` | `MiniFs.cfg` | no `VIEW` | rmdir refuses every directory (`fs.c:628`; `docs/test-coverage.md:149` knows) |
| `UserMem!RegionsAligned` | `UserMem.cfg` | none | `umem_alloc()` rounds the need, claims keep the unrounded size: bases are odd |
| `UserMem!MemoryIsPrivate` | `UserMem.cfg` | `relocs` of the ROM program 5 in `MCPrograms` | its relocation table goes over the next program (`exec.c:478`) |

## Theorems

Each holds for every value of the module's constants that its assumptions allow: every size
of the tables, rings, pools and caches, every set of processes, files, keys and signals,
everything that is written and typed. (`MAXPROC` is a power of two in `Proc`.)

| Theorem | Statement | Assumes |
|---|---|---|
| `TypeCorrect` | `Spec => []TypeOK` | |
| `TableStructure` | `Spec => [](OneRunning /\ ParentAlive)` | |
| `NprocCorrect` | `Spec => []NprocCounts` | |
| `UserModeRuns` | `... => []UserModeIsRunning` | no stop signals |
| `ZombiesStay` | `... => ZombieFinal` | no stop signals |
| `VforkIsolated` | `... => []VforkIsolation` | no stop signals, sequential workload |
| `PipeTypes` | `Spec => []TypeOK` (`Pipe`) | |
| `PipeWakeups` | `Spec => []NoLostWakeup` (`Pipe`) | at most one reader and one writer |
| `PipeIsFifo` | `Spec => RefinesFifo` (`Pipe`) | |
| `OpenFilesTypes` | `Spec => []TypeOK` (`OpenFiles`) | `CountsFit` |
| `ReferenceCounts` | `Spec => []RefcountExact` | `CountsFit` |
| `InodesHeld` | `Spec => []InodeRefs` | `CountsFit` |
| `DescriptorsKeepFiles` | `Spec => DescriptorStable` | `CountsFit` |
| `PipesKnowTheirEnds` | `Spec => []PipeEnds` | `CountsFit`, `~DirectExec` |
| `TtyTypes` | `Spec => []TypeOK` (`Tty`) | |
| `TtyQueue` | `Spec => QueueUntilTorn` | |
| `TtyLinesVisible` | `Spec => []LinesStayVisible` | |
| `TtyWakeups` | `Spec => []NoLostWakeup` (`Tty`) | |
| `UserMemTypes` | `Spec => []TypeOK` (`UserMem`) | |
| `ClaimsApart` | `Spec => []RegionsDisjoint` | |
| `FirstFit` | `Spec => []AllocIsFirstFit` | |
| `MemoryKept` | `Spec => []ProgramsKeepMemory` | `~Background` |
| `MemoryPrivate` | `Spec => MemoryIsPrivate` | `~Background`, `RelocsFit` |
| `BufCacheTypes` | `Spec => []TypeOK` (`BufCache`) | |
| `CacheCoherent` | `Spec => []BuffersCoherent` | |
| `BlocksOwned` | `Spec => []BlocksPartitioned` | |
| `FilesReadBack` | `Spec => []ReadsBackUnlessStolen` | |
| `DescriptorsComeBack` | `ShellSpec => DescriptorsRestored` | |
| `FilesTyped` | `Spec => [](stolen \/ TypeOK)` (`MiniFs`) | `~WriteDirs` |
| `FilesConsistent` | `Spec => []DiskConsistent` (until `stolen`) | `~WriteDirs` |
| `FilesDurable` | `Spec => []CompletedIsDurable` (until `stolen`) | `~WriteDirs` |
| `FilesGiveBack` | `Spec => []NothingLost` (until `stolen`) | `~WriteDirs` |

- *TypeCorrect* is inductive as it stands; the one case that is not immediate is that
  pid allocation stays within `1..MAXPROC-1`.
- *TableStructure* needs `ZeroIsKernel`: process 0 never dies, never vforks and never
  leaves the kernel. Orphans go to process 0, so `ParentAlive` fails in the step after
  process 0 could die. With it, `Structure` is inductive.
- *NprocCorrect* follows from `Structure`'s types and the cardinality of the set of used
  slots, which every step changes by one slot or not at all.
- *UserModeRuns* needs `CurprocRuns`: curproc is RUNNING, except in process 0's own
  loops, in a waitpid that found nothing to reap and nobody to run, and in or after a read
  that found nobody to run (`dozing`). The key is
  `do_exit()`'s last line: when a process dies, its parent is woken, resumed, or READY,
  so `schedule()` does not return. A stopped parent breaks exactly this (second line of
  the table above).
- *ZombiesStay* follows from the same invariant: a zombie that still had the CPU could
  be marked READY again.
- *VforkIsolated* needs `OneBorrower`: only a vforked child borrows memory, from a parent
  that is frozen and has no other live child, and nobody is in a synchronous exec. The
  two workload assumptions are necessary: with a background child the property is false.

- *PipeTypes* is inductive as it stands. Its lemmas say what the two turns of a copying
  loop do together: `TwoChunks` (they move all that is there and wanted), `ReadFacts` and
  `WriteFacts` (which bytes, at which positions of the ring).
- *PipeWakeups* needs `Ownership`: the flags `readers` and `writers` say whether somebody has
  the end open, and only who has an end open is in a call on it. A wakeup that has nothing
  to do with the pipe leaves a slot that remembers a process that is awake; what is proved is
  that nobody sleeps whom his slot has forgotten. With two readers it is false: the
  second takes the slot (`EofReturns` above).
- *PipeIsFifo* needs `Ownership` and `RingAligned` (the writer goes on `count` bytes from where
  the reader does) and simulates step by step: a read drops a prefix of the queue
  (`RingAfterRead`), a write appends to it without touching the rest (`RingAfterWrite`),
  closing, exiting and dying of SIGPIPE let go of ends, everything else is invisible. It
  holds with any number of readers and writers: those lose wakeups, never bytes.

- *ReferenceCounts* and *InodesHeld* are one induction (`CountInv`). `CountsFit` says that `dup()`
  on a full table, which leaks a count, does not happen, that a process has room for a pipe's
  two descriptors, and that all descriptors together are no more than the count's modulus.
  The kernel meets that exactly, 16 * 16 against a byte, and a count that reaches 256 would be
  0: it does not, because process 0 gives each of its descriptors an open file of its own
  (`ProcessZeroShares`). A slot that is not in use holds nothing (`DeadHoldNothing`), or a
  child that is put there would inherit it.
- *DescriptorsKeepFiles* follows: an open file that a descriptor refers to has a count above 0, and
  `ofile_alloc()` takes one whose count is 0.
- *PipesKnowTheirEnds* needs `PipeInv`: an exec closes FD_CLOEXEC descriptors without telling the
  pipe, so it must never close the last one of an end. `WindowPipes` is why it does not: in the
  vfork window the parent stands still with the same open file. `EndsUnique`, one open file for
  each end, is what lets a count of descriptors stand for the end.
- *TtyQueue* simulates `TypeAhead` step by step. It needs `HoldsOldest` (between the halves of
  `inq_get()` the character taken is still the oldest, or the queue is torn) and what the loop
  over the line buffer does to the ring, which is a fold: that it has a value at all, and
  which, is shown by the least length for which it would not.
- *TtyLinesVisible* needs `VisibleInv`, the same thought one program point later: where `tty_read()`
  or the flush of `TCSETSF` is about to clear `canon_ready` the queue is empty, or one of the windows was hit.
- *TtyWakeups* needs `OneInKernel` (one process at a time is in the line discipline) and `SleepInv`,
  which follows the reader from the test over `waiting = pid + 1` to the switch. A flush that
  tears `inq_get()` has emptied the slot (`TornFreesSlot`), so a torn queue loses no wakeup.
- *UserMemTypes*, *ClaimsApart* and *FirstFit* are one induction on `ClaimInv`, with no assumption on the
  workload. The lemmas: claims that do not overlap have an order by address, every claim lies
  between two gaps of that order, a place is free exactly if it lies in a gap.
- *MemoryKept* and *MemoryPrivate* need `Windows`: a parent in P_VFORK has one live child, which has not
  vforked itself. That fails with background children, and so do both properties. `RelocsFit` is
  needed because `exec_mem_need_xip()` does not count the relocation table that the loader
  puts into the region (`exec.c:49`); the last line of the table above is what happens without it.
- *BufCacheTypes* and *CacheCoherent* need that no buffer, invalid ones included, stays dirty
  (`CacheInv`): then a victim has nothing to write. A pointer that is used after its buffer has been
  given away writes the wrong block, but writes it to buffer and disk alike. A file does not
  grow past `NDIRECT + PTRS_PER_BLK` blocks because `bmap()` returns 0 there.
- *BlocksOwned* and *FilesReadBack* need `Owned`: unless a stale pointer has been used, memory is
  `Balanced`. That is, the free list is a chain of distinct blocks through the disk that ends in 0, the places of the files (direct
  pointers, indirect pointer, words of the indirect block) hold distinct blocks, and a block
  is in one or the other. Between two statements of `bmap()` or `fs_iput()` a block may also be in the hands of the
  function, and `fs_iput()` gives a file's places up one after another, the indirect pointer last:
  `Balanced(s, P, X)` says it for the places `P` and the blocks `X` that are held. Each of `balloc()`,
  `bfree()` and storing a pointer moves one block between the three, and leaves the
  contents of every data block alone (`Kept`). The property's own walk, `NthFree`, is tied to the chain
  by the pigeonhole principle: a chain of distinct blocks has at most `NBLOCKS` links.
- *DescriptorsComeBack* needs `ShellInv`: at every point of a command, what the shell has open differs from
  what it had open when the command was typed in two descriptors, which were free then: `out_fd` and
  `prev_read_fd`, which is `in_fd` until the first program is started. Every way out
  closes both, but for the one the property names.

- *FilesTyped*, *FilesConsistent*, *FilesDurable* and *FilesGiveBack* are one induction, on `IInv` of
  `MiniFs_proofs`. `IInv` promises nothing once `stolen` is set, and the properties except exactly
  those states: no call is taken to leave its buffers alone by assumption. What the lemmas say of the functions is
  about `buf = "kept"`, and `CallSteals` that any other call that returns sets `stolen`. Not even the types are inductive alone: that the number `dir_lookup()` reads
  from a block is one of an inode depends on who owns the block, after every write of a call.
  - The disk is `Safe`: no block is in two places of the inodes in use, nor in one and on the free
    list, which is a chain to 0 (`Owned`, as for `BufCache`, now with blocks that a crash has lost);
    and the directories are a tree whose entries refer to inodes in use (`TreeOK`): no holes, no
    inode with two names, `..` aside.
  - A call is one step of memory and passes on a sequence of writes. `Trail` says that the disk is
    `Safe` after each of them and which disk they lead to in the end, and `Memory(d)` is what the
    kernel has when that disk is `d`. `Flush` goes one disk along the trail, `Crash` stops on it.
  - Between two writes of a call `Sound(s, X)` holds: the kernel's view (cache before disk) owns all
    blocks but the ones in the function's hands, `X`; the disk has at most the places that the
    cache has (`Agree`); and the cache agrees with it on types and sizes (`Cached`). This is where the order of
    writes counts. `balloc()` takes a block off the disk's free list before any pointer to it is
    written; `fs_iput()` puts one on it while the disk's inode still has it, which is harmless because the inode's
    links are 0 on the disk by then; `bmap()` writes an indirect block's zeros before the
    inode that points to it.
  - Every function of `fs.c` has a lemma: from `Sound` to `Sound`, what it does to the hands `X`, to names and to references. Loops
    (`FreeEach`, `WriteChunks`, `fs_namei`) are inductions over the length. A call starts and ends with
    `Good`, empty hands and no reference that is not a descriptor's.
  - The image of mkfs is `Safe`, by counting its blocks (`ImageFits`: mkfs does not notice that it
    runs out).
  - `DiskConsistent` looks at what the root leads to, as the least set closed under names; the tree's
    inodes in use contain it. The property's walk of the free list meets the chain's end because
    a chain of distinct blocks has at most `NBLOCKS` links.

  - That no inode is lost takes `Complete`, which says nothing after a crash or once the model's `leaked` is set:
    `Whole(s, E)` says that every inode in use is in `Reach` of the root, or unlinked and still
    referred to, or one of `E`, which the function has in its hands; that no inode but the root has
    more than one link; and that one nobody refers to has one. Every function keeps it (`Kept`) or
    says what joins or leaves `E`: `ialloc()` puts its inode there and `dir_link()` takes it out, and
    `fs_rename()` has what it moves there between the two names. The new name brings the inode and all below
    it back if the root still leads to the new parent. As each inode has one name, the walk to
    that parent passes what is moved only when the old path is a prefix of the new one, which is the
    rename below itself that sets `leaked`; a `dir_link()` that fails sets it too.

  `~WriteDirs` is the one assumption: a program that writes raw data to a directory writes entries
  that refer to anything.

The inductive invariants stand at the end of the modules they are about, where TLC can evaluate
them. `Owned` of `BufCache_proofs` and `IInv` of `MiniFs_proofs` quantify over chains and trails and
stand there; what TLC evaluates of them are the properties themselves.

Only model-checked:

- The liveness properties: they need fairness, which the proof system does not treat.
- That `MiniFs` implements `FileTree`: that a block write changes at most one name or one file's
  contents. `IInv` says which disks a call goes through, not how the trees of two of them differ.

## Plan

Done: scheduler, processes, signals, pipes, descriptors, file system with power loss, buffer
cache, terminal, user memory, pipelines of the shell; the theorems above.

1. Proof: that `MiniFs` implements `FileTree`.
2. Signal frames and `sigreturn`, the bytes and relocations of the loader, access flags and
   device opens of `OpenFiles`, the VDP's owner, the escape-sequence parser.

## Not modelled, and why

`kmalloc()` and `kfree()` have no callers in the kernel. `kprintf`, string and division
routines have no state. libc and the applications are clients: the models let them make any
call. `emu/musashi`, `apps/dash` and `apps/levee` come from other projects and make up most of
the lines of the repository; the kernel, which is modelled, has about 5 500 lines of C. Device registers, fonts and
boot code are hardware access. The parts of the plan above are not modelled yet.
