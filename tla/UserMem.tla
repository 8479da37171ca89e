------------------------------- MODULE UserMem -------------------------------
(***************************************************************************)
(* User memory of the Genix kernel: umem_alloc() and sbrk_proc() of        *)
(* kernel/mem.c, and what do_spawn(), do_vfork() and do_exit() of          *)
(* kernel/proc.c and do_exec() with its two loaders of kernel/exec.c do to *)
(* mem_base, mem_size and brk.  There is no MMU and no list of free        *)
(* memory: what is free is what no entry of the process table claims.      *)
(*                                                                         *)
(* image[p] is the memory p really executes in, which the table need not   *)
(* say: a vforked child runs in its parent's, and a process whose exec in  *)
(* place has failed, or whose synchronous exec has been left, runs on in   *)
(* memory it no longer claims (homeless).                                  *)
(*                                                                         *)
(* Any live process may take the next step: the order in which processes   *)
(* run, and which zombie waitpid() takes, are Proc's.  Memory is counted   *)
(* in units; ALIGN units are the four bytes umem_alloc() rounds to.        *)
(***************************************************************************)
EXTENDS Integers, FiniteSetsExt, Functions

CONSTANTS
    Kernel,         \* process 0
    Users,          \* the other slots, 1 to MAXPROC - 1
    USER_BASE, USER_TOP,
    ALIGN,          \* what umem_alloc() rounds a need up to
    WORD,           \* addresses are computed modulo WORD (2^32)
    HEAP,           \* USER_HEAP_DEFAULT
    STACK,          \* USER_STACK_DEFAULT, which mkbin puts into every header
    Programs,       \* headers: text, data, bss, relocs (all sizes), and whether
                    \* the file is XIP in ROM
    Args,           \* sizes of what exec_setup_stack() puts on the stack
    Increments,     \* what programs pass to sbrk()
    InPlaceExec,    \* may a program exec outside a vfork window?
    Background      \* may a process vfork while it has another live child, or
                    \* as a vforked child itself?

ASSUME SizesAssumption ==
    /\ Kernel \notin Users /\ IsFiniteSet(Users)
    /\ ALIGN \in Nat \ {0}
    /\ USER_BASE \in Nat \ {0} /\ USER_BASE % ALIGN = 0
    /\ {USER_TOP, WORD} \subseteq Nat /\ USER_BASE < USER_TOP /\ USER_TOP < WORD
    /\ HEAP \in Nat \ {0} /\ STACK \in Nat \ {0} /\ ALIGN <= HEAP + 1
    /\ Args \subseteq 1..STACK
    /\ Increments \subseteq Int
    /\ InPlaceExec \in BOOLEAN /\ Background \in BOOLEAN
ASSUME ProgramsAssumption ==
    \A g \in Programs :
        /\ {g.text, g.data, g.bss, g.relocs} \subseteq Nat
        /\ g.text + g.data > 0
        /\ g.xip \in BOOLEAN /\ (g.xip => g.text > 0)

VARIABLES
    state,          \* proctab[p].state, as far as memory depends on it
    ppid,
    mem_base,       \* proctab[p].mem_base; 0: none
    mem_size, brk,
    exec_active,
    image,          \* the memory p executes in
    homeless,       \* who executes in memory it has given up
    touched         \* what the last step wrote to or handed out, and for whom

table == <<state, ppid, mem_base, mem_size, brk, exec_active>>
vars == <<table, image, homeless, touched>>

Procs == Users \cup {Kernel}
Region(base, size) == base..(base + size - 1)
Untouched == [by |-> Kernel, bytes |-> {}]

\* proc_init() and umem_init(): process 0 is the kernel's.
Init ==
    /\ state = [p \in Procs |-> IF p = Kernel THEN "LIVE" ELSE "FREE"]
    /\ ppid = [p \in Procs |-> Kernel]
    /\ mem_base = [p \in Procs |-> 0]
    /\ mem_size = [p \in Procs |-> 0]
    /\ brk = [p \in Procs |-> 0]
    /\ exec_active = FALSE
    /\ image = [p \in Procs |-> {}]
    /\ homeless = {}
    /\ touched = Untouched

-----------------------------------------------------------------------------
(* The allocator *)

\* The entries umem_alloc() looks at.
Claims == {p \in Procs : state[p] # "FREE" /\ mem_base[p] # 0}

\* They are sorted by base.
Sorted(claims) ==
    CHOOSE s \in Bijection(1..Cardinality(claims), claims) :
        \A i, j \in DOMAIN s : i < j => mem_base[s[i]] <= mem_base[s[j]]

RoundUp(need) == ((need + ALIGN - 1) \div ALIGN) * ALIGN

\* Mutant: the scan goes on where a region begins.
GapAfterStart(p) == mem_base[p]

\* "gap_start = bases[i] + sizes[i]".
GapAfter(p) == mem_base[p] + mem_size[p]

Gap(from, to) == (to - from) % WORD

\* Mutant: a gap of just the size is passed over.
FitsInside(from, to, need) == Gap(from, to) > RoundUp(need)

Fits(from, to, need) == Gap(from, to) >= RoundUp(need)

\* The gaps, from below: one before each region, and one after the last.
Gaps(claims) == 1..(Cardinality(claims) + 1)
GapStart(s, i) == IF i = 1 THEN USER_BASE ELSE GapAfter(s[i - 1])
GapEnd(s, i) == IF i \in DOMAIN s THEN mem_base[s[i]] ELSE USER_TOP

\* umem_alloc(): the start of the first gap that holds the need; 0 if there is
\* none.
umem_alloc(claims, need) ==
    LET s == Sorted(claims)
        fitting == {i \in Gaps(claims) : Fits(GapStart(s, i), GapEnd(s, i), need)}
    IN  IF fitting = {} THEN 0 ELSE GapStart(s, Min(fitting))

\* umem_stats(): the sum and the largest of the gaps.
umem_stats(claims) ==
    LET s == Sorted(claims)
        size(i) == Gap(GapStart(s, i), GapEnd(s, i))
    IN  [free |-> MapThenSumSet(size, Gaps(claims)),
         largest |-> Max({size(i) : i \in Gaps(claims)})]

-----------------------------------------------------------------------------
(* Loading *)

Larger(m, n) == IF m > n THEN m ELSE n

exec_mem_need(g) == g.text + g.data + Larger(g.bss, g.relocs) + HEAP + STACK

exec_mem_need_xip(g) == g.data + g.bss + HEAP + STACK

\* exec_setup_stack(): the arguments go to the top, at an aligned address.
exec_setup_stack(top, args) == Region(((top - args) \div ALIGN) * ALIGN, args)

\* load_binary() into size units at base: text, data, and in the bss's place
\* first the relocation table.
load_binary(g, base, size, args) ==
    [brk |-> base + g.text + g.data + g.bss,
     bytes |-> Region(base, g.text + g.data + Larger(g.bss, g.relocs))
                 \cup exec_setup_stack(base + size, args)]

\* load_binary_xip(): the text stays in ROM.
load_binary_xip(g, base, size, args) ==
    [brk |-> base + g.data + g.bss,
     bytes |-> Region(base, g.data + Larger(g.bss, g.relocs))
                 \cup exec_setup_stack(base + size, args)]

\* A load that took place, the claim it leaves and what it wrote.  A loader
\* that fails (I/O error, bad header) may have written before.
Done(ok, base, size, loaded, earlier) ==
    [ok |-> ok, base |-> base, size |-> size, brk |-> loaded.brk,
     bytes |-> loaded.bytes \cup earlier]

\* What do_spawn() and do_exec() may end with after umem_alloc() has found
\* base.  When load_binary_xip() fails they try load_binary(), in a larger
\* region if it needs one: the first is given up before the second is looked
\* for, so claims no longer holds the caller's.
Loads(g, claims, base, args) ==
    LET need == IF g.xip THEN exec_mem_need_xip(g) ELSE exec_mem_need(g)
        tried == IF g.xip THEN load_binary_xip(g, base, need, args).bytes ELSE {}
        larger == g.xip /\ exec_mem_need(g) > need
        base2 == IF larger THEN umem_alloc(claims, exec_mem_need(g)) ELSE base
        size2 == IF larger THEN exec_mem_need(g) ELSE need
    IN  (IF g.xip THEN {Done(TRUE, base, need, load_binary_xip(g, base, need, args), {})}
                  ELSE {})
        \cup
        (IF base2 = 0
         THEN {[ok |-> FALSE, base |-> 0, size |-> need, brk |-> 0, bytes |-> tried]}
         ELSE {Done(ok, base2, size2, load_binary(g, base2, size2, args), tried) :
                  ok \in BOOLEAN})

FirstNeed(g) == IF g.xip THEN exec_mem_need_xip(g) ELSE exec_mem_need(g)

-----------------------------------------------------------------------------
(* System calls *)

\* do_spawn(), by process 0 (kmain() and the builtin shell): while the program
\* is loaded the child's slot is still P_FREE.  On failure the slot is as it
\* was, but for brk.
Spawn(c, g, args) ==
    /\ state[c] = "FREE"
    /\ LET base == umem_alloc(Claims, FirstNeed(g))
       IN  /\ base # 0
           /\ \E l \in Loads(g, Claims, base, args) :
                 /\ touched' = [by |-> c, bytes |-> l.bytes]
                 /\ IF l.ok
                    THEN /\ state' = [state EXCEPT ![c] = "LIVE"]
                         /\ ppid' = [ppid EXCEPT ![c] = Kernel]
                         /\ mem_base' = [mem_base EXCEPT ![c] = l.base]
                         /\ mem_size' = [mem_size EXCEPT ![c] = l.size]
                         /\ brk' = [brk EXCEPT ![c] = l.brk]
                         /\ image' = [image EXCEPT ![c] = Region(l.base, l.size)]
                    ELSE UNCHANGED <<state, ppid, mem_base, mem_size, brk, image>>
    /\ UNCHANGED <<exec_active, homeless>>

LiveChildren(p) == {q \in Users : state[q] \in {"LIVE", "VFORK"} /\ ppid[q] = p}

\* Mutant: "*child = *parent" is not corrected.
ChildBaseCopied(p) == mem_base[p]

\* "child->mem_base = 0".
ChildBase(p) == 0

\* do_vfork(): the child is a copy of the parent without memory of its own.
Vfork(p, c) ==
    /\ state[p] = "LIVE" /\ state[c] = "FREE"
    /\ Background \/ (LiveChildren(p) = {} /\ state[ppid[p]] # "VFORK")
    /\ state' = [state EXCEPT ![c] = "LIVE", ![p] = "VFORK"]
    /\ ppid' = [ppid EXCEPT ![c] = p]
    /\ mem_base' = [mem_base EXCEPT ![c] = ChildBase(p)]
    /\ mem_size' = [mem_size EXCEPT ![c] = 0]
    /\ brk' = [brk EXCEPT ![c] = brk[p]]
    /\ image' = [image EXCEPT ![c] = image[p]]
    /\ homeless' = IF p \in homeless THEN homeless \cup {c} ELSE homeless
    /\ touched' = Untouched
    /\ UNCHANGED exec_active

\* p no longer claims memory; if it claimed what it executes in, it is
\* homeless.
GiveUp(p, size) ==
    /\ mem_base' = [mem_base EXCEPT ![p] = 0]
    /\ mem_size' = [mem_size EXCEPT ![p] = size]
    /\ homeless' = IF mem_base[p] # 0 THEN homeless \cup {p} ELSE homeless

\* do_exec() that has loaded its program: a parent in P_VFORK is resumed, else
\* the program runs inside the call (exec_enter()).
Enter(p, l) ==
    /\ mem_base' = [mem_base EXCEPT ![p] = l.base]
    /\ mem_size' = [mem_size EXCEPT ![p] = l.size]
    /\ brk' = [brk EXCEPT ![p] = l.brk]
    /\ image' = [image EXCEPT ![p] = Region(l.base, l.size)]
    /\ homeless' = homeless \ {p}
    /\ IF state[ppid[p]] = "VFORK"
       THEN /\ state' = [state EXCEPT ![ppid[p]] = "LIVE"]
            /\ UNCHANGED exec_active
       ELSE /\ exec_active' = TRUE
            /\ UNCHANGED state

\* do_exec().  It looks for memory while the caller still claims its own; the
\* claim is overwritten as soon as memory has been found, and cleared when the
\* load fails.
Exec(p, g, args) ==
    /\ state[p] = "LIVE"
    /\ InPlaceExec \/ state[ppid[p]] = "VFORK"
    /\ LET base == umem_alloc(Claims, FirstNeed(g))
       IN  /\ base # 0
           /\ \E l \in Loads(g, Claims \ {p}, base, args) :
                 /\ touched' = [by |-> p, bytes |-> l.bytes]
                 /\ IF l.ok THEN Enter(p, l)
                    ELSE /\ GiveUp(p, IF l.base = 0 THEN l.size ELSE 0)
                         /\ UNCHANGED <<state, brk, exec_active, image>>
    /\ UNCHANGED ppid

\* do_exit() otherwise, and the death by a signal.
ExitProcess(p) ==
    /\ state[p] = "LIVE"
    /\ ~exec_active
    /\ state' = [state EXCEPT
                    ![p] = "ZOMBIE",
                    ![ppid[p]] = IF @ = "VFORK" THEN "LIVE" ELSE @]
    /\ ppid' = [q \in Procs |->
                    IF state[q] # "FREE" /\ ppid[q] = p THEN Kernel ELSE ppid[q]]
    /\ mem_base' = [mem_base EXCEPT ![p] = 0]
    /\ mem_size' = [mem_size EXCEPT ![p] = 0]
    /\ image' = [image EXCEPT ![p] = {}]
    /\ homeless' = homeless \ {p}
    /\ touched' = Untouched
    /\ UNCHANGED <<brk, exec_active>>

\* do_exit() while exec_active is set: exec_leave() goes on in do_exec(), which
\* takes the memory of whoever is curproc and returns to its user program.
ExecLeave(p) ==
    /\ state[p] = "LIVE"
    /\ exec_active
    /\ exec_active' = FALSE
    /\ GiveUp(p, 0)
    /\ touched' = Untouched
    /\ UNCHANGED <<state, ppid, brk, image>>

\* do_waitpid() frees the slot.
Reap(q) ==
    /\ state[q] = "ZOMBIE" /\ state[ppid[q]] = "LIVE"
    /\ state' = [state EXCEPT ![q] = "FREE"]
    /\ touched' = Untouched
    /\ UNCHANGED <<ppid, mem_base, mem_size, brk, exec_active, image, homeless>>

\* Mutant: the region of the parent, whatever its state.
BreakOwnerAlways(p) == IF mem_base[p] = 0 THEN ppid[p] ELSE p

\* Whose break sbrk_proc() moves: a process without memory has its parent's
\* moved while that is in P_VFORK.
BreakOwner(p) ==
    IF mem_base[p] = 0 /\ state[ppid[p]] = "VFORK" THEN ppid[p] ELSE p

\* Mutant: the heap may grow into the stack.
BreakLimitTop(o) == mem_base[o] + mem_size[o]

\* "mem_top - USER_STACK_DEFAULT".
BreakLimit(o) == mem_base[o] + mem_size[o] - STACK

\* sbrk_proc() that succeeds.
Sbrk(p, incr) ==
    LET o == BreakOwner(p)
        new == brk[o] + incr
    IN  /\ state[p] = "LIVE"
        /\ mem_base[o] # 0
        /\ new <= BreakLimit(o)
        /\ new >= mem_base[o]
        /\ brk' = [brk EXCEPT ![o] = new]
        /\ touched' = [by |-> p, bytes |-> brk[o]..(new - 1)]
        /\ UNCHANGED <<state, ppid, mem_base, mem_size, exec_active, image, homeless>>

Next ==
    \/ \E c \in Users, g \in Programs, args \in Args : Spawn(c, g, args)
    \/ \E p, c \in Users : Vfork(p, c)
    \/ \E p \in Users, g \in Programs, args \in Args : Exec(p, g, args)
    \/ \E p \in Users : ExitProcess(p) \/ ExecLeave(p) \/ Reap(p)
    \/ \E p \in Users, incr \in Increments : Sbrk(p, incr)

Spec == Init /\ [][Next]_vars

-----------------------------------------------------------------------------
(* Properties *)

Live == {p \in Users : state[p] \in {"LIVE", "VFORK"}}
RegionOf(p) == IF mem_base[p] = 0 THEN {} ELSE Region(mem_base[p], mem_size[p])

\* Types; a break lies between the start of its region and the stack that
\* sbrk_proc() keeps free.
TypeOK ==
    /\ state \in [Procs -> {"FREE", "LIVE", "VFORK", "ZOMBIE"}]
    /\ ppid \in [Procs -> Procs]
    /\ exec_active \in BOOLEAN
    /\ homeless \subseteq Live
    /\ \A p \in Procs : image[p] \subseteq Region(USER_BASE, USER_TOP - USER_BASE)
    /\ \A p \in Procs : mem_base[p] # 0 =>
           brk[p] \in mem_base[p]..(mem_base[p] + mem_size[p] - STACK)

\* Two processes never claim the same memory, nor any outside the pool, though
\* the allocator knows only the table (umem_alloc(), mem.c:168).
RegionsDisjoint ==
    \A p \in Procs :
        /\ RegionOf(p) \subseteq Region(USER_BASE, USER_TOP - USER_BASE)
        /\ \A q \in Procs \ {p} : RegionOf(p) \cap RegionOf(q) = {}

\* A program that has not lost its memory to an exec in place runs in a region
\* of the table: its own, or while it is a vforked child that of the parent
\* frozen for it.
ProgramsKeepMemory ==
    \A p \in Live \ homeless :
        image[p] = RegionOf(IF mem_base[p] # 0 THEN p ELSE ppid[p])
            /\ (mem_base[p] = 0 => state[ppid[p]] = "VFORK")

\* The scan for a gap finds the lowest place that is free, for every need, and
\* finds one exactly if umem_stats() reports one as large (the figure meminfo
\* shows is the largest program that can be started).
FreeAt(a, need) ==
    /\ Region(a, need) \subseteq Region(USER_BASE, USER_TOP - USER_BASE)
    /\ \A p \in Claims : Region(a, need) \cap RegionOf(p) = {}
AllocIsFirstFit ==
    \A need \in 1..(USER_TOP - USER_BASE) :
        LET found == umem_alloc(Claims, need)
            places == {a \in USER_BASE..USER_TOP : FreeAt(a, RoundUp(need))}
        IN  /\ IF found = 0 THEN places = {}
               ELSE found \in places /\ \A a \in places : found <= a
            /\ (found # 0) <=> (RoundUp(need) <= umem_stats(Claims).largest)

\* What a loader writes, and what sbrk() hands out, is nobody else's: no other
\* program that keeps its memory executes there, but the parent of a vforked
\* child that moves the common break.
MemoryIsPrivate ==
    [][\A q \in (Live' \ homeless') \ {touched'.by} :
          \/ touched'.bytes \cap image'[q] = {}
          \/ state'[q] = "VFORK" /\ ppid'[touched'.by] = q
               /\ mem_base'[touched'.by] = 0 /\ brk'[q] # brk[q]]_vars

\* Does not hold.  The place a program is loaded at is aligned, as umem_alloc()'s
\* "4-byte align" and the tests ask ("ASSERT_EQ(base & 3, 0)",
\* tests/test_mem.c:443): the 68000 cannot read a word at an odd address.
RegionsAligned == \A p \in Procs : mem_base[p] % ALIGN = 0

-----------------------------------------------------------------------------
(* Inductive invariants *)

\* Memory is claimed by live processes only, inside the pool, and leaves room
\* for a stack; process 0 never claims any nor waits in P_VFORK.
ClaimHeld(p) ==
    /\ state[p] \in {"LIVE", "VFORK"}
    /\ USER_BASE <= mem_base[p]
    /\ mem_base[p] + mem_size[p] <= USER_TOP
    /\ mem_size[p] > STACK
Apart(p, q) ==
    \/ mem_base[p] + mem_size[p] <= mem_base[q]
    \/ mem_base[q] + mem_size[q] <= mem_base[p]
Claimed ==
    /\ mem_base \in [Procs -> Nat] /\ mem_size \in [Procs -> Nat]
    /\ brk \in [Procs -> Nat] /\ image \in [Procs -> SUBSET Nat]
    /\ state[Kernel] = "LIVE" /\ mem_base[Kernel] = 0
    /\ \A p \in Procs : mem_base[p] # 0 => ClaimHeld(p)
    /\ \A p, q \in Procs : mem_base[p] # 0 /\ mem_base[q] # 0 /\ p # q => Apart(p, q)
ClaimInv == TypeOK /\ Claimed

\* A parent in P_VFORK waits for one live child, which has not vforked itself.
Windows ==
    \A p \in Live : state[ppid[p]] = "VFORK" =>
        /\ state[p] = "LIVE"
        /\ \A q \in Live : ppid[q] = ppid[p] => q = p
KeepInv == ClaimInv /\ ProgramsKeepMemory /\ Windows

\* The relocation table of a program that runs from ROM, which the loader puts
\* into its region for a moment, fits there: exec_mem_need_xip() does not count
\* it.
RelocsFit == \A g \in Programs : g.xip => g.relocs <= g.bss + HEAP + STACK
=============================================================================
