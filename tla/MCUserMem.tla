------------------------------ MODULE MCUserMem ------------------------------
(* A small pool for UserMem, with a program that runs from ROM and one that  *)
(* does not, both of sizes that are no multiples of ALIGN.                   *)
EXTENDS UserMem, TLC

Slots == Permutations(Users)

Prog(t, d, b, r, x) == [text |-> t, data |-> d, bss |-> b, relocs |-> r, xip |-> x]
MCPrograms == {Prog(2, 1, 0, 1, TRUE), Prog(1, 1, 0, 1, FALSE)}
MCIncrements == {-1, 1}

\* What a step or a property can tell of a state: not what the last one
\* touched, nor fields of unused slots, breaks of processes without memory and
\* the memory the homeless execute in.
Claiming == [p \in Procs |->
    IF mem_base[p] = 0 THEN <<>> ELSE <<mem_base[p], mem_size[p], brk[p]>>]
Parents == [p \in Procs |-> IF state[p] = "FREE" THEN Kernel ELSE ppid[p]]
Homes == [p \in Procs |-> IF p \in homeless THEN {} ELSE image[p]]
Relevant == <<state, Parents, Claiming, exec_active, Homes, homeless>>
=============================================================================
