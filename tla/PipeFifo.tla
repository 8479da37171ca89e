------------------------------ MODULE PipeFifo ------------------------------
(***************************************************************************)
(* What a pipe promises to the programs at its ends: a bounded first-in    *)
(* first-out queue of bytes.  A read returns as soon as there is anything, *)
(* with as much as fits; it returns nothing only when no writer is left.   *)
(* A write stores what fits as soon as there is room and fails once no     *)
(* reader is left.  A call takes effect at one moment between its          *)
(* invocation and its return.                                              *)
(***************************************************************************)
EXTENDS Integers, Sequences, FiniteSetsExt

CONSTANTS
    Users,          \* the processes
    Capacity,       \* bytes the pipe holds
    Data,           \* what programs write
    Lens            \* the lengths programs read with

EPIPE == 32

VARIABLES
    queue,          \* the bytes in the pipe
    rend, wend,     \* who has the read end, the write end open
    call,           \* the call a process is in
    out             \* what its last call returned: a count and the bytes

vars == <<queue, rend, wend, call, out>>

NoCall == [op |-> "none", len |-> 0, data |-> <<>>]
Nothing == [n |-> 0, data |-> <<>>]

Init ==
    /\ queue = <<>>
    /\ rend \in SUBSET Users
    /\ wend \in SUBSET Users
    /\ call = [p \in Users |-> NoCall]
    /\ out = [p \in Users |-> Nothing]

Invoke(p, c) ==
    /\ call[p] = NoCall
    /\ call' = [call EXCEPT ![p] = c]
    /\ out' = [out EXCEPT ![p] = Nothing]

Return(p, n, data) ==
    /\ call' = [call EXCEPT ![p] = NoCall]
    /\ out' = [out EXCEPT ![p] = [n |-> n, data |-> data]]

InvokeRead(p) ==
    /\ p \in rend
    /\ \E len \in Lens : Invoke(p, [op |-> "read", len |-> len, data |-> <<>>])
    /\ UNCHANGED <<queue, rend, wend>>

InvokeWrite(p) ==
    /\ p \in wend
    /\ \E data \in Data : Invoke(p, [op |-> "write", len |-> Len(data), data |-> data])
    /\ UNCHANGED <<queue, rend, wend>>

\* Bytes, or the end of the file.
Read(p) ==
    LET k == Min({call[p].len, Len(queue)})
    IN  /\ call[p].op = "read"
        /\ queue # <<>> \/ wend = {}
        /\ queue' = SubSeq(queue, k + 1, Len(queue))
        /\ Return(p, k, SubSeq(queue, 1, k))
        /\ UNCHANGED <<rend, wend>>

\* A write that stores nothing fails, a write of no bytes too.
Write(p) ==
    LET k == Min({call[p].len, Capacity - Len(queue)})
    IN  /\ call[p].op = "write"
        /\ rend # {}
        /\ Len(queue) < Capacity
        /\ queue' = queue \o SubSeq(call[p].data, 1, k)
        /\ Return(p, IF k > 0 THEN k ELSE -EPIPE, <<>>)
        /\ UNCHANGED <<rend, wend>>

WriteBroken(p) ==
    /\ call[p].op = "write"
    /\ rend = {}
    /\ Return(p, -EPIPE, <<>>)
    /\ UNCHANGED <<queue, rend, wend>>

\* p closes one end or, by exiting, both.
Close(p) ==
    /\ call[p] = NoCall
    /\ rend' \in {rend, rend \ {p}}
    /\ wend' \in {wend, wend \ {p}}
    /\ UNCHANGED <<queue, call, out>>

Next ==
    \E p \in Users :
        \/ InvokeRead(p) \/ InvokeWrite(p)
        \/ Read(p) \/ Write(p) \/ WriteBroken(p)
        \/ Close(p)

Spec == Init /\ [][Next]_vars
=============================================================================
