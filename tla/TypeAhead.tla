------------------------------ MODULE TypeAhead ------------------------------
(* What a terminal's input queue promises: characters leave it one at a time *)
(* in the order in which they arrived, none twice and none that was not      *)
(* typed, until the whole queue is thrown away.                              *)
EXTENDS Sequences, Naturals

CONSTANTS Chars, Capacity, NoChar

VARIABLES queue,        \* characters that a reader can get
          taken         \* the last character the reader got, until its call returns

\* Characters become available, as many as there is room for.
Arrive ==
    /\ \E n \in 1..(Capacity - Len(queue)) :
          \E chars \in [1..n -> Chars] : queue' = queue \o chars
    /\ UNCHANGED taken

Take ==
    /\ queue # <<>>
    /\ taken' = Head(queue)
    /\ queue' = Tail(queue)

Discard == queue' = <<>> /\ UNCHANGED taken

Return == taken' = NoChar /\ UNCHANGED queue

Next == Arrive \/ Take \/ Discard \/ Return
=============================================================================
