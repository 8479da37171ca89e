------------------------------- MODULE MCTty -------------------------------
(* Instances of Tty for TLC. *)
EXTENDS Tty

MCModes == {Cooked, [icanon |-> FALSE, isig |-> FALSE, noflsh |-> FALSE]}

\* Behaviours are followed until a window has been hit.
NothingLost == lost \subseteq {"asleep"}
=============================================================================
