---------------------------- MODULE MCOpenFiles ----------------------------
(* Instances of OpenFiles for TLC: process 0, a shell and its vforked child. *)
EXTENDS OpenFiles

\* last only serves NewFdNotCloexec, and the flags of a dead process are
\* overwritten before they are read.
LiveView ==
    <<fd, [p \in live |-> fd_flags[p]], refcount, file, readers, writers, iref, live,
      parent>>
=============================================================================
