------------------------------ MODULE FileTree ------------------------------
(***************************************************************************)
(* What a file system promises of its disk whatever happens to its memory: *)
(* a set of names, each of an inode with its contents.  A step that can be *)
(* seen adds one name, removes one, or changes the contents of one file,   *)
(* and leaves every other as it was.  Nothing is promised of a damaged     *)
(* disk, and no step makes it whole.                                       *)
(***************************************************************************)
EXTENDS Sequences, SequencesExt

VARIABLES
    tree,           \* records [dir, name, ino, content]
    damaged

SameName(e, f) == e.dir = f.dir /\ e.name = f.name

Init == ~damaged /\ \A e, f \in tree : SameName(e, f) => e = f

\* A name appears that was not there.
Link(old, new) ==
    \E e \in new \ old : new = old \cup {e} /\ ~\E f \in old : SameName(e, f)

Unlink(old, new) == \E e \in old \ new : new = old \ {e}

\* A file grows, is truncated, or is overwritten in place.
Update(old, new) ==
    \E e \in old \ new, f \in new \ old :
        /\ new = (old \ {e}) \cup {f}
        /\ SameName(e, f) /\ e.ino = f.ino
        /\ \/ IsPrefix(e.content, f.content)
           \/ f.content = <<>>
           \/ Len(f.content) = Len(e.content)

\* The two sets are named so that an implementation's are computed once a step.
Next ==
    \/ damaged'
    \/ /\ UNCHANGED damaged
       /\ \E old \in {tree}, new \in {tree'} :
             Link(old, new) \/ Unlink(old, new) \/ Update(old, new)

Spec == Init /\ [][Next]_<<tree, damaged>>
=============================================================================
