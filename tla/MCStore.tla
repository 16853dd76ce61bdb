------------------------------ MODULE MCStore ------------------------------
(* Store on small instances.  Inodes are interchangeable, and so are callers. *)
EXTENDS Store, TLC

Symmetry == Permutations(Inode) \cup Permutations(Proc)
=============================================================================
