------------------------------ MODULE MCReads ------------------------------
(* Reads on small instances.  Inodes, documents, the slots of children and  *)
(* the callers other than main are interchangeable.                         *)
EXTENDS Reads, TLC

Symmetry == UNION {Permutations(S) : S \in {Inode, Value, Slot, Caller \ Main}}
=============================================================================
