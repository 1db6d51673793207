----------------------------- MODULE MCFdTable ------------------------------
(* Small instances of FdTable. *)
EXTENDS FdTable, TLC

Symmetry == Permutations(Task) \cup Permutations(File) \cup Permutations(Inode)
=============================================================================
