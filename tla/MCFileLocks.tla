---------------------------- MODULE MCFileLocks ----------------------------
(* Small instances of FileLocks for TLC. *)
EXTENDS FileLocks, TLC

\* Files and requests are interchangeable.
Symmetry == Permutations(Files) \cup Permutations(Tasks)
=============================================================================
