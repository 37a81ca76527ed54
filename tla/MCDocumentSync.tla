-------------------------- MODULE MCDocumentSync --------------------------
(* Small instances of DocumentSync for TLC. *)
EXTENDS DocumentSync, TLC

\* Requests of a kind are interchangeable.
Symmetry == Permutations(Diags) \cup Permutations(Changes)
=============================================================================
