---------------------------- MODULE MCTransport ----------------------------
(* Small instances of Transport for TLC. *)
EXTENDS Transport, TLC

\* Requests are interchangeable.
Symmetry == Permutations(Requests)
=============================================================================
