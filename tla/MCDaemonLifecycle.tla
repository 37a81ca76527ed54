------------------------- MODULE MCDaemonLifecycle -------------------------
(* A small instance of DaemonLifecycle for TLC. *)
EXTENDS DaemonLifecycle
=============================================================================
