-------------------------------- MODULE MCIpc --------------------------------
(* A small instance of Ipc for TLC. *)
EXTENDS Ipc
=============================================================================
