----------------------------- MODULE MCRegistry -----------------------------
(* Registry on a small instance: integers stand for managers and clients,  *)
(* so that the CHOOSE of a new one takes them in order.                    *)
EXTENDS Registry

Two == 1 .. 2
Three == 1 .. 3
=============================================================================
