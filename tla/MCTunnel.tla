------------------------------ MODULE MCTunnel ------------------------------
(***************************************************************************)
(* Finite instances of Tunnel for TLC: the bounds are in the .cfg files.   *)
(***************************************************************************)
EXTENDS Tunnel
=============================================================================
