------------------------------ MODULE MCRelay -------------------------------
(***************************************************************************)
(* Finite instances of Relay for TLC: the bounds are in the .cfg files.    *)
(***************************************************************************)
EXTENDS Relay
=============================================================================
