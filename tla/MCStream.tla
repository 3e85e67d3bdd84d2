------------------------------ MODULE MCStream ------------------------------
(***************************************************************************)
(* Finite instances of Stream for TLC: the bounds are in the .cfg files.   *)
(***************************************************************************)
EXTENDS Stream
=============================================================================
