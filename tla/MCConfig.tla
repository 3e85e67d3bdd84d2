------------------------------ MODULE MCConfig ------------------------------
(***************************************************************************)
(* A small instance of Config: eight bits for a duration, a millisecond of *)
(* three, and files and HELLOs with values around every limit.             *)
(***************************************************************************)
EXTENDS Config

MCTime == {-1, 0, 5, 6, 8, 13, 31}
MCAnnounced == {-1, 0, 1, 2, 5, 40, 41, 88}
=============================================================================
