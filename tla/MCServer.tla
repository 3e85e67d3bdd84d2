------------------------------ MODULE MCServer ------------------------------
(***************************************************************************)
(* A finite instance of Server for TLC: its sets are in MCServer.cfg.      *)
(***************************************************************************)
EXTENDS Server
=============================================================================
