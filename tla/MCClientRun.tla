---------------------------- MODULE MCClientRun ----------------------------
(***************************************************************************)
(* A finite instance of ClientRun for TLC.  Slot has MaxIdle + MaxBusy     *)
(* names, so that the controller never runs out of them.                   *)
(***************************************************************************)
EXTENDS ClientRun

CONSTANTS s1, s2
Slots == {s1, s2}
=============================================================================
