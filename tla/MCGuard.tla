------------------------------ MODULE MCGuard ------------------------------
(***************************************************************************)
(* A finite instance of Guard for TLC: more connections than slots.        *)
(***************************************************************************)
EXTENDS Guard

CONSTANTS c1, c2
Conns == {c1, c2}
=============================================================================
