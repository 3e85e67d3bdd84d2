------------------------------- MODULE MCPool -------------------------------
(***************************************************************************)
(* Finite instances of Pool, seen as an implementation of Visitors, for    *)
(* TLC.  With IDs 1 and 2 the idle list may be out of registration order,  *)
(* and a visitor could be given to two workers.                            *)
(***************************************************************************)
EXTENDS PoolVisits

TwoWorkers == {1, 2}
OneWorker == {1}
=============================================================================
