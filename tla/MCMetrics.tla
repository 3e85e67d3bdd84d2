----------------------------- MODULE MCMetrics -----------------------------
(***************************************************************************)
(* A finite instance of Metrics for TLC: one connection is busy while      *)
(* further visitors queue, are refused or time out.                        *)
(***************************************************************************)
EXTENDS Metrics

OneWorker == {1}
=============================================================================
