----------------------------- MODULE MCExporter -----------------------------
(***************************************************************************)
(* A finite instance of Exporter for TLC: one slot and three requests, so  *)
(* that one scrape runs, a second meets the limit and a third comes        *)
(* without credentials.                                                    *)
(***************************************************************************)
EXTENDS Exporter

CONSTANTS r1, r2, r3
Requests == {r1, r2, r3}
=============================================================================
