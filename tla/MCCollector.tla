----------------------------- MODULE MCCollector -----------------------------
(***************************************************************************)
(* The instance of Collector_health.                                       *)
(***************************************************************************)
EXTENDS Collector, MCDataset
=============================================================================
