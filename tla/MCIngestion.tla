----------------------------- MODULE MCIngestion -----------------------------
(* The instance of Ingestion for TLC: no symmetry, its liveness is checked. *)
EXTENDS Ingestion
=============================================================================
