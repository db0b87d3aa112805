---------------------------- MODULE MCSimulation ----------------------------
(* Instance of Simulation for TLC. *)
EXTENDS Simulation
=============================================================================
