---------------------------- MODULE MCSimulation ----------------------------
(* Three visitors, the two arms with a rate and one without.  No symmetry: *)
(* the run checks liveness.                                                *)
EXTENDS Simulation
=============================================================================
