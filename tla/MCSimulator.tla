------------------------------ MODULE MCSimulator ------------------------------
(* Simulator on small instances: its liveness excludes symmetry reduction. *)
EXTENDS Simulator
=============================================================================
