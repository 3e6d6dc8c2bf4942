----------------------------- MODULE MCActuatorBus -----------------------------
(* ActuatorBus on small instances: its liveness excludes symmetry reduction. *)
EXTENDS ActuatorBus
=============================================================================
