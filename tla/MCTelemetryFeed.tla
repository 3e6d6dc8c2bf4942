---------------------------- MODULE MCTelemetryFeed ----------------------------
(* TelemetryFeed on small instances: its liveness excludes symmetry reduction. *)
EXTENDS TelemetryFeed
=============================================================================
