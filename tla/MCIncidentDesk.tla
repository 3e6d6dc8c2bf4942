----------------------------- MODULE MCIncidentDesk -----------------------------
(* IncidentDesk on a small instance: its liveness excludes symmetry reduction. *)
EXTENDS IncidentDesk
=============================================================================
