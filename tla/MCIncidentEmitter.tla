--------------------------- MODULE MCIncidentEmitter ---------------------------
(* IncidentEmitter on a small instance, with an excerpt of EXCURSION_CODE_MAP. *)
EXTENDS IncidentEmitter, TLC

\* A metric with two rails and one code, and one with a single rail.
MCCodeMap ==
    <<"coolant_pressure", "high">> :> "steam_pressure_anomaly" @@
    <<"coolant_pressure", "low">> :> "steam_pressure_anomaly" @@
    <<"coolant_flow_rate", "low">> :> "coolant_flow_reduction"
=============================================================================
