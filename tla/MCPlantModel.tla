------------------------------ MODULE MCPlantModel ------------------------------
(* PlantModel with the rails of some levers. *)
EXTENDS PlantModel

\* Both rails and the nominal position of every lever.
MCPositions ==
    [rod_position |-> {0, 50, 100}, pump_speed |-> {0, 80, 100}, steam_valve |-> {0, 50, 100},
     leak_rate |-> {0, 100}, xenon_injection |-> {0, 100}]
=============================================================================
