------------------------------- MODULE PlantModel -------------------------------
(***************************************************************************)
(* The plant integrator (src/app/services/plant_model.py) driven by the    *)
(* actuator levers one tick after another, with the sensors                *)
(* (services/sensors.py) that read it, the alarm bands of                  *)
(* services/setpoints.py that the readings are held against and the        *)
(* excursions services/incident_emitter.py sees in the true state.         *)
(*                                                                         *)
(* A double is an integer number of 1/Resolution units; exp(-1/tau) is     *)
(* rounded to thousandths.  A tick is TICK_SECONDS = 1 long.  Levers are   *)
(* whole percents, as ActuatorSetRequest's 0..100 are.  "reading" is what  *)
(* the sensors would show without noise; the noise on top of it is the     *)
(* margin NoiseMargin of the properties about alarms.                      *)
(***************************************************************************)
EXTENDS Integers

CONSTANTS
    Resolution,     \* integer steps per engineering unit
    Positions,      \* Positions[l]: where lever l may be put
    MaxCommands     \* bound: lever movements in a behaviour

Levers == {"rod_position", "pump_speed", "steam_valve", "leak_rate", "xenon_injection"}

ASSUME ResolutionAssumption == Resolution \in Nat \ {0}
ASSUME PositionsAssumption == Positions \in [Levers -> SUBSET (0..100)]
ASSUME CommandsAssumption == MaxCommands \in Nat

-----------------------------------------------------------------------------
(* Tables *)

Base == [reactor_power |-> 95, core_temperature |-> 700, reactivity |-> 0,
         coolant_flow_rate |-> 80, coolant_pressure |-> 130, radiation_level |-> 2,
         containment_integrity |-> 95]

Metrics == {"reactor_power", "core_temperature", "reactivity", "coolant_flow_rate",
            "coolant_pressure", "radiation_level", "containment_integrity"}

Lowest == [reactor_power |-> 0, core_temperature |-> 200, reactivity |-> -5,
           coolant_flow_rate |-> 0, coolant_pressure |-> 0, radiation_level |-> 0,
           containment_integrity |-> 0]

Highest == [reactor_power |-> 120, core_temperature |-> 1200, reactivity |-> 5,
            coolant_flow_rate |-> 100, coolant_pressure |-> 200, radiation_level |-> 500,
            containment_integrity |-> 100]

\* 1000 * (1 - exp(-1 / TAUS[metric]))
Alpha == [reactor_power |-> 118, core_temperature |-> 33, reactivity |-> 181,
          coolant_flow_rate |-> 95, coolant_pressure |-> 80, radiation_level |-> 64,
          containment_integrity |-> 22]

Nominal == [rod_position |-> 50, pump_speed |-> 80, steam_valve |-> 50, leak_rate |-> 0,
            xenon_injection |-> 0]

\* SETPOINTS; a metric without a threshold on a side is not in the record.
DangerHigh == [reactor_power |-> 110, core_temperature |-> 1000, reactivity |-> 3,
               coolant_pressure |-> 180, radiation_level |-> 50]
DangerLow == [coolant_flow_rate |-> 50, coolant_pressure |-> 100, containment_integrity |-> 85]
WarningHigh == [reactor_power |-> 100, core_temperature |-> 900, reactivity |-> 1,
                coolant_pressure |-> 160, radiation_level |-> 5]

\* Seeded fault: the flow's warning is set just above its danger.
WarningLowLate == [coolant_flow_rate |-> 55, coolant_pressure |-> 120, containment_integrity |-> 95]

WarningLow == [coolant_flow_rate |-> 70, coolant_pressure |-> 120, containment_integrity |-> 95]

\* Seeded fault: the thermowell lags as slowly as the core heats.
LagSlow == [core_temperature |-> 33, radiation_level |-> 64]

\* SENSORS: 1000 * (1 - exp(-1 / lag_tau)) of the sensors that lag.
Lag == [core_temperature |-> 181, radiation_level |-> 283]

\* SENSORS, in hundredths of a unit: five times the deviation that noise_sigma
\* leaves on a reading, noise_sigma / sqrt(1 - (1 - lag)^2) under a lag.
NoiseMargin == [reactor_power |-> 250, core_temperature |-> 3050, reactivity |-> 10,
                coolant_flow_rate |-> 200, coolant_pressure |-> 325, radiation_level |-> 36,
                containment_integrity |-> 100]

\* EXCURSION_CODE_MAP
CodeHigh == [reactor_power |-> "unrequested_fission_surplus",
             core_temperature |-> "coolant_temperature_exceedance",
             reactivity |-> "reactivity_excursion_risk",
             coolant_pressure |-> "steam_pressure_anomaly",
             radiation_level |-> "radiation_level_exceedance"]
CodeLow == [reactivity |-> "xenon_poisoning_instability",
            coolant_flow_rate |-> "coolant_flow_reduction",
            coolant_pressure |-> "steam_pressure_anomaly",
            containment_integrity |-> "containment_integrity_compromised"]

-----------------------------------------------------------------------------
(* Functions *)

Scaled(table) == [m \in Metrics |-> table[m] * Resolution]

\* Seeded fault: saturation at the top only.
ClampTop(value, low, high) == IF value > high THEN high ELSE value

Clamp(value, low, high) ==
    IF value > high THEN high ELSE IF value < low THEN low ELSE value

\* Commands set the operating point, faults push away from it; metrics that no
\* lever touches keep their base as target.
TargetsFromActuators(lever) ==
    [Scaled(Base) EXCEPT
        !["reactivity"] = (Resolution * (10 * (50 - lever["rod_position"]) - 3 * lever["xenon_injection"])) \div 100,
        !["coolant_flow_rate"] = (Resolution * (10 * lever["pump_speed"] - 2 * lever["leak_rate"])) \div 10,
        !["coolant_pressure"] = @ + (Resolution * 14 * (50 - lever["steam_valve"])) \div 10,
        !["core_temperature"] = @ + (Resolution * 15 * lever["leak_rate"]) \div 10]

\* Seeded fault: the temperature feedback has the wrong sign and unit gain.
EffectiveTargetsRunaway(s, targets) ==
    LET base == Scaled(Base) IN
    [targets EXCEPT
        !["core_temperature"] = @ + 4 * (base["coolant_flow_rate"] - s["coolant_flow_rate"])
                                  + (5 * (s["reactor_power"] - base["reactor_power"])) \div 2,
        !["reactor_power"] = @ + 3 * s["reactivity"],
        !["radiation_level"] = @ + 5 * (base["containment_integrity"] - s["containment_integrity"]),
        !["reactivity"] = @ + (s["core_temperature"] - base["core_temperature"]) \div 2]

\* The coupling terms of the current state.
EffectiveTargets(s, targets) ==
    LET base == Scaled(Base) IN
    [targets EXCEPT
        !["core_temperature"] = @ + 4 * (base["coolant_flow_rate"] - s["coolant_flow_rate"])
                                  + (5 * (s["reactor_power"] - base["reactor_power"])) \div 2,
        !["reactor_power"] = @ + 3 * s["reactivity"],
        !["radiation_level"] = @ + 5 * (base["containment_integrity"] - s["containment_integrity"]),
        !["reactivity"] = @ - (s["core_temperature"] - base["core_temperature"]) \div 200]

\* Each metric eases a fraction of its gap; the fraction is rounded toward zero.
Eased(gap, alpha) ==
    IF gap >= 0 THEN (gap * alpha) \div 1000 ELSE -((-gap * alpha) \div 1000)

Stepped(s, targets) ==
    LET eff == EffectiveTargets(s, targets) IN
    [m \in Metrics |-> Clamp(s[m] + Eased(eff[m] - s[m], Alpha[m]),
                             Lowest[m] * Resolution, Highest[m] * Resolution)]

\* sample_all with every sensor OK: a lag eases the last reading toward the truth.
Sampled(s, prev) ==
    [m \in Metrics |-> IF m \in DOMAIN Lag THEN prev[m] + Eased(s[m] - prev[m], Lag[m]) ELSE s[m]]

\* A threshold is reached on its edge; an unused side is not in the table.
AtOrAbove(rail, s, m) == m \in DOMAIN rail /\ s[m] >= rail[m] * Resolution
\* Seeded fault: the low rail is compared the wrong way round.
AtOrBelowInverted(rail, s, m) == m \in DOMAIN rail /\ s[m] >= rail[m] * Resolution

AtOrBelow(rail, s, m) == m \in DOMAIN rail /\ s[m] <= rail[m] * Resolution

\* _danger_direction
IsHigh(s, m) == AtOrAbove(DangerHigh, s, m)
IsLow(s, m) == AtOrBelow(DangerLow, s, m)
Danger(s, m) == IsHigh(s, m) \/ IsLow(s, m)

\* classify: danger takes precedence.
Level(s, m) ==
    IF Danger(s, m) THEN "danger"
    ELSE IF AtOrAbove(WarningHigh, s, m) \/ AtOrBelow(WarningLow, s, m) THEN "warning"
    ELSE "normal"

\* Seeded fault: only the high rails have codes.
ExcursionsHighOnly(s) == {m \in Metrics : IsHigh(s, m) /\ m \in DOMAIN CodeHigh}

\* current_excursions: metrics in DANGER whose direction has a code.
Excursions(s) ==
    {m \in Metrics : \/ IsHigh(s, m) /\ m \in DOMAIN CodeHigh
                     \/ ~IsHigh(s, m) /\ IsLow(s, m) /\ m \in DOMAIN CodeLow}

-----------------------------------------------------------------------------
VARIABLES
    state,      \* the true plant state
    reading,    \* the readings, kept between ticks and restarts like the state
    lever,      \* actuator_state
    commands

vars == <<state, reading, lever, commands>>

TypeOK ==
    /\ state \in [Metrics -> Int]
    /\ \A m \in Metrics : state[m] >= Lowest[m] * Resolution /\ state[m] <= Highest[m] * Resolution
    /\ reading \in [Metrics -> Int]
    /\ lever \in [Levers -> 0..100]
    /\ commands \in 0..MaxCommands

Init ==
    /\ state = Scaled(Base)
    /\ reading = state
    /\ lever = Nominal
    /\ commands = 0

\* An actuator message is folded into actuator_state.
SetLever(l, position) ==
    /\ commands < MaxCommands
    /\ position # lever[l]
    /\ lever' = [lever EXCEPT ![l] = position]
    /\ commands' = commands + 1
    /\ UNCHANGED <<state, reading>>

\* The simulator is restarted: it resumes from the snapshot, with the levers at
\* their nominal positions until the broker redelivers them.
Restart ==
    /\ commands < MaxCommands
    /\ lever # Nominal
    /\ lever' = Nominal
    /\ commands' = commands + 1
    /\ UNCHANGED <<state, reading>>

Tick ==
    /\ state' = Stepped(state, TargetsFromActuators(lever))
    /\ reading' = Sampled(state', reading)
    /\ UNCHANGED <<lever, commands>>

Next == Tick \/ Restart \/ (\E l \in Levers : \E position \in Positions[l] : SetLever(l, position))

Spec == Init /\ [][Next]_vars

\* The simulator ticks every second.
FairSpec == Spec /\ WF_vars(Tick)

-----------------------------------------------------------------------------
(* Properties *)

\* A plant no lever has disturbed stays at its base: with nothing wrong the
\* couplings cancel and no report is ever due.  No alarm is shown either, save
\* for containment, whose base lies on the edge of its warning band.
QuietIsSteady ==
    commands = 0 =>
        /\ state = Scaled(Base) /\ reading = Scaled(Base)
        /\ {m \in Metrics : Level(reading, m) # "normal"} = {"containment_integrity"}

\* Whatever the levers do, each DANGER the alarms would show has a code to be
\* reported under, at the rail the plant really reached.
DangerHasCode == \A m \in Metrics : Danger(state, m) => m \in Excursions(state)

\* The levels the noise can make of a reading.
Shown(m) == {Level([reading EXCEPT ![m] = @ + (e * Resolution) \div 100], m) :
                e \in {-NoiseMargin[m], 0, NoiseMargin[m]}}

\* Reports are filed on the true state, alarms are raised on readings that lag
\* behind it.  The two are never two levels apart: nobody is handed a report of
\* a DANGER on a metric that shows NORMAL, nor shown DANGER where the plant is
\* well.
AlarmNeverTwoLevelsOff ==
    \A m \in Metrics :
        /\ Level(state, m) = "danger" => "normal" \notin Shown(m)
        /\ Level(state, m) = "normal" => "danger" \notin Shown(m)

\* The warning bands are wider than any metric moves in a second: an operator
\* sees a WARNING before every DANGER.
WarnsFirst == [][Tick => \A m \in Metrics : ~("normal" \in Shown(m) /\ "danger" \in Shown(m)')]_vars

\* After any disturbance the plant, and what the sensors show of it, find back
\* to within a unit of the base once the levers are nominal again: no saturation
\* or feedback holds it elsewhere and no reading sticks.
Near(s, m) == s[m] - Base[m] * Resolution \in -Resolution..Resolution
Recovers == <>[](lever = Nominal) => <>[](\A m \in Metrics : Near(state, m) /\ Near(reading, m))

\* A stopped pump drives flow to its DANGER band for good, whatever the other
\* levers do, so that the debounce of the reports is always passed in the end.
StoppedPumpIsExcursion ==
    <>[](lever["pump_speed"] = 0) => <>[]("coolant_flow_rate" \in Excursions(state))
=============================================================================
