---------------------------- MODULE PlantModelProofs ----------------------------
(***************************************************************************)
(* Proofs about PlantModel for every resolution and every set of lever     *)
(* positions.                                                              *)
(***************************************************************************)
EXTENDS PlantModel, TLAPS

\* The tables have integer entries for exactly the metrics, in order.
LEMMA TablesTyped ==
    \A m \in Metrics :
        /\ Base[m] \in Int /\ Alpha[m] \in Nat /\ Lowest[m] \in Int /\ Highest[m] \in Int
        /\ Lowest[m] <= Base[m] /\ Base[m] <= Highest[m]
BY DEF Metrics, Base, Alpha, Lowest, Highest

LEMMA NominalTyped == Nominal \in [Levers -> 0..100]
BY DEF Nominal, Levers

\* Scaling a bound keeps the order of bounds.
LEMMA ScalingOrders ==
    ASSUME NEW x \in Int, NEW y \in Int, x <= y
    PROVE  /\ x * Resolution \in Int /\ y * Resolution \in Int
           /\ x * Resolution <= y * Resolution
BY ResolutionAssumption

\* _clamp returns a value within its bounds.
LEMMA ClampBounds ==
    ASSUME NEW value \in Int, NEW low \in Int, NEW high \in Int, low <= high
    PROVE  /\ Clamp(value, low, high) \in Int
           /\ Clamp(value, low, high) >= low /\ Clamp(value, low, high) <= high
BY DEF Clamp

\* A product with an integer gap stays an integer under the division.
LEMMA EasedTyped ==
    ASSUME NEW gap \in Int, NEW alpha \in Nat
    PROVE  Eased(gap, alpha) \in Int
<1>1. gap * alpha \in Int /\ (-gap) * alpha \in Int
  OBVIOUS
<1>2. (gap * alpha) \div 1000 \in Int /\ ((-gap) * alpha) \div 1000 \in Int
  BY <1>1
<1> QED
  BY <1>2 DEF Eased

LEMMA ScaledBaseTyped == Scaled(Base) \in [Metrics -> Int]
BY TablesTyped, ResolutionAssumption DEF Scaled

\* The targets of any lever positions are integers.
LEMMA TargetsTyped ==
    ASSUME NEW l \in [Levers -> 0..100]
    PROVE  TargetsFromActuators(l) \in [Metrics -> Int]
<1>1. /\ l["rod_position"] \in Int /\ l["xenon_injection"] \in Int /\ l["pump_speed"] \in Int
      /\ l["leak_rate"] \in Int /\ l["steam_valve"] \in Int /\ Resolution \in Int
  BY ResolutionAssumption DEF Levers
<1> DEFINE base == Scaled(Base)
           r == (Resolution * (10 * (50 - l["rod_position"]) - 3 * l["xenon_injection"])) \div 100
           f == (Resolution * (10 * l["pump_speed"] - 2 * l["leak_rate"])) \div 10
           p == (Resolution * 14 * (50 - l["steam_valve"])) \div 10
           c == (Resolution * 15 * l["leak_rate"]) \div 10
<1>2. r \in Int /\ f \in Int /\ p \in Int /\ c \in Int
  <2>1. /\ Resolution * (10 * (50 - l["rod_position"]) - 3 * l["xenon_injection"]) \in Int
        /\ Resolution * (10 * l["pump_speed"] - 2 * l["leak_rate"]) \in Int
        /\ Resolution * 14 * (50 - l["steam_valve"]) \in Int
        /\ Resolution * 15 * l["leak_rate"] \in Int
    BY <1>1
  <2> QED
    BY <2>1
<1>3. base \in [Metrics -> Int]
  BY ScaledBaseTyped
<1>4. TargetsFromActuators(l) =
        [base EXCEPT !["reactivity"] = r, !["coolant_flow_rate"] = f,
                     !["coolant_pressure"] = @ + p, !["core_temperature"] = @ + c]
  BY DEF TargetsFromActuators
<1> HIDE DEF base, r, f, p, c
<1>5. base["coolant_pressure"] + p \in Int /\ base["core_temperature"] + c \in Int
  BY <1>2, <1>3 DEF Metrics
<1> QED
  BY <1>2, <1>3, <1>4, <1>5

LEMMA EffectiveTyped ==
    ASSUME NEW s \in [Metrics -> Int], NEW t \in [Metrics -> Int]
    PROVE  EffectiveTargets(s, t) \in [Metrics -> Int]
<1> DEFINE base == Scaled(Base)
<1>1. base \in [Metrics -> Int]
  BY ScaledBaseTyped
<1> HIDE DEF base
<1>2. /\ "core_temperature" \in Metrics /\ "reactor_power" \in Metrics /\ "radiation_level" \in Metrics
      /\ "reactivity" \in Metrics /\ "coolant_flow_rate" \in Metrics /\ "containment_integrity" \in Metrics
  BY DEF Metrics
<1>3. /\ t["core_temperature"] + 4 * (base["coolant_flow_rate"] - s["coolant_flow_rate"])
           + (5 * (s["reactor_power"] - base["reactor_power"])) \div 2 \in Int
      /\ t["reactor_power"] + 3 * s["reactivity"] \in Int
      /\ t["radiation_level"] + 5 * (base["containment_integrity"] - s["containment_integrity"]) \in Int
      /\ t["reactivity"] - (s["core_temperature"] - base["core_temperature"]) \div 200 \in Int
  BY <1>1, <1>2
<1> QED
  BY <1>2, <1>3 DEF EffectiveTargets, base

\* A tick leaves every metric within its physical range, from whatever state
\* and towards whatever targets.
LEMMA SteppedInRange ==
    ASSUME NEW s \in [Metrics -> Int], NEW t \in [Metrics -> Int]
    PROVE  /\ Stepped(s, t) \in [Metrics -> Int]
           /\ \A m \in Metrics : /\ Stepped(s, t)[m] >= Lowest[m] * Resolution
                                 /\ Stepped(s, t)[m] <= Highest[m] * Resolution
<1> DEFINE eff == EffectiveTargets(s, t)
           moved(m) == s[m] + Eased(eff[m] - s[m], Alpha[m])
<1>1. eff \in [Metrics -> Int]
  BY EffectiveTyped
<1>2. ASSUME NEW m \in Metrics
      PROVE  /\ Clamp(moved(m), Lowest[m] * Resolution, Highest[m] * Resolution) \in Int
             /\ Clamp(moved(m), Lowest[m] * Resolution, Highest[m] * Resolution) >= Lowest[m] * Resolution
             /\ Clamp(moved(m), Lowest[m] * Resolution, Highest[m] * Resolution) <= Highest[m] * Resolution
  <2> HIDE DEF eff
  <2>1. moved(m) \in Int
    BY <1>1, EasedTyped, TablesTyped
  <2>2. /\ Lowest[m] * Resolution \in Int /\ Highest[m] * Resolution \in Int
        /\ Lowest[m] * Resolution <= Highest[m] * Resolution
    BY TablesTyped, ScalingOrders
  <2> HIDE DEF moved
  <2> QED
    BY <2>1, <2>2, ClampBounds
<1>3. Stepped(s, t) = [m \in Metrics |-> Clamp(moved(m), Lowest[m] * Resolution, Highest[m] * Resolution)]
  BY DEF Stepped
<1> HIDE DEF moved, eff
<1> QED
  BY <1>2, <1>3

\* A reading of integers is of integers.
LEMMA SampledTyped ==
    ASSUME NEW s \in [Metrics -> Int], NEW prev \in [Metrics -> Int]
    PROVE  Sampled(s, prev) \in [Metrics -> Int]
<1>1. ASSUME NEW m \in Metrics, m \in DOMAIN Lag
      PROVE  prev[m] + Eased(s[m] - prev[m], Lag[m]) \in Int
  <2>1. Lag[m] \in Nat
    BY <1>1 DEF Lag
  <2> QED
    BY <2>1, EasedTyped
<1> QED
  BY <1>1 DEF Sampled

\* Type correctness, and with it that no lever movement or restart takes a
\* metric out of its physical range.
THEOREM TypeCorrect == Spec => []TypeOK
<1>1. Init => TypeOK
  <2> SUFFICES ASSUME Init PROVE TypeOK
    OBVIOUS
  <2>1. state \in [Metrics -> Int] /\ reading \in [Metrics -> Int]
    BY ScaledBaseTyped DEF Init
  <2>2. \A m \in Metrics : state[m] >= Lowest[m] * Resolution /\ state[m] <= Highest[m] * Resolution
    <3>1. \A m \in Metrics : state[m] = Base[m] * Resolution
      BY DEF Init, Scaled
    <3> QED
      BY <3>1, TablesTyped, ScalingOrders
  <2>3. commands \in 0..MaxCommands
    BY CommandsAssumption DEF Init
  <2> QED
    BY <2>1, <2>2, <2>3, NominalTyped DEF TypeOK, Init
<1>2. TypeOK /\ [Next]_vars => TypeOK'
  <2> SUFFICES ASSUME TypeOK, [Next]_vars PROVE TypeOK'
    OBVIOUS
  <2> USE CommandsAssumption DEF TypeOK
  <2>1. CASE Tick
    <3>1. /\ state' \in [Metrics -> Int]
          /\ \A m \in Metrics : state'[m] >= Lowest[m] * Resolution /\ state'[m] <= Highest[m] * Resolution
      BY <2>1, TargetsTyped, SteppedInRange DEF Tick
    <3>3. reading' \in [Metrics -> Int]
      BY <2>1, <3>1, SampledTyped DEF Tick
    <3>2. lever' = lever /\ commands' = commands
      BY <2>1 DEF Tick
    <3> QED
      BY <3>1, <3>2, <3>3
  <2>2. CASE Restart
    BY <2>2, NominalTyped DEF Restart
  <2>3. ASSUME NEW l \in Levers, NEW position \in Positions[l], SetLever(l, position)
        PROVE  TypeOK'
    <3>1. position \in 0..100
      BY PositionsAssumption
    <3> QED
      BY <2>3, <3>1 DEF SetLever
  <2>4. CASE UNCHANGED vars
    BY <2>4 DEF vars
  <2> QED
    BY <2>1, <2>2, <2>3, <2>4 DEF Next
<1> QED
  BY <1>1, <1>2, PTL DEF Spec

-----------------------------------------------------------------------------
(* Every DANGER has a code *)

\* Each metric has a code for every rail it can fail at, in any state at all.
LEMMA RailsHaveCodes ==
    ASSUME NEW s, NEW m \in Metrics, Danger(s, m)
    PROVE  m \in Excursions(s)
<1>1. DOMAIN DangerHigh = DOMAIN CodeHigh
  BY DEF DangerHigh, CodeHigh
<1>2. DOMAIN DangerLow \subseteq DOMAIN CodeLow
  BY DEF DangerLow, CodeLow
<1>3. CASE IsHigh(s, m)
  BY <1>1, <1>3 DEF Excursions, IsHigh, AtOrAbove
<1>4. CASE ~IsHigh(s, m)
  <2>1. IsLow(s, m)
    BY <1>4 DEF Danger
  <2> QED
    BY <1>2, <1>4, <2>1 DEF Excursions, IsLow, AtOrBelow
<1> QED
  BY <1>3, <1>4

\* Whatever the levers do, a DANGER can be reported at the rail it is at.
THEOREM Coded == Spec => []DangerHasCode
<1>1. DangerHasCode
  BY RailsHaveCodes DEF DangerHasCode
<1> QED
  BY <1>1, PTL

-----------------------------------------------------------------------------
(* A plant nobody touches *)

\* Nothing is left to ease once the gap is closed.
LEMMA NothingToEase == ASSUME NEW alpha \in Nat PROVE Eased(0, alpha) = 0
BY DEF Eased

LEMMA NominalTargets == TargetsFromActuators(Nominal) = Scaled(Base)
<1> DEFINE base == Scaled(Base)
<1>1. base \in [Metrics -> Int]
  BY ScaledBaseTyped
<1>2. base["reactivity"] = 0 /\ base["coolant_flow_rate"] = 80 * Resolution
  BY ResolutionAssumption DEF Scaled, Base, Metrics
<1>3. /\ (Resolution * (10 * (50 - 50) - 3 * 0)) \div 100 = 0
      /\ (Resolution * (10 * 80 - 2 * 0)) \div 10 = 80 * Resolution
      /\ (Resolution * 14 * (50 - 50)) \div 10 = 0
      /\ (Resolution * 15 * 0) \div 10 = 0
  BY ResolutionAssumption
<1>4. /\ Nominal["rod_position"] = 50 /\ Nominal["xenon_injection"] = 0 /\ Nominal["pump_speed"] = 80
      /\ Nominal["leak_rate"] = 0 /\ Nominal["steam_valve"] = 50
  BY DEF Nominal
<1>5. TargetsFromActuators(Nominal) =
        [base EXCEPT !["reactivity"] = 0, !["coolant_flow_rate"] = 80 * Resolution,
                     !["coolant_pressure"] = @ + 0, !["core_temperature"] = @ + 0]
  BY <1>3, <1>4 DEF TargetsFromActuators
<1> HIDE DEF base
<1>6. base["coolant_pressure"] + 0 = base["coolant_pressure"] /\ base["core_temperature"] + 0 = base["core_temperature"]
  BY <1>1 DEF Metrics
<1>7. [base EXCEPT !["reactivity"] = 0, !["coolant_flow_rate"] = 80 * Resolution,
                   !["coolant_pressure"] = @ + 0, !["core_temperature"] = @ + 0] = base
  BY <1>1, <1>2, <1>6
<1> QED
  BY <1>5, <1>7 DEF base

\* At the base every coupling term is zero.
LEMMA NoCoupling == EffectiveTargets(Scaled(Base), Scaled(Base)) = Scaled(Base)
<1> DEFINE base == Scaled(Base)
<1>1. base \in [Metrics -> Int]
  BY ScaledBaseTyped
<1> HIDE DEF base
<1>2. base["reactivity"] = 0
  BY ResolutionAssumption DEF base, Scaled, Base, Metrics
<1>3. /\ base["core_temperature"] + 4 * (base["coolant_flow_rate"] - base["coolant_flow_rate"])
           + (5 * (base["reactor_power"] - base["reactor_power"])) \div 2 = base["core_temperature"]
      /\ base["reactor_power"] + 3 * base["reactivity"] = base["reactor_power"]
      /\ base["radiation_level"] + 5 * (base["containment_integrity"] - base["containment_integrity"])
           = base["radiation_level"]
      /\ base["reactivity"] - (base["core_temperature"] - base["core_temperature"]) \div 200
           = base["reactivity"]
  BY <1>1, <1>2 DEF Metrics
<1> QED
  BY <1>1, <1>3 DEF EffectiveTargets, base

\* The base is a fixed point of the integrator at every resolution.
LEMMA BaseIsFixed == Stepped(Scaled(Base), TargetsFromActuators(Nominal)) = Scaled(Base)
<1> DEFINE base == Scaled(Base)
<1>1. base \in [Metrics -> Int]
  BY ScaledBaseTyped
<1>2. ASSUME NEW m \in Metrics
      PROVE  Clamp(base[m] + Eased(base[m] - base[m], Alpha[m]),
                   Lowest[m] * Resolution, Highest[m] * Resolution) = base[m]
  <2>1. base[m] = Base[m] * Resolution
    BY DEF Scaled
  <2>2. Lowest[m] * Resolution <= Base[m] * Resolution /\ Base[m] * Resolution <= Highest[m] * Resolution
    BY TablesTyped, ScalingOrders
  <2>3. Lowest[m] * Resolution \in Int /\ Highest[m] * Resolution \in Int
    BY TablesTyped, ScalingOrders
  <2> HIDE DEF base
  <2>4. base[m] + Eased(base[m] - base[m], Alpha[m]) = base[m]
    BY <1>1, NothingToEase, TablesTyped
  <2> QED
    BY <1>1, <2>1, <2>2, <2>3, <2>4 DEF Clamp
<1>3. Stepped(base, TargetsFromActuators(Nominal)) =
        [m \in Metrics |-> Clamp(base[m] + Eased(base[m] - base[m], Alpha[m]),
                                 Lowest[m] * Resolution, Highest[m] * Resolution)]
  BY NominalTargets, NoCoupling DEF Stepped
<1> HIDE DEF base
<1>4. Stepped(base, TargetsFromActuators(Nominal)) = [m \in Metrics |-> base[m]]
  BY <1>2, <1>3
<1> QED
  BY <1>1, <1>4 DEF base

LEMMA ReadingIsFixed == Sampled(Scaled(Base), Scaled(Base)) = Scaled(Base)
<1> DEFINE base == Scaled(Base)
<1>1. base \in [Metrics -> Int]
  BY ScaledBaseTyped
<1> HIDE DEF base
<1>2. ASSUME NEW m \in Metrics, m \in DOMAIN Lag
      PROVE  base[m] + Eased(base[m] - base[m], Lag[m]) = base[m]
  <2>1. Lag[m] \in Nat
    BY <1>2 DEF Lag
  <2> QED
    BY <1>1, <2>1, NothingToEase
<1>3. Sampled(base, base) = [m \in Metrics |-> base[m]]
  BY <1>2 DEF Sampled
<1> QED
  BY <1>1, <1>3 DEF base

\* The base lies inside every band but containment's, which begins there.
LEMMA BaseLevels == {m \in Metrics : Level(Scaled(Base), m) # "normal"} = {"containment_integrity"}
<1> DEFINE base == Scaled(Base)
<1>1. /\ base["reactor_power"] = 95 * Resolution /\ base["core_temperature"] = 700 * Resolution
      /\ base["reactivity"] = 0 /\ base["coolant_flow_rate"] = 80 * Resolution
      /\ base["coolant_pressure"] = 130 * Resolution /\ base["radiation_level"] = 2 * Resolution
      /\ base["containment_integrity"] = 95 * Resolution
  BY ResolutionAssumption DEF Scaled, Base, Metrics
<1> HIDE DEF base
<1> USE ResolutionAssumption DEF Level, Danger, IsHigh, IsLow, AtOrAbove, AtOrBelow, DangerHigh, DangerLow,
                               WarningHigh, WarningLow
<1>2. Level(base, "reactor_power") = "normal" /\ Level(base, "core_temperature") = "normal"
  BY <1>1
<1>3. Level(base, "reactivity") = "normal" /\ Level(base, "coolant_flow_rate") = "normal"
  BY <1>1
<1>4. Level(base, "coolant_pressure") = "normal" /\ Level(base, "radiation_level") = "normal"
  BY <1>1
<1>5. Level(base, "containment_integrity") = "warning"
  BY <1>1
<1> QED
  <2> HIDE DEF Level
  <2> QED
    BY <1>2, <1>3, <1>4, <1>5 DEF Metrics, base

\* Inductive: without a command the levers are nominal and plant and readings
\* are at the base.
Untouched == commands = 0 => state = Scaled(Base) /\ reading = Scaled(Base) /\ lever = Nominal

\* A plant no lever has disturbed is steady and shows the alarms of its base.
THEOREM Quiet == Spec => []QuietIsSteady
<1>1. Init => Untouched
  BY DEF Init, Untouched
<1>2. TypeOK /\ Untouched /\ [Next]_vars => Untouched'
  <2> SUFFICES ASSUME TypeOK, Untouched, [Next]_vars PROVE Untouched'
    OBVIOUS
  <2>1. CASE Tick
    BY <2>1, BaseIsFixed, ReadingIsFixed DEF Tick, Untouched
  <2>2. CASE Restart
    BY <2>2 DEF Restart, Untouched, TypeOK
  <2>3. ASSUME NEW l \in Levers, NEW position \in Positions[l], SetLever(l, position)
        PROVE  Untouched'
    BY <2>3 DEF SetLever, Untouched, TypeOK
  <2>4. CASE UNCHANGED vars
    BY <2>4 DEF vars, Untouched
  <2> QED
    BY <2>1, <2>2, <2>3, <2>4 DEF Next
<1>3. Untouched => QuietIsSteady
  BY BaseLevels DEF Untouched, QuietIsSteady
<1> QED
  BY <1>1, <1>2, <1>3, TypeCorrect, PTL DEF Spec

-----------------------------------------------------------------------------
(* How far a metric moves in a tick *)

\* An eased gap is its share of the gap, rounded toward zero by less than one.
LEMMA EasedShare ==
    ASSUME NEW gap \in Nat, NEW alpha \in Nat, alpha <= 1000
    PROVE  /\ Eased(gap, alpha) \in Nat /\ Eased(gap, alpha) <= gap
           /\ 1000 * Eased(gap, alpha) <= alpha * gap
           /\ alpha * gap <= 1000 * Eased(gap, alpha) + 999
<1>1. gap * alpha \in Int /\ gap * alpha = alpha * gap
  OBVIOUS
<1>2. 0 <= alpha * gap /\ alpha * gap <= 1000 * gap
  OBVIOUS
<1>3. Eased(gap, alpha) = (gap * alpha) \div 1000
  BY DEF Eased
<1> QED
  BY <1>1, <1>2, <1>3

\* Gaps below and above are eased alike.
LEMMA EasedIsOdd ==
    ASSUME NEW gap \in Nat, NEW alpha \in Nat, alpha <= 1000
    PROVE  Eased(-gap, alpha) = -Eased(gap, alpha)
<1>1. CASE gap = 0
  BY <1>1 DEF Eased
<1>2. CASE gap # 0
  <2>1. -gap < 0 /\ -(-gap) = gap
    BY <1>2
  <2> QED
    BY <2>1 DEF Eased
<1> QED
  BY <1>1, <1>2

\* The alpha-th part, in thousandths, of the way between two values.
Share(alpha, from, to) == alpha * (to - from)

\* Where one tick takes a metric at s whose target is t.
Moved(s, t, alpha, low, high) == Clamp(s + Eased(t - s, alpha), low, high)

\* A tick moves a metric by at most alpha of its way to a ceiling that neither
\* it nor its target is above.
LEMMA RisesSlowly ==
    ASSUME NEW s \in Int, NEW t \in Int, NEW low \in Int, NEW high \in Int, NEW ceiling \in Int,
           NEW alpha \in Nat, alpha <= 1000, low <= s, s <= high, s <= ceiling, t <= ceiling
    PROVE  /\ Moved(s, t, alpha, low, high) <= ceiling
           /\ 1000 * Moved(s, t, alpha, low, high) <= 1000 * s + Share(alpha, s, ceiling)
<1> DEFINE gap == t - s
           share == alpha * (ceiling - s)
<1>1. gap \in Int /\ share \in Int /\ gap <= ceiling - s
  OBVIOUS
<1>2. 0 <= share /\ (gap >= 0 => alpha * gap <= share)
  OBVIOUS
<1> HIDE DEF gap, share
<1>3. /\ Eased(gap, alpha) \in Int
      /\ gap >= 0 => Eased(gap, alpha) <= gap /\ 1000 * Eased(gap, alpha) <= alpha * gap
      /\ gap < 0 => Eased(gap, alpha) <= 0
  <2>1. CASE gap \in Nat
    BY <2>1, EasedShare
  <2>2. CASE -gap \in Nat /\ gap < 0
    <3> DEFINE up == -gap
    <3>1. up \in Nat /\ -up = gap
      BY <1>1, <2>2
    <3> HIDE DEF up
    <3>2. Eased(up, alpha) \in Nat /\ Eased(-up, alpha) = -Eased(up, alpha)
      BY <3>1, EasedShare, EasedIsOdd
    <3> QED
      BY <2>2, <3>1, <3>2
  <2> QED
    BY <1>1, <2>1, <2>2
<1> DEFINE e == Eased(gap, alpha)
           way == alpha * gap
<1>4. way \in Int
  BY <1>1
<1>5. e \in Int /\ e <= ceiling - s /\ 1000 * e <= share
  <2>1. gap >= 0 => e <= gap /\ 1000 * e <= way
    BY <1>3
  <2>2. (gap < 0 => e <= 0) /\ e \in Int
    BY <1>3
  <2>3. gap >= 0 => way <= share
    BY <1>2
  <2> HIDE DEF e, way
  <2> QED
    BY <1>1, <1>2, <1>4, <2>1, <2>2, <2>3
<1> DEFINE v == Clamp(s + e, low, high)
<1> HIDE DEF e
<1>6. v \in Int /\ (v <= s + e \/ v <= s)
  BY <1>5 DEF Clamp
<1> HIDE DEF v
<1>7. v <= ceiling /\ 1000 * v <= 1000 * s + share
  BY <1>1, <1>2, <1>5, <1>6
<1> QED
  BY <1>7 DEF v, share, e, gap, Moved, Share

\* ... nor towards a floor that neither is below.
LEMMA FallsSlowly ==
    ASSUME NEW s \in Int, NEW t \in Int, NEW low \in Int, NEW high \in Int, NEW floor \in Int,
           NEW alpha \in Nat, alpha <= 1000, low <= s, s <= high, floor <= s, floor <= t
    PROVE  /\ floor <= Moved(s, t, alpha, low, high)
           /\ 1000 * s - Share(alpha, floor, s) <= 1000 * Moved(s, t, alpha, low, high)
<1> DEFINE gap == t - s
           share == alpha * (s - floor)
<1>1. gap \in Int /\ share \in Int /\ floor - s <= gap
  OBVIOUS
<1>2. 0 <= share /\ (gap < 0 => -share <= alpha * gap)
  OBVIOUS
<1> HIDE DEF gap, share
<1>3. /\ Eased(gap, alpha) \in Int
      /\ gap >= 0 => 0 <= Eased(gap, alpha)
      /\ gap < 0 => gap <= Eased(gap, alpha) /\ alpha * gap <= 1000 * Eased(gap, alpha)
  <2>1. CASE gap \in Nat
    BY <2>1, EasedShare
  <2>2. CASE -gap \in Nat /\ gap < 0
    <3> DEFINE up == -gap
    <3>1. up \in Nat /\ -up = gap
      BY <1>1, <2>2
    <3>4. alpha * gap = -(alpha * up)
      BY <1>1
    <3> HIDE DEF up
    <3>2. /\ Eased(up, alpha) \in Nat /\ Eased(up, alpha) <= up
          /\ 1000 * Eased(up, alpha) <= alpha * up
      BY <3>1, EasedShare
    <3>3. Eased(-up, alpha) = -Eased(up, alpha)
      BY <3>1, EasedIsOdd
    <3> QED
      BY <2>2, <3>1, <3>2, <3>3, <3>4
  <2> QED
    BY <1>1, <2>1, <2>2
<1> DEFINE e == Eased(gap, alpha)
           way == alpha * gap
<1>4. way \in Int
  BY <1>1
<1>5. e \in Int /\ floor - s <= e /\ -share <= 1000 * e
  <2>1. gap < 0 => gap <= e /\ way <= 1000 * e
    BY <1>3
  <2>2. (gap >= 0 => 0 <= e) /\ e \in Int
    BY <1>3
  <2>3. gap < 0 => -share <= way
    BY <1>2
  <2> HIDE DEF e, way
  <2> QED
    BY <1>1, <1>2, <1>4, <2>1, <2>2, <2>3
<1> DEFINE v == Clamp(s + e, low, high)
<1> HIDE DEF e
<1>6. v \in Int /\ (s + e <= v \/ s <= v)
  BY <1>5 DEF Clamp
<1> HIDE DEF v
<1>7. floor <= v /\ 1000 * s - share <= 1000 * v
  BY <1>1, <1>2, <1>5, <1>6
<1> QED
  BY <1>7 DEF v, share, e, gap, Moved, Share

-----------------------------------------------------------------------------
(* Where the levers and the couplings can drive the plant *)

\* Inductive: nothing moves containment and radiation, the reactivity's clamp
\* holds the power within 15 points of its base, and with that no lever drives
\* the core below 582 degrees.
Coupled ==
    /\ state["containment_integrity"] = 95 * Resolution
    /\ state["radiation_level"] = 2 * Resolution
    /\ 80 * Resolution <= state["reactor_power"] /\ state["reactor_power"] <= 110 * Resolution
    /\ 582 * Resolution <= state["core_temperature"]

\* Inductive: the readings are the truth but for the core's, whose thermowell
\* is off by at most a fifth of the way the core may still have to go.
Following ==
    /\ \A m \in Metrics \ {"core_temperature"} : reading[m] = state[m]
    /\ 1000 * (state["core_temperature"] - reading["core_temperature"])
           <= 183 * (1208 * Resolution - state["core_temperature"]) + 6000
    /\ 1000 * (reading["core_temperature"] - state["core_temperature"])
           <= 183 * (state["core_temperature"] - 582 * Resolution) + 6000

\* The lever's percents, in units.
LEMMA Percents ==
    ASSUME NEW x \in Int, NEW low \in Nat, NEW high \in Nat, -low <= x, x <= high
    PROVE  Resolution * x \in Int /\ -(low * Resolution) <= Resolution * x /\ Resolution * x <= high * Resolution
BY ResolutionAssumption

\* What the levers alone may ask for.
LEMMA LeverTargets ==
    ASSUME NEW l \in [Levers -> 0..100]
    PROVE  LET t == TargetsFromActuators(l) IN
           /\ t \in [Metrics -> Int]
           /\ t["reactor_power"] = 95 * Resolution
           /\ t["radiation_level"] = 2 * Resolution
           /\ t["containment_integrity"] = 95 * Resolution
           /\ 700 * Resolution <= t["core_temperature"] /\ t["core_temperature"] <= 850 * Resolution
           /\ t["reactivity"] <= 5 * Resolution
           /\ -20 * Resolution <= t["coolant_flow_rate"] /\ t["coolant_flow_rate"] <= 100 * Resolution
           /\ 60 * Resolution <= t["coolant_pressure"] /\ t["coolant_pressure"] <= 200 * Resolution
<1> DEFINE t == TargetsFromActuators(l)
           rod == l["rod_position"]
           pump == l["pump_speed"]
           valve == l["steam_valve"]
           leak == l["leak_rate"]
           xenon == l["xenon_injection"]
           base == Scaled(Base)
           a == Resolution * (10 * (50 - rod) - 3 * xenon)
           b == Resolution * (10 * pump - 2 * leak)
           c == Resolution * 14 * (50 - valve)
           d == Resolution * 15 * leak
<1>1. /\ rod \in 0..100 /\ pump \in 0..100 /\ valve \in 0..100 /\ leak \in 0..100 /\ xenon \in 0..100
      /\ Resolution \in Nat
  BY ResolutionAssumption DEF Levers
<1>2. base \in [Metrics -> Int]
  BY ScaledBaseTyped
<1>3. t = [base EXCEPT !["reactivity"] = a \div 100, !["coolant_flow_rate"] = b \div 10,
                       !["coolant_pressure"] = @ + c \div 10, !["core_temperature"] = @ + d \div 10]
  BY DEF TargetsFromActuators
<1>4. /\ base["reactor_power"] = 95 * Resolution /\ base["core_temperature"] = 700 * Resolution
      /\ base["coolant_pressure"] = 130 * Resolution /\ base["radiation_level"] = 2 * Resolution
      /\ base["containment_integrity"] = 95 * Resolution
  BY DEF Scaled, Base, Metrics
<1>5. t \in [Metrics -> Int]
  BY TargetsTyped
<1> HIDE DEF base, rod, pump, valve, leak, xenon
<1>6. a \in Int /\ a <= 500 * Resolution
  <2> DEFINE y == 10 * (50 - rod) - 3 * xenon
  <2>1. y \in Int /\ -800 <= y /\ y <= 500
    BY <1>1
  <2>2. a = Resolution * y
    OBVIOUS
  <2> HIDE DEF a, y
  <2>3. Resolution * y \in Int /\ -(800 * Resolution) <= Resolution * y /\ Resolution * y <= 500 * Resolution
    BY <2>1, Percents
  <2> QED
    BY <2>2, <2>3
<1>7. b \in Int /\ -(200 * Resolution) <= b /\ b <= 1000 * Resolution
  <2> DEFINE y == 10 * pump - 2 * leak
  <2>1. y \in Int /\ -200 <= y /\ y <= 1000
    BY <1>1
  <2>2. b = Resolution * y
    OBVIOUS
  <2> HIDE DEF b, y
  <2>3. Resolution * y \in Int /\ -(200 * Resolution) <= Resolution * y /\ Resolution * y <= 1000 * Resolution
    BY <2>1, Percents
  <2> QED
    BY <2>2, <2>3
<1>8. c \in Int /\ -(700 * Resolution) <= c /\ c <= 700 * Resolution
  <2> DEFINE y == 14 * (50 - valve)
  <2>1. y \in Int /\ -700 <= y /\ y <= 700
    BY <1>1
  <2>2. c = Resolution * y
    BY <1>1
  <2> HIDE DEF c, y
  <2>3. Resolution * y \in Int /\ -(700 * Resolution) <= Resolution * y /\ Resolution * y <= 700 * Resolution
    BY <2>1, Percents
  <2> QED
    BY <2>2, <2>3
<1>9. d \in Int /\ 0 <= d /\ d <= 1500 * Resolution
  <2> DEFINE y == 15 * leak
  <2>1. y \in Int /\ 0 <= y /\ y <= 1500
    BY <1>1
  <2>2. d = Resolution * y
    BY <1>1
  <2> HIDE DEF d, y
  <2>3. Resolution * y \in Int /\ -(0 * Resolution) <= Resolution * y /\ Resolution * y <= 1500 * Resolution
    BY <2>1, Percents
  <2> QED
    BY <1>1, <2>2, <2>3
<1> HIDE DEF a, b, c, d, t
<1>10. /\ a \div 100 \in Int /\ a \div 100 <= 5 * Resolution
       /\ b \div 10 \in Int /\ -20 * Resolution <= b \div 10 /\ b \div 10 <= 100 * Resolution
       /\ c \div 10 \in Int /\ -70 * Resolution <= c \div 10 /\ c \div 10 <= 70 * Resolution
       /\ d \div 10 \in Int /\ 0 <= d \div 10 /\ d \div 10 <= 150 * Resolution
  BY <1>1, <1>6, <1>7, <1>8, <1>9
<1>11. /\ t["reactor_power"] = base["reactor_power"] /\ t["radiation_level"] = base["radiation_level"]
       /\ t["containment_integrity"] = base["containment_integrity"]
       /\ t["core_temperature"] = base["core_temperature"] + d \div 10
       /\ t["reactivity"] = a \div 100 /\ t["coolant_flow_rate"] = b \div 10
       /\ t["coolant_pressure"] = base["coolant_pressure"] + c \div 10
  BY <1>2, <1>3 DEF Metrics
<1>12. /\ t \in [Metrics -> Int]
       /\ t["reactor_power"] = 95 * Resolution
       /\ t["radiation_level"] = 2 * Resolution
       /\ t["containment_integrity"] = 95 * Resolution
       /\ 700 * Resolution <= t["core_temperature"] /\ t["core_temperature"] <= 850 * Resolution
       /\ t["reactivity"] <= 5 * Resolution
       /\ -20 * Resolution <= t["coolant_flow_rate"] /\ t["coolant_flow_rate"] <= 100 * Resolution
       /\ 60 * Resolution <= t["coolant_pressure"] /\ t["coolant_pressure"] <= 200 * Resolution
  BY <1>1, <1>4, <1>5, <1>10, <1>11
<1> QED
  BY <1>12 DEF t

\* What the couplings make of it.
LEMMA CoupledTargets ==
    ASSUME TypeOK, Coupled
    PROVE  LET eff == EffectiveTargets(state, TargetsFromActuators(lever)) IN
           /\ eff \in [Metrics -> Int]
           /\ 80 * Resolution <= eff["reactor_power"] /\ eff["reactor_power"] <= 110 * Resolution
           /\ 582 * Resolution <= eff["core_temperature"] /\ eff["core_temperature"] <= 1208 * Resolution
           /\ eff["reactivity"] <= 6 * Resolution + 1
           /\ -(20 * Resolution) <= eff["coolant_flow_rate"]
           /\ 60 * Resolution <= eff["coolant_pressure"] /\ eff["coolant_pressure"] <= 200 * Resolution
           /\ eff["radiation_level"] = 2 * Resolution
           /\ eff["containment_integrity"] = 95 * Resolution
<1> DEFINE t == TargetsFromActuators(lever)
           base == Scaled(Base)
           eff == EffectiveTargets(state, t)
<1>1. lever \in [Levers -> 0..100]
  BY DEF TypeOK
<1>2. /\ t \in [Metrics -> Int]
      /\ t["reactor_power"] = 95 * Resolution
      /\ t["radiation_level"] = 2 * Resolution
      /\ t["containment_integrity"] = 95 * Resolution
      /\ 700 * Resolution <= t["core_temperature"] /\ t["core_temperature"] <= 850 * Resolution
      /\ t["reactivity"] <= 5 * Resolution
      /\ -20 * Resolution <= t["coolant_flow_rate"]
      /\ 60 * Resolution <= t["coolant_pressure"] /\ t["coolant_pressure"] <= 200 * Resolution
  <2> HIDE DEF t
  <2> QED
    BY <1>1, LeverTargets DEF t
<1>3. /\ base["reactor_power"] = 95 * Resolution /\ base["core_temperature"] = 700 * Resolution
      /\ base["coolant_flow_rate"] = 80 * Resolution /\ base["containment_integrity"] = 95 * Resolution
  BY DEF Scaled, Base, Metrics
<1>4. /\ state \in [Metrics -> Int]
      /\ 0 <= state["coolant_flow_rate"] /\ state["coolant_flow_rate"] <= 100 * Resolution
      /\ -(5 * Resolution) <= state["reactivity"] /\ state["reactivity"] <= 5 * Resolution
  BY ResolutionAssumption DEF TypeOK, Metrics, Lowest, Highest
<1>5. eff \in [Metrics -> Int]
  BY <1>2, <1>4, EffectiveTyped
<1>6. Resolution \in Nat
  BY ResolutionAssumption
<1> HIDE DEF t
<1>7. /\ eff["core_temperature"] = t["core_temperature"] + 4 * (base["coolant_flow_rate"] - state["coolant_flow_rate"])
                                 + (5 * (state["reactor_power"] - base["reactor_power"])) \div 2
      /\ eff["reactor_power"] = t["reactor_power"] + 3 * state["reactivity"]
      /\ eff["radiation_level"] = t["radiation_level"] + 5 * (base["containment_integrity"] - state["containment_integrity"])
      /\ eff["reactivity"] = t["reactivity"] - (state["core_temperature"] - base["core_temperature"]) \div 200
      /\ eff["coolant_flow_rate"] = t["coolant_flow_rate"] /\ eff["coolant_pressure"] = t["coolant_pressure"]
      /\ eff["containment_integrity"] = t["containment_integrity"]
  BY <1>2 DEF EffectiveTargets, Metrics
<1> HIDE DEF eff, base
<1>8. state["reactor_power"] \in Int /\ state["core_temperature"] \in Int /\ t["core_temperature"] \in Int
      /\ t["reactivity"] \in Int /\ state["coolant_flow_rate"] \in Int /\ state["reactivity"] \in Int
  BY <1>2, <1>4 DEF Metrics
<1>9. 582 * Resolution <= eff["core_temperature"] /\ eff["core_temperature"] <= 1208 * Resolution
  <2> DEFINE push == (5 * (state["reactor_power"] - base["reactor_power"])) \div 2
  <2>1. push \in Int /\ -(75 * Resolution) <= 2 * push + 1 /\ 2 * push <= 75 * Resolution
    BY <1>3, <1>6, <1>8 DEF Coupled
  <2>2. eff["core_temperature"] = t["core_temperature"] + 4 * (80 * Resolution - state["coolant_flow_rate"]) + push
    BY <1>3, <1>7
  <2>3. 1 <= Resolution
    BY ResolutionAssumption
  <2> HIDE DEF push
  <2> QED
    BY <1>2, <1>4, <1>6, <1>8, <2>1, <2>2, <2>3
<1>10. 80 * Resolution <= eff["reactor_power"] /\ eff["reactor_power"] <= 110 * Resolution
  BY <1>2, <1>4, <1>6, <1>7, <1>8
<1>11. eff["reactivity"] <= 6 * Resolution + 1
  <2> DEFINE damp == (state["core_temperature"] - base["core_temperature"]) \div 200
  <2>1. damp \in Int /\ -(118 * Resolution) < 200 * damp + 200
    BY <1>3, <1>6, <1>8 DEF Coupled
  <2>2. eff["reactivity"] = t["reactivity"] - damp
    BY <1>7
  <2> HIDE DEF damp
  <2> QED
    BY <1>2, <1>6, <1>8, <2>1, <2>2
<1>12. eff["radiation_level"] = 2 * Resolution
  BY <1>2, <1>3, <1>6, <1>7 DEF Coupled
<1>13. eff["containment_integrity"] = 95 * Resolution /\ -(20 * Resolution) <= eff["coolant_flow_rate"]
       /\ 60 * Resolution <= eff["coolant_pressure"] /\ eff["coolant_pressure"] <= 200 * Resolution
  BY <1>2, <1>7
<1> QED
  BY <1>5, <1>9, <1>10, <1>11, <1>12, <1>13 DEF eff, t

\* How far one tick can take each metric.
LEMMA TickMoves ==
    ASSUME TypeOK, Coupled, Tick
    PROVE  /\ 80 * Resolution <= state'["reactor_power"] /\ state'["reactor_power"] <= 110 * Resolution
           /\ 1000 * state'["reactor_power"]
                <= 1000 * state["reactor_power"] + 118 * (110 * Resolution - state["reactor_power"])
           /\ 582 * Resolution <= state'["core_temperature"]
           /\ 1000 * state'["core_temperature"]
                <= 1000 * state["core_temperature"] + 33 * (1208 * Resolution - state["core_temperature"])
           /\ 1000 * state["core_temperature"] - 33 * (state["core_temperature"] - 582 * Resolution)
                <= 1000 * state'["core_temperature"]
           /\ 1000 * state'["reactivity"]
                <= 1000 * state["reactivity"] + 181 * ((6 * Resolution + 1) - state["reactivity"])
           /\ 1000 * state["coolant_flow_rate"] - 95 * (state["coolant_flow_rate"] - (-(20 * Resolution)))
                <= 1000 * state'["coolant_flow_rate"]
           /\ 1000 * state'["coolant_pressure"]
                <= 1000 * state["coolant_pressure"] + 80 * (200 * Resolution - state["coolant_pressure"])
           /\ state["coolant_pressure"] >= 60 * Resolution =>
                1000 * state["coolant_pressure"] - 80 * (state["coolant_pressure"] - 60 * Resolution)
                  <= 1000 * state'["coolant_pressure"]
           /\ state'["radiation_level"] = 2 * Resolution
           /\ state'["containment_integrity"] = 95 * Resolution
<1> DEFINE eff == EffectiveTargets(state, TargetsFromActuators(lever))
<1>1. /\ eff \in [Metrics -> Int]
      /\ 80 * Resolution <= eff["reactor_power"] /\ eff["reactor_power"] <= 110 * Resolution
      /\ 582 * Resolution <= eff["core_temperature"] /\ eff["core_temperature"] <= 1208 * Resolution
      /\ eff["reactivity"] <= 6 * Resolution + 1
      /\ -(20 * Resolution) <= eff["coolant_flow_rate"]
      /\ 60 * Resolution <= eff["coolant_pressure"] /\ eff["coolant_pressure"] <= 200 * Resolution
      /\ eff["radiation_level"] = 2 * Resolution
      /\ eff["containment_integrity"] = 95 * Resolution
  BY CoupledTargets
<1>2. \A m \in Metrics : state'[m] = Clamp(state[m] + Eased(eff[m] - state[m], Alpha[m]),
                                           Lowest[m] * Resolution, Highest[m] * Resolution)
  BY DEF Tick, Stepped
<1> HIDE DEF eff
<1>3. Resolution \in Nat
  BY ResolutionAssumption
<1>17. state' \in [Metrics -> Int]
  BY TargetsTyped, SteppedInRange DEF Tick, TypeOK
<1>4. \A m \in Metrics :
        /\ state[m] \in Int /\ eff[m] \in Int /\ Lowest[m] * Resolution \in Int /\ Highest[m] * Resolution \in Int
        /\ Lowest[m] * Resolution <= state[m] /\ state[m] <= Highest[m] * Resolution
  <2>1. state \in [Metrics -> Int]
    BY DEF TypeOK
  <2>2. \A m \in Metrics : Lowest[m] \in Int /\ Highest[m] \in Int
    BY TablesTyped
  <2> QED
    BY <1>1, <1>3, <2>1, <2>2 DEF TypeOK
<1>5. ASSUME NEW m \in Metrics, NEW ceiling \in Int, state[m] <= ceiling, eff[m] <= ceiling, Alpha[m] <= 1000
      PROVE  /\ state'[m] <= ceiling
             /\ 1000 * state'[m] <= 1000 * state[m] + Alpha[m] * (ceiling - state[m])
  <2> DEFINE s == state[m]
             t == eff[m]
             low == Lowest[m] * Resolution
             high == Highest[m] * Resolution
             alpha == Alpha[m]
  <2>1. /\ s \in Int /\ t \in Int /\ low \in Int /\ high \in Int /\ alpha \in Nat /\ alpha <= 1000
        /\ low <= s /\ s <= high /\ s <= ceiling /\ t <= ceiling
    BY <1>4, <1>5, TablesTyped
  <2>2. state'[m] = Moved(s, t, alpha, low, high)
    BY <1>2 DEF Moved
  <2> HIDE DEF s, t, low, high, alpha
  <2>3. Moved(s, t, alpha, low, high) <= ceiling
    BY <2>1, RisesSlowly
  <2>4. 1000 * Moved(s, t, alpha, low, high) <= 1000 * s + Share(alpha, s, ceiling)
    BY <2>1, RisesSlowly
  <2> QED
    BY <2>2, <2>3, <2>4 DEF s, alpha, Share
<1>6. ASSUME NEW m \in Metrics, NEW floor \in Int, floor <= state[m], floor <= eff[m], Alpha[m] <= 1000
      PROVE  /\ floor <= state'[m]
             /\ 1000 * state[m] - Alpha[m] * (state[m] - floor) <= 1000 * state'[m]
  <2> DEFINE s == state[m]
             t == eff[m]
             low == Lowest[m] * Resolution
             high == Highest[m] * Resolution
             alpha == Alpha[m]
  <2>1. /\ s \in Int /\ t \in Int /\ low \in Int /\ high \in Int /\ alpha \in Nat /\ alpha <= 1000
        /\ low <= s /\ s <= high /\ floor <= s /\ floor <= t
    BY <1>4, <1>6, TablesTyped
  <2>2. state'[m] = Moved(s, t, alpha, low, high)
    BY <1>2 DEF Moved
  <2> HIDE DEF s, t, low, high, alpha
  <2>3. /\ floor <= Moved(s, t, alpha, low, high)
        /\ 1000 * s - Share(alpha, floor, s) <= 1000 * Moved(s, t, alpha, low, high)
    BY <2>1, FallsSlowly
  <2> QED
    BY <2>2, <2>3 DEF s, alpha, Share
<1>7. /\ Alpha["reactor_power"] = 118 /\ Alpha["core_temperature"] = 33 /\ Alpha["reactivity"] = 181
      /\ Alpha["coolant_flow_rate"] = 95 /\ Alpha["coolant_pressure"] = 80
      /\ Alpha["radiation_level"] = 64 /\ Alpha["containment_integrity"] = 22
  BY DEF Alpha
<1>8. /\ state["core_temperature"] <= 1208 * Resolution /\ state["reactivity"] <= 6 * Resolution + 1
      /\ -(20 * Resolution) <= state["coolant_flow_rate"] /\ state["coolant_pressure"] <= 200 * Resolution
  BY <1>3, <1>4 DEF Metrics, Lowest, Highest
<1>9. /\ "reactor_power" \in Metrics /\ "core_temperature" \in Metrics /\ "reactivity" \in Metrics
      /\ "coolant_flow_rate" \in Metrics /\ "coolant_pressure" \in Metrics
      /\ "radiation_level" \in Metrics /\ "containment_integrity" \in Metrics
  BY DEF Metrics
<1>10. /\ 80 * Resolution <= state'["reactor_power"] /\ state'["reactor_power"] <= 110 * Resolution
       /\ 1000 * state'["reactor_power"]
            <= 1000 * state["reactor_power"] + 118 * (110 * Resolution - state["reactor_power"])
  <2>1. 80 * Resolution \in Int /\ 110 * Resolution \in Int
    BY <1>3
  <2> QED
    BY <1>1, <1>5, <1>6, <1>7, <1>9, <2>1 DEF Coupled
<1>11. /\ 582 * Resolution <= state'["core_temperature"]
       /\ 1000 * state'["core_temperature"]
            <= 1000 * state["core_temperature"] + 33 * (1208 * Resolution - state["core_temperature"])
       /\ 1000 * state["core_temperature"] - 33 * (state["core_temperature"] - 582 * Resolution)
            <= 1000 * state'["core_temperature"]
  <2>1. 582 * Resolution \in Int /\ 1208 * Resolution \in Int
    BY <1>3
  <2> QED
    BY <1>1, <1>5, <1>6, <1>7, <1>8, <1>9, <2>1 DEF Coupled
<1>12. 1000 * state'["reactivity"]
         <= 1000 * state["reactivity"] + 181 * ((6 * Resolution + 1) - state["reactivity"])
  <2>1. 6 * Resolution + 1 \in Int
    BY <1>3
  <2> QED
    BY <1>1, <1>5, <1>7, <1>8, <1>9, <2>1
<1>13. 1000 * state["coolant_flow_rate"] - 95 * (state["coolant_flow_rate"] - (-(20 * Resolution)))
         <= 1000 * state'["coolant_flow_rate"]
  <2>1. -(20 * Resolution) \in Int
    BY <1>3
  <2> QED
    BY <1>1, <1>6, <1>7, <1>8, <1>9, <2>1
<1>14. /\ 1000 * state'["coolant_pressure"]
            <= 1000 * state["coolant_pressure"] + 80 * (200 * Resolution - state["coolant_pressure"])
       /\ state["coolant_pressure"] >= 60 * Resolution =>
            1000 * state["coolant_pressure"] - 80 * (state["coolant_pressure"] - 60 * Resolution)
              <= 1000 * state'["coolant_pressure"]
  <2>1. 60 * Resolution \in Int /\ 200 * Resolution \in Int
    BY <1>3
  <2> QED
    BY <1>1, <1>5, <1>6, <1>7, <1>8, <1>9, <2>1
<1>15. state'["radiation_level"] = 2 * Resolution
  <2>1. 2 * Resolution \in Int /\ state'["radiation_level"] \in Int
    BY <1>3, <1>9, <1>17
  <2>2. state'["radiation_level"] <= 2 * Resolution /\ 2 * Resolution <= state'["radiation_level"]
    BY <1>1, <1>5, <1>6, <1>7, <1>9, <2>1 DEF Coupled
  <2> QED
    BY <2>1, <2>2
<1>16. state'["containment_integrity"] = 95 * Resolution
  <2>1. 95 * Resolution \in Int /\ state'["containment_integrity"] \in Int
    BY <1>3, <1>9, <1>17
  <2>2. state'["containment_integrity"] <= 95 * Resolution /\ 95 * Resolution <= state'["containment_integrity"]
    BY <1>1, <1>5, <1>6, <1>7, <1>9, <2>1 DEF Coupled
  <2> QED
    BY <2>1, <2>2
<1> QED
  BY <1>10, <1>11, <1>12, <1>13, <1>14, <1>15, <1>16

\* No lever movement or restart takes the plant out of that region.
LEMMA CoupledInvariant == Spec => []Coupled
<1>1. Init => Coupled
  <2> SUFFICES ASSUME Init PROVE Coupled
    OBVIOUS
  <2>1. /\ state["containment_integrity"] = 95 * Resolution /\ state["radiation_level"] = 2 * Resolution
        /\ state["reactor_power"] = 95 * Resolution /\ state["core_temperature"] = 700 * Resolution
    BY DEF Init, Scaled, Base, Metrics
  <2> QED
    BY <2>1, ResolutionAssumption DEF Coupled
<1>2. TypeOK /\ Coupled /\ [Next]_vars => Coupled'
  <2> SUFFICES ASSUME TypeOK, Coupled, [Next]_vars PROVE Coupled'
    OBVIOUS
  <2>1. CASE Tick
    BY <2>1, TickMoves DEF Coupled
  <2>2. CASE Restart
    BY <2>2 DEF Restart, Coupled
  <2>3. ASSUME NEW l \in Levers, NEW position \in Positions[l], SetLever(l, position)
        PROVE  Coupled'
    BY <2>3 DEF SetLever, Coupled
  <2>4. CASE UNCHANGED vars
    BY <2>4 DEF vars, Coupled
  <2> QED
    BY <2>1, <2>2, <2>3, <2>4 DEF Next
<1> QED
  BY <1>1, <1>2, TypeCorrect, PTL DEF Spec

\* Radiation and containment are moved by nothing but each other: no lever can
\* bring about an excursion of either, and their codes are never reported.
THEOREM OutOfReach ==
    Spec => [](Excursions(state) \cap {"radiation_level", "containment_integrity"} = {})
<1>1. Coupled => Excursions(state) \cap {"radiation_level", "containment_integrity"} = {}
  <2> SUFFICES ASSUME Coupled
               PROVE  "radiation_level" \notin Excursions(state) /\ "containment_integrity" \notin Excursions(state)
    OBVIOUS
  <2>1. ~IsHigh(state, "radiation_level") /\ ~IsLow(state, "radiation_level")
    BY ResolutionAssumption DEF Coupled, IsHigh, IsLow, AtOrAbove, AtOrBelow, DangerHigh, DangerLow
  <2>2. ~IsHigh(state, "containment_integrity") /\ ~IsLow(state, "containment_integrity")
    BY ResolutionAssumption DEF Coupled, IsHigh, IsLow, AtOrAbove, AtOrBelow, DangerHigh, DangerLow
  <2> QED
    BY <2>1, <2>2 DEF Excursions
<1> QED
  BY <1>1, CoupledInvariant, PTL

-----------------------------------------------------------------------------
(* The thermowell *)

\* The core's reading after a tick that leaves the core at c.
Lagged(r, c) == r + Eased(c - r, 181)

\* A lagging sensor closes 181 thousandths of its gap and never passes the truth.
LEMMA LagCloses ==
    ASSUME NEW r \in Int, NEW c \in Int
    PROVE  /\ Lagged(r, c) \in Int
           /\ r <= c => /\ r <= Lagged(r, c) /\ Lagged(r, c) <= c
                        /\ 1000 * (c - Lagged(r, c)) <= 819 * (c - r) + 999
                        /\ 1000 * (Lagged(r, c) - r) <= 181 * (c - r)
           /\ c < r => /\ c <= Lagged(r, c) /\ Lagged(r, c) <= r
                       /\ 1000 * (Lagged(r, c) - c) <= 819 * (r - c) + 999
<1>1. CASE r <= c
  <2> DEFINE gap == c - r
             e == Eased(gap, 181)
  <2>1. gap \in Nat
    BY <1>1
  <2> HIDE DEF gap
  <2>2. e \in Nat /\ e <= gap /\ 1000 * e <= 181 * gap /\ 181 * gap <= 1000 * e + 999
    BY <2>1, EasedShare
  <2> HIDE DEF e
  <2>3. gap = c - r
    BY DEF gap
  <2>4. /\ r + e \in Int /\ r + e <= c /\ 1000 * (c - (r + e)) <= 819 * (c - r) + 999 /\ r <= r + e
        /\ 1000 * ((r + e) - r) <= 181 * (c - r)
    BY <1>1, <2>1, <2>2, <2>3
  <2>5. e = Eased(c - r, 181)
    BY DEF e, gap
  <2> QED
    BY <1>1, <2>4, <2>5 DEF Lagged
<1>2. CASE c < r
  <2> DEFINE gap == r - c
             e == Eased(gap, 181)
  <2>1. gap \in Nat
    BY <1>2
  <2> HIDE DEF gap
  <2>2. e \in Nat /\ e <= gap /\ 1000 * e <= 181 * gap /\ 181 * gap <= 1000 * e + 999
    BY <2>1, EasedShare
  <2>6. Eased(-gap, 181) = -e
    BY <2>1, EasedIsOdd
  <2> HIDE DEF e
  <2>3. gap = r - c
    BY DEF gap
  <2>5. Eased(c - r, 181) = -e
    <3>1. c - r = -gap
      BY <2>3
    <3> QED
      BY <2>6, <3>1
  <2>4. /\ r + (-e) \in Int /\ c <= r + (-e) /\ 1000 * ((r + (-e)) - c) <= 819 * (r - c) + 999 /\ r + (-e) <= r
    BY <1>2, <2>1, <2>2, <2>3
  <2> QED
    BY <1>2, <2>4, <2>5 DEF Lagged
<1> QED
  BY <1>1, <1>2

\* The core's reading after a tick.
LEMMA CoreReading ==
    ASSUME TypeOK, Tick
    PROVE  reading'["core_temperature"] =
             Lagged(reading["core_temperature"], state'["core_temperature"])
BY DEF Tick, Sampled, Lag, Metrics, Lagged

\* Radiation's filter has nothing to close, every other sensor has no filter.
LEMMA OtherReadings ==
    ASSUME TypeOK, Coupled, Following, Tick
    PROVE  \A m \in Metrics \ {"core_temperature"} : reading'[m] = state'[m]
<1>1. ASSUME NEW m \in Metrics, m \notin {"core_temperature", "radiation_level"}
      PROVE  reading'[m] = state'[m]
  BY <1>1 DEF Tick, Sampled, Lag
<1>2. reading'["radiation_level"] = state'["radiation_level"]
  <2>1. reading'["radiation_level"] =
          reading["radiation_level"] + Eased(state'["radiation_level"] - reading["radiation_level"], 283)
    BY DEF Tick, Sampled, Lag, Metrics
  <2>2. reading["radiation_level"] = 2 * Resolution /\ state'["radiation_level"] = 2 * Resolution
    BY TickMoves DEF Coupled, Following, Metrics
  <2>3. 2 * Resolution \in Int /\ 2 * Resolution - 2 * Resolution = 0
    BY ResolutionAssumption
  <2>4. Eased(0, 283) = 0
    BY NothingToEase
  <2> QED
    BY <2>1, <2>2, <2>3, <2>4
<1> QED
  BY <1>1, <1>2

\* The readings keep following, at every resolution.
LEMMA FollowingInvariant == Spec => []Following
<1>1. Init => Following
  <2> SUFFICES ASSUME Init PROVE Following
    OBVIOUS
  <2>1. state["core_temperature"] = 700 * Resolution /\ reading = state
    BY DEF Init, Scaled, Base, Metrics
  <2> QED
    BY <2>1, ResolutionAssumption DEF Following
<1>2. TypeOK /\ Coupled /\ Following /\ [Next]_vars => Following'
  <2> SUFFICES ASSUME TypeOK, Coupled, Following, [Next]_vars PROVE Following'
    OBVIOUS
  <2>1. CASE Tick
    <3> DEFINE c == state["core_temperature"]
               d == state'["core_temperature"]
               r == reading["core_temperature"]
               q == reading'["core_temperature"]
    <3>1. c \in Int /\ d \in Int /\ r \in Int /\ Resolution \in Nat /\ d <= 1200 * Resolution
      <4>1. /\ state' \in [Metrics -> Int]
            /\ \A m \in Metrics : state'[m] <= Highest[m] * Resolution
        BY <2>1, TargetsTyped, SteppedInRange DEF Tick, TypeOK
      <4> QED
        BY <4>1, ResolutionAssumption DEF TypeOK, Metrics, Highest
    <3>2. /\ 582 * Resolution <= d
          /\ 1000 * d <= 1000 * c + 33 * (1208 * Resolution - c)
          /\ 1000 * c - 33 * (c - 582 * Resolution) <= 1000 * d
      BY <2>1, TickMoves
    <3>3. /\ 1000 * (c - r) <= 183 * (1208 * Resolution - c) + 6000
          /\ 1000 * (r - c) <= 183 * (c - 582 * Resolution) + 6000
          /\ 582 * Resolution <= c /\ c <= 1200 * Resolution
      BY ResolutionAssumption DEF Following, Coupled, TypeOK, Metrics, Highest
    <3>4. q = Lagged(r, d)
      BY <2>1, CoreReading
    <3>5. \A m \in Metrics \ {"core_temperature"} : reading'[m] = state'[m]
      BY <2>1, OtherReadings
    <3> HIDE DEF c, d, r, q
    <3>6. /\ q \in Int
          /\ r <= d => q <= d /\ 1000 * (d - q) <= 819 * (d - r) + 999
          /\ d < r => d <= q /\ 1000 * (q - d) <= 819 * (r - d) + 999
      <4>1. Lagged(r, d) \in Int
        BY <3>1, LagCloses
      <4>2. r <= d => Lagged(r, d) <= d
        BY <3>1, LagCloses
      <4>3. r <= d => 1000 * (d - Lagged(r, d)) <= 819 * (d - r) + 999
        BY <3>1, LagCloses
      <4>4. d < r => d <= Lagged(r, d)
        BY <3>1, LagCloses
      <4>5. d < r => 1000 * (Lagged(r, d) - d) <= 819 * (r - d) + 999
        BY <3>1, LagCloses
      <4> QED
        BY <3>4, <4>1, <4>2, <4>3, <4>4, <4>5
    <3>7. CASE r <= d
      BY <3>1, <3>2, <3>3, <3>5, <3>6, <3>7 DEF Following, c, d, r, q
    <3>8. CASE d < r
      BY <3>1, <3>2, <3>3, <3>5, <3>6, <3>8 DEF Following, c, d, r, q
    <3> QED
      BY <3>1, <3>7, <3>8
  <2>2. CASE Restart
    BY <2>2 DEF Restart, Following
  <2>3. ASSUME NEW l \in Levers, NEW position \in Positions[l], SetLever(l, position)
        PROVE  Following'
    BY <2>3 DEF SetLever, Following
  <2>4. CASE UNCHANGED vars
    BY <2>4 DEF vars, Following
  <2> QED
    BY <2>1, <2>2, <2>3, <2>4 DEF Next
<1> QED
  BY <1>1, <1>2, TypeCorrect, CoupledInvariant, PTL DEF Spec

-----------------------------------------------------------------------------
(* What the alarms can show *)

\* The level of a value, whatever the other metrics are at.
LevelAt(v, m) == Level([x \in {m} |-> v], m)

LEMMA LevelIsLocal ==
    ASSUME NEW s, NEW m
    PROVE  Level(s, m) = LevelAt(s[m], m)
BY DEF LevelAt, Level, Danger, IsHigh, IsLow, AtOrAbove, AtOrBelow

\* The bands of each metric, as classify cuts them.
LEMMA Bands ==
    ASSUME NEW v \in Int
    PROVE  /\ LevelAt(v, "reactor_power") = "danger" <=> v >= 110 * Resolution
           /\ LevelAt(v, "reactor_power") = "normal" <=> v < 100 * Resolution
           /\ LevelAt(v, "core_temperature") = "danger" <=> v >= 1000 * Resolution
           /\ LevelAt(v, "core_temperature") = "normal" <=> v < 900 * Resolution
           /\ LevelAt(v, "reactivity") = "danger" <=> v >= 3 * Resolution
           /\ LevelAt(v, "reactivity") = "normal" <=> v < Resolution
           /\ LevelAt(v, "coolant_flow_rate") = "danger" <=> v <= 50 * Resolution
           /\ LevelAt(v, "coolant_flow_rate") = "normal" <=> v > 70 * Resolution
           /\ LevelAt(v, "coolant_pressure") = "danger" <=> v >= 180 * Resolution \/ v <= 100 * Resolution
           /\ LevelAt(v, "coolant_pressure") = "normal" <=> v < 160 * Resolution /\ v > 120 * Resolution
           /\ LevelAt(v, "radiation_level") = "danger" <=> v >= 50 * Resolution
           /\ LevelAt(v, "radiation_level") = "normal" <=> v < 5 * Resolution
           /\ LevelAt(v, "containment_integrity") = "danger" <=> v <= 85 * Resolution
           /\ LevelAt(v, "containment_integrity") = "normal" <=> v > 95 * Resolution
<1> USE ResolutionAssumption DEF LevelAt, Level, Danger, IsHigh, IsLow, AtOrAbove, AtOrBelow,
                               DangerHigh, DangerLow, WarningHigh, WarningLow
<1>1. /\ LevelAt(v, "reactor_power") = "danger" <=> v >= 110 * Resolution
      /\ LevelAt(v, "reactor_power") = "normal" <=> v < 100 * Resolution
  OBVIOUS
<1>2. /\ LevelAt(v, "core_temperature") = "danger" <=> v >= 1000 * Resolution
      /\ LevelAt(v, "core_temperature") = "normal" <=> v < 900 * Resolution
  OBVIOUS
<1>3. /\ LevelAt(v, "reactivity") = "danger" <=> v >= 3 * Resolution
      /\ LevelAt(v, "reactivity") = "normal" <=> v < Resolution
  OBVIOUS
<1>4. /\ LevelAt(v, "coolant_flow_rate") = "danger" <=> v <= 50 * Resolution
      /\ LevelAt(v, "coolant_flow_rate") = "normal" <=> v > 70 * Resolution
  OBVIOUS
<1>5. /\ LevelAt(v, "coolant_pressure") = "danger" <=> v >= 180 * Resolution \/ v <= 100 * Resolution
      /\ LevelAt(v, "coolant_pressure") = "normal" <=> v < 160 * Resolution /\ v > 120 * Resolution
  OBVIOUS
<1>6. /\ LevelAt(v, "radiation_level") = "danger" <=> v >= 50 * Resolution
      /\ LevelAt(v, "radiation_level") = "normal" <=> v < 5 * Resolution
  OBVIOUS
<1>7. /\ LevelAt(v, "containment_integrity") = "danger" <=> v <= 85 * Resolution
      /\ LevelAt(v, "containment_integrity") = "normal" <=> v > 95 * Resolution
  OBVIOUS
<1> HIDE DEF LevelAt
<1> QED
  BY <1>1, <1>2, <1>3, <1>4, <1>5, <1>6, <1>7

\* The values noise makes of a reading lie within the margin, to the unit.
AroundReading(v, r, m) ==
    /\ v \in Int
    /\ 100 * (v - r) <= NoiseMargin[m] * Resolution
    /\ 100 * (r - v) <= NoiseMargin[m] * Resolution + 99

ShownOf(r, m) == {Level([r EXCEPT ![m] = @ + (e * Resolution) \div 100], m) :
                     e \in {-NoiseMargin[m], 0, NoiseMargin[m]}}

LEMMA ShownIsAround ==
    ASSUME NEW m \in Metrics, NEW r \in [Metrics -> Int], NEW level \in ShownOf(r, m)
    PROVE  \E v \in Int : AroundReading(v, r[m], m) /\ level = LevelAt(v, m)
<1>1. PICK e \in {-NoiseMargin[m], 0, NoiseMargin[m]} :
        level = Level([r EXCEPT ![m] = @ + (e * Resolution) \div 100], m)
  BY DEF ShownOf
<1> DEFINE w == (e * Resolution) \div 100
           v == r[m] + w
<1>2. level = LevelAt(v, m)
  <2>1. [r EXCEPT ![m] = r[m] + w][m] = v
    OBVIOUS
  <2> QED
    BY <1>1, <2>1, LevelIsLocal
<1>3. NoiseMargin[m] \in Nat
  BY DEF NoiseMargin, Metrics
<1>4. e \in Int /\ Resolution \in Nat /\ e * Resolution \in Int
  BY <1>3, ResolutionAssumption
<1>5. w \in Int /\ 100 * w <= e * Resolution /\ e * Resolution <= 100 * w + 99
  BY <1>4
<1>6. -(NoiseMargin[m] * Resolution) <= e * Resolution /\ e * Resolution <= NoiseMargin[m] * Resolution
      /\ NoiseMargin[m] * Resolution \in Int
  BY <1>3, <1>4
<1>7. r[m] \in Int
  OBVIOUS
<1> DEFINE span == NoiseMargin[m] * Resolution
           push == e * Resolution
<1>8. /\ w \in Int /\ 100 * w <= push /\ push <= 100 * w + 99 /\ -span <= push /\ push <= span
      /\ span \in Int /\ push \in Int
  BY <1>4, <1>5, <1>6
<1> HIDE DEF w, span, push
<1>9. v \in Int /\ 100 * (v - r[m]) <= span /\ 100 * (r[m] - v) <= span + 99
  BY <1>7, <1>8
<1> HIDE DEF v
<1> QED
  BY <1>2, <1>9 DEF AroundReading, span

\* The margins, in units.
LEMMA Margins ==
    ASSUME NEW v, NEW r, NEW m
    PROVE  /\ AroundReading(v, r, "reactor_power") =>
                100 * (v - r) <= 250 * Resolution /\ 100 * (r - v) <= 250 * Resolution + 99
           /\ AroundReading(v, r, "core_temperature") =>
                100 * (v - r) <= 3050 * Resolution /\ 100 * (r - v) <= 3050 * Resolution + 99
           /\ AroundReading(v, r, "reactivity") =>
                100 * (v - r) <= 10 * Resolution /\ 100 * (r - v) <= 10 * Resolution + 99
           /\ AroundReading(v, r, "coolant_flow_rate") =>
                100 * (v - r) <= 200 * Resolution /\ 100 * (r - v) <= 200 * Resolution + 99
           /\ AroundReading(v, r, "coolant_pressure") =>
                100 * (v - r) <= 325 * Resolution /\ 100 * (r - v) <= 325 * Resolution + 99
           /\ AroundReading(v, r, "radiation_level") =>
                100 * (v - r) <= 36 * Resolution /\ 100 * (r - v) <= 36 * Resolution + 99
           /\ AroundReading(v, r, "containment_integrity") =>
                100 * (v - r) <= 100 * Resolution /\ 100 * (r - v) <= 100 * Resolution + 99
BY DEF AroundReading, NoiseMargin

\* What is shown of a metric is a level of a value around its reading, on both
\* sides of a step.
LEMMA ShownAround ==
    ASSUME NEW m \in Metrics
    PROVE  /\ reading \in [Metrics -> Int] => \A level \in Shown(m) :
                \E v \in Int : AroundReading(v, reading[m], m) /\ level = LevelAt(v, m)
           /\ reading' \in [Metrics -> Int] => \A level \in Shown(m)' :
                \E v \in Int : AroundReading(v, reading'[m], m) /\ level = LevelAt(v, m)
<1>1. Shown(m) = ShownOf(reading, m) /\ Shown(m)' = ShownOf(reading', m)
  BY DEF Shown, ShownOf
<1> QED
  BY <1>1, ShownIsAround

\* Whatever the levers do, what an alarm shows is never two levels from the
\* truth, even with the noise at its margin.
THEOREM AlarmsAreClose == Spec => []AlarmNeverTwoLevelsOff
<1>1. TypeOK /\ Coupled /\ Following => AlarmNeverTwoLevelsOff
  <2> SUFFICES ASSUME TypeOK, Coupled, Following, NEW m \in Metrics, NEW level \in Shown(m),
                      \/ Level(state, m) = "danger" /\ level = "normal"
                      \/ Level(state, m) = "normal" /\ level = "danger"
               PROVE  FALSE
    BY DEF AlarmNeverTwoLevelsOff
  <2> DEFINE s == state[m]
             r == reading[m]
  <2>1. state \in [Metrics -> Int] /\ reading \in [Metrics -> Int] /\ Resolution \in Nat /\ 1 <= Resolution
    BY ResolutionAssumption DEF TypeOK
  <2>2. PICK v \in Int : AroundReading(v, r, m) /\ level = LevelAt(v, m)
    BY <2>1, ShownAround
  <2>3. \/ LevelAt(s, m) = "danger" /\ LevelAt(v, m) = "normal"
        \/ LevelAt(s, m) = "normal" /\ LevelAt(v, m) = "danger"
    BY <2>2, LevelIsLocal
  <2>4. s \in Int /\ r \in Int /\ v \in Int
    BY <2>1
  <2>5. m # "core_temperature" => r = s
    BY DEF Following
  <2> HIDE DEF s, r
  <2>6. CASE m = "reactor_power"
    <3>1. \/ s >= 110 * Resolution /\ v < 100 * Resolution
          \/ s < 100 * Resolution /\ v >= 110 * Resolution
      BY <2>3, <2>4, <2>6, Bands
    <3>2. 100 * (v - r) <= 250 * Resolution /\ 100 * (r - v) <= 250 * Resolution + 99
      BY <2>2, <2>6, Margins
    <3> QED
      BY <2>1, <2>4, <2>5, <2>6, <3>1, <3>2
  <2>7. CASE m = "core_temperature"
    <3>1. \/ s >= 1000 * Resolution /\ v < 900 * Resolution
          \/ s < 900 * Resolution /\ v >= 1000 * Resolution
      BY <2>3, <2>4, <2>7, Bands
    <3>2. 100 * (v - r) <= 3050 * Resolution /\ 100 * (r - v) <= 3050 * Resolution + 99
      BY <2>2, <2>7, Margins
    <3>3. /\ 1000 * (s - r) <= 183 * (1208 * Resolution - s) + 6000
          /\ 1000 * (r - s) <= 183 * (s - 582 * Resolution) + 6000
      BY <2>7 DEF Following, s, r
    <3> QED
      BY <2>1, <2>4, <3>1, <3>2, <3>3
  <2>8. CASE m = "reactivity"
    <3>1. \/ s >= 3 * Resolution /\ v < Resolution
          \/ s < Resolution /\ v >= 3 * Resolution
      BY <2>3, <2>4, <2>8, Bands
    <3>2. 100 * (v - r) <= 10 * Resolution /\ 100 * (r - v) <= 10 * Resolution + 99
      BY <2>2, <2>8, Margins
    <3> QED
      BY <2>1, <2>4, <2>5, <2>8, <3>1, <3>2
  <2>9. CASE m = "coolant_flow_rate"
    <3>1. \/ s <= 50 * Resolution /\ v > 70 * Resolution
          \/ s > 70 * Resolution /\ v <= 50 * Resolution
      BY <2>3, <2>4, <2>9, Bands
    <3>2. 100 * (v - r) <= 200 * Resolution /\ 100 * (r - v) <= 200 * Resolution + 99
      BY <2>2, <2>9, Margins
    <3> QED
      BY <2>1, <2>4, <2>5, <2>9, <3>1, <3>2
  <2>10. CASE m = "coolant_pressure"
    <3>1. \/ (s >= 180 * Resolution \/ s <= 100 * Resolution) /\ v < 160 * Resolution /\ v > 120 * Resolution
          \/ s < 160 * Resolution /\ s > 120 * Resolution /\ (v >= 180 * Resolution \/ v <= 100 * Resolution)
      BY <2>3, <2>4, <2>10, Bands
    <3>2. 100 * (v - r) <= 325 * Resolution /\ 100 * (r - v) <= 325 * Resolution + 99
      BY <2>2, <2>10, Margins
    <3> QED
      BY <2>1, <2>4, <2>5, <2>10, <3>1, <3>2
  <2>11. CASE m = "radiation_level"
    <3>1. \/ s >= 50 * Resolution
          \/ s < 5 * Resolution /\ v >= 50 * Resolution
      BY <2>3, <2>4, <2>11, Bands
    <3>2. 100 * (v - r) <= 36 * Resolution /\ 100 * (r - v) <= 36 * Resolution + 99
      BY <2>2, <2>11, Margins
    <3>3. s = 2 * Resolution
      BY <2>11 DEF Coupled, s
    <3> QED
      BY <2>1, <2>4, <2>5, <2>11, <3>1, <3>2, <3>3
  <2>12. CASE m = "containment_integrity"
    <3>1. s <= 85 * Resolution \/ s > 95 * Resolution
      BY <2>3, <2>4, <2>12, Bands
    <3>2. s = 95 * Resolution
      BY <2>12 DEF Coupled, s
    <3> QED
      BY <2>1, <3>1, <3>2
  <2> QED
    BY <2>6, <2>7, <2>8, <2>9, <2>10, <2>11, <2>12 DEF Metrics
<1> QED
  BY <1>1, TypeCorrect, CoupledInvariant, FollowingInvariant, PTL

\* The bands are wider than any metric can move, and any reading follow, in a
\* tick: no alarm goes from NORMAL to DANGER at once.
THEOREM DangerIsWarnedOf == Spec => WarnsFirst
<1>1. TypeOK /\ TypeOK' /\ Coupled /\ Coupled' /\ Following /\ Following' =>
        [Tick => \A m \in Metrics : ~("normal" \in Shown(m) /\ "danger" \in Shown(m)')]_vars
  <2> SUFFICES ASSUME TypeOK, TypeOK', Coupled, Coupled', Following, Following', Tick,
                      NEW m \in Metrics, "normal" \in Shown(m), "danger" \in Shown(m)'
               PROVE  FALSE
    OBVIOUS
  <2> DEFINE s == state[m]
             r == reading[m]
             t == state'[m]
             q == reading'[m]
  <2>1. /\ state \in [Metrics -> Int] /\ reading \in [Metrics -> Int]
        /\ state' \in [Metrics -> Int] /\ reading' \in [Metrics -> Int]
        /\ Resolution \in Nat /\ 1 <= Resolution
    BY ResolutionAssumption DEF TypeOK
  <2>2. PICK v \in Int : AroundReading(v, r, m) /\ LevelAt(v, m) = "normal"
    <3>1. \E v \in Int : AroundReading(v, r, m) /\ "normal" = LevelAt(v, m)
      BY <2>1, ShownAround
    <3> QED
      BY <3>1
  <2>3. PICK w \in Int : AroundReading(w, q, m) /\ LevelAt(w, m) = "danger"
    <3>1. \E w \in Int : AroundReading(w, q, m) /\ "danger" = LevelAt(w, m)
      BY <2>1, ShownAround
    <3> QED
      BY <3>1
  <2>4. s \in Int /\ r \in Int /\ t \in Int /\ q \in Int
    BY <2>1
  <2>5. m # "core_temperature" => r = s /\ q = t
    BY DEF Following
  <2> HIDE DEF s, r, t, q
  <2>6. CASE m = "reactor_power"
    <3>1. v < 100 * Resolution /\ w >= 110 * Resolution
      BY <2>2, <2>3, <2>6, Bands
    <3>2. 100 * (r - v) <= 250 * Resolution + 99 /\ 100 * (w - q) <= 250 * Resolution
      BY <2>2, <2>3, <2>6, Margins
    <3>3. 1000 * t <= 1000 * s + 118 * (110 * Resolution - s)
      BY <2>6, TickMoves DEF s, t
    <3> QED
      BY <2>1, <2>4, <2>5, <2>6, <3>1, <3>2, <3>3
  <2>7. CASE m = "core_temperature"
    <3>1. v < 900 * Resolution /\ w >= 1000 * Resolution
      BY <2>2, <2>3, <2>7, Bands
    <3>2. 100 * (r - v) <= 3050 * Resolution + 99 /\ 100 * (w - q) <= 3050 * Resolution
      BY <2>2, <2>3, <2>7, Margins
    <3>3. /\ 1000 * (s - r) <= 183 * (1208 * Resolution - s) + 6000
          /\ 582 * Resolution <= s
      BY <2>7 DEF Following, Coupled, s, r
    <3>4. 1000 * t <= 1000 * s + 33 * (1208 * Resolution - s)
      BY <2>7, TickMoves DEF s, t
    <3>5. q = Lagged(r, t)
      BY <2>7, CoreReading DEF r, q, t
    <3>6. r <= t => 1000 * (Lagged(r, t) - r) <= 181 * (t - r)
      BY <2>4, LagCloses
    <3>7. t < r => Lagged(r, t) <= r
      BY <2>4, LagCloses
    <3>8. CASE r <= t
      BY <2>1, <2>4, <3>1, <3>2, <3>3, <3>4, <3>5, <3>6, <3>8
    <3>9. CASE t < r
      BY <2>1, <2>4, <3>1, <3>2, <3>5, <3>7, <3>9
    <3> QED
      BY <2>4, <3>8, <3>9
  <2>8. CASE m = "reactivity"
    <3>1. v < Resolution /\ w >= 3 * Resolution
      BY <2>2, <2>3, <2>8, Bands
    <3>2. 100 * (r - v) <= 10 * Resolution + 99 /\ 100 * (w - q) <= 10 * Resolution
      BY <2>2, <2>3, <2>8, Margins
    <3>3. 1000 * t <= 1000 * s + 181 * ((6 * Resolution + 1) - s)
      BY <2>8, TickMoves DEF s, t
    <3> QED
      BY <2>1, <2>4, <2>5, <2>8, <3>1, <3>2, <3>3
  <2>9. CASE m = "coolant_flow_rate"
    <3>1. v > 70 * Resolution /\ w <= 50 * Resolution
      BY <2>2, <2>3, <2>9, Bands
    <3>2. 100 * (v - r) <= 200 * Resolution /\ 100 * (q - w) <= 200 * Resolution + 99
      BY <2>2, <2>3, <2>9, Margins
    <3>3. 1000 * s - 95 * (s - (-(20 * Resolution))) <= 1000 * t
      BY <2>9, TickMoves DEF s, t
    <3> QED
      BY <2>1, <2>4, <2>5, <2>9, <3>1, <3>2, <3>3
  <2>10. CASE m = "coolant_pressure"
    <3>1. v < 160 * Resolution /\ v > 120 * Resolution /\ (w >= 180 * Resolution \/ w <= 100 * Resolution)
      BY <2>2, <2>3, <2>10, Bands
    <3>2. /\ 100 * (v - r) <= 325 * Resolution /\ 100 * (r - v) <= 325 * Resolution + 99
          /\ 100 * (w - q) <= 325 * Resolution /\ 100 * (q - w) <= 325 * Resolution + 99
      BY <2>2, <2>3, <2>10, Margins
    <3>3. /\ 1000 * t <= 1000 * s + 80 * (200 * Resolution - s)
          /\ s >= 60 * Resolution => 1000 * s - 80 * (s - 60 * Resolution) <= 1000 * t
      BY <2>10, TickMoves DEF s, t
    <3> QED
      BY <2>1, <2>4, <2>5, <2>10, <3>1, <3>2, <3>3
  <2>11. CASE m = "radiation_level"
    <3>1. w >= 50 * Resolution
      BY <2>3, <2>11, Bands
    <3>2. 100 * (w - q) <= 36 * Resolution
      BY <2>3, <2>11, Margins
    <3>3. t = 2 * Resolution
      BY <2>11 DEF Coupled, t
    <3> QED
      BY <2>1, <2>4, <2>5, <2>11, <3>1, <3>2, <3>3
  <2>12. CASE m = "containment_integrity"
    <3>1. w <= 85 * Resolution
      BY <2>3, <2>12, Bands
    <3>2. 100 * (q - w) <= 100 * Resolution + 99
      BY <2>3, <2>12, Margins
    <3>3. t = 95 * Resolution
      BY <2>12 DEF Coupled, t
    <3> QED
      BY <2>1, <2>4, <2>5, <2>12, <3>1, <3>2, <3>3
  <2> QED
    BY <2>6, <2>7, <2>8, <2>9, <2>10, <2>11, <2>12 DEF Metrics
<1> QED
  BY <1>1, TypeCorrect, CoupledInvariant, FollowingInvariant, PTL DEF WarnsFirst
-----------------------------------------------------------------------------
(* A stopped pump *)

FlowInDanger == "coolant_flow_rate" \in Excursions(state)

\* With the pump stopped no lever leaves the flow anything to ease up to.
LEMMA StoppedTarget ==
    ASSUME TypeOK, lever["pump_speed"] = 0
    PROVE  LET t == EffectiveTargets(state, TargetsFromActuators(lever))["coolant_flow_rate"]
           IN  t \in Int /\ t <= 0
<1> DEFINE t == TargetsFromActuators(lever)
           leak == lever["leak_rate"]
           b == (Resolution * (10 * 0 - 2 * leak)) \div 10
<1>1. leak \in Int /\ 0 <= leak /\ Resolution \in Nat
  BY ResolutionAssumption DEF TypeOK, Levers
<1>2. t["coolant_flow_rate"] = b
  <2>1. Scaled(Base) \in [Metrics -> Int]
    BY ScaledBaseTyped
  <2> QED
    BY <2>1 DEF TargetsFromActuators, Metrics
<1>3. EffectiveTargets(state, t)["coolant_flow_rate"] = t["coolant_flow_rate"]
  <2>1. t \in [Metrics -> Int]
    BY TargetsTyped DEF TypeOK
  <2> HIDE DEF t
  <2> QED
    BY <2>1 DEF EffectiveTargets, Metrics
<1> HIDE DEF t, leak
<1>4. b \in Int /\ b <= 0
  <2> DEFINE y == Resolution * leak
             x == Resolution * (10 * 0 - 2 * leak)
  <2>1. y \in Nat
    BY <1>1
  <2>2. x = -(2 * y)
    BY <1>1
  <2> HIDE DEF y, x
  <2>3. x \div 10 \in Int /\ x \div 10 <= 0
    BY <2>1, <2>2
  <2> QED
    BY <2>3 DEF x
<1> QED
  BY <1>2, <1>3, <1>4 DEF t

\* The steps that StoppedPumpIsExcursion rests on: while the pump is stopped a
\* tick takes at least 4 points from a flow above its DANGER rail, and none lifts
\* it back over the rail, at any resolution and under any use of the other levers.
THEOREM StoppedPumpDrains ==
    Spec => [][Tick /\ lever["pump_speed"] = 0 =>
                  \/ FlowInDanger'
                  \/ ~FlowInDanger /\ state'["coolant_flow_rate"] <= state["coolant_flow_rate"] - 4 * Resolution]_vars
<1>1. ASSUME TypeOK, TypeOK', Tick, lever["pump_speed"] = 0
      PROVE  \/ FlowInDanger'
             \/ ~FlowInDanger /\ state'["coolant_flow_rate"] <= state["coolant_flow_rate"] - 4 * Resolution
  <2> DEFINE s == state["coolant_flow_rate"]
             v == state'["coolant_flow_rate"]
             t == EffectiveTargets(state, TargetsFromActuators(lever))["coolant_flow_rate"]
             high == 100 * Resolution
  <2>1. /\ s \in Int /\ v \in Int /\ 0 <= s /\ s <= high
        /\ Resolution \in Nat /\ 1 <= Resolution /\ high \in Int
    BY <1>1, ResolutionAssumption DEF TypeOK, Metrics, Lowest, Highest
  <2>2. t \in Int /\ t <= 0
    BY <1>1, StoppedTarget
  <2>3. v = Clamp(s + Eased(t - s, 95), 0, high)
    <3>1. /\ Alpha["coolant_flow_rate"] = 95 /\ Lowest["coolant_flow_rate"] * Resolution = 0
          /\ Highest["coolant_flow_rate"] * Resolution = high /\ "coolant_flow_rate" \in Metrics
      BY ResolutionAssumption DEF Alpha, Lowest, Highest, Metrics
    <3>2. v = Clamp(s + Eased(t - s, Alpha["coolant_flow_rate"]),
                    Lowest["coolant_flow_rate"] * Resolution, Highest["coolant_flow_rate"] * Resolution)
      BY <1>1, <3>1 DEF Tick, Stepped
    <3> HIDE DEF high
    <3> QED
      BY <3>1, <3>2
  <2>4. FlowInDanger <=> s <= 50 * Resolution
    BY DEF FlowInDanger, Excursions, IsHigh, IsLow, AtOrAbove, AtOrBelow, DangerHigh, DangerLow, CodeHigh, CodeLow,
           Metrics
  <2>5. FlowInDanger' <=> v <= 50 * Resolution
    BY DEF FlowInDanger, Excursions, IsHigh, IsLow, AtOrAbove, AtOrBelow, DangerHigh, DangerLow, CodeHigh, CodeLow,
           Metrics
  <2> DEFINE gap == s - t
             e == Eased(gap, 95)
  <2>6. gap \in Nat /\ s <= gap
    BY <2>1, <2>2
  <2>7. v = Clamp(s - e, 0, high)
    <3>1. t - s = -gap /\ s + (-e) = s - e
      <4>1. e \in Int
        BY <2>6, EasedTyped
      <4> HIDE DEF e
      <4> QED
        BY <2>1, <2>2, <4>1
    <3>2. Eased(t - s, 95) = Eased(-gap, 95)
      BY <3>1
    <3> HIDE DEF gap, t
    <3>3. Eased(-gap, 95) = -e
      BY <2>6, EasedIsOdd
    <3> QED
      BY <2>3, <3>1, <3>2, <3>3
  <2> HIDE DEF gap
  <2>8. e \in Nat /\ 95 * gap <= 1000 * e + 999
    BY <2>6, EasedShare
  <2> HIDE DEF e, s, t
  <2>9. v <= s - e \/ v = 0
    BY <2>1, <2>7, <2>8 DEF Clamp
  <2> HIDE DEF v
  <2>10. CASE s <= 50 * Resolution
    <3>1. v <= 50 * Resolution
      BY <2>1, <2>8, <2>9, <2>10
    <3> QED
      BY <2>5, <3>1
  <2>11. CASE s > 50 * Resolution
    <3>1. v <= s - 4 * Resolution
      BY <2>1, <2>6, <2>8, <2>9, <2>11
    <3>2. ~FlowInDanger
      BY <2>1, <2>4, <2>11
    <3> QED
      BY <3>1, <3>2 DEF s, v
  <2> QED
    BY <2>1, <2>10, <2>11
<1>2. TypeOK /\ TypeOK' =>
        [Tick /\ lever["pump_speed"] = 0 =>
            \/ FlowInDanger'
            \/ ~FlowInDanger /\ state'["coolant_flow_rate"] <= state["coolant_flow_rate"] - 4 * Resolution]_vars
  BY <1>1
<1> QED
  BY <1>2, TypeCorrect, PTL
=============================================================================
