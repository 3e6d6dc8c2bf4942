---------------------------- MODULE ActuatorRegister ----------------------------
(***************************************************************************)
(* What the actuator bus promises, without broker or connections: every    *)
(* actuator is a register that the API writes and the plant follows.       *)
(* Setpoints of an actuator are numbered in the order they are sent; 0 is  *)
(* its nominal position.  The plant may skip setpoints, but it never goes  *)
(* back to an older one and never shows one nobody sent.                   *)
(***************************************************************************)
EXTENDS Naturals

CONSTANT Actuators

VARIABLES
    sent,       \* the newest setpoint sent for each actuator
    position    \* the setpoint the plant holds

TypeOK == sent \in [Actuators -> Nat] /\ position \in [Actuators -> Nat]

Init ==
    /\ sent = [a \in Actuators |-> 0]
    /\ position = [a \in Actuators |-> 0]

Set(a) == sent' = [sent EXCEPT ![a] = @ + 1] /\ UNCHANGED position

Follow(a) ==
    /\ \E n \in position[a]..sent[a] : position' = [position EXCEPT ![a] = n]
    /\ UNCHANGED sent

\* A new simulator process begins at the nominal positions.
Reboot == position' = [a \in Actuators |-> 0] /\ UNCHANGED sent

Next == (\E a \in Actuators : Set(a) \/ Follow(a)) \/ Reboot

Spec == Init /\ [][Next]_<<sent, position>>
=============================================================================
