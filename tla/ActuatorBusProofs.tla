--------------------------- MODULE ActuatorBusProofs ---------------------------
(***************************************************************************)
(* Proofs about ActuatorBus for any actuators, requests and bounds.        *)
(***************************************************************************)
EXTENDS ActuatorBus, TLAPS

\* The broker has the subscription of a simulator that is consuming.
Subscription == subscribed => sim = "consuming"

LEMMA MessageTyped ==
    ASSUME NEW a \in Actuators, NEW n \in Nat
    PROVE  [actuator |-> a, setpoint |-> n] \in Message
BY DEF Message

\* Type correctness.
THEOREM TypeCorrect == Spec => []TypeOK
<1>a. Idle \in RequestState /\ Nominal \in [Actuators -> Nat]
  BY DEF RequestState, Nominal
<1>1. Init => TypeOK
  <2> SUFFICES ASSUME Init PROVE TypeOK
    OBVIOUS
  <2>1. request \in [Requests -> RequestState] /\ attempt \in 1..ConnectAttempts
    BY <1>a, AttemptsAssumption DEF Init
  <2>2. wire \in Seq(Message) /\ inbox \in Seq(Message)
    BY DEF Init
  <2>3. redeliver \subseteq Actuators /\ subscribed \in BOOLEAN
    BY DEF Init
  <2>4. sent \in [Actuators -> Nat] /\ retained \in [Actuators -> Nat] /\ actuatorState \in [Actuators -> Nat]
    BY <1>a DEF Init
  <2>5. /\ api \in {"booting", "serving"} /\ apiClient \in {"none", "live", "dead"} /\ broker \in {"up", "down"}
        /\ sim \in {"connecting", "connected", "consuming", "exited"} /\ outages \in Nat /\ restarts \in Nat
    BY DEF Init
  <2> QED
    BY <2>1, <2>2, <2>3, <2>4, <2>5 DEF TypeOK
<1>2. TypeOK /\ [Next]_vars => TypeOK'
  <2> SUFFICES ASSUME TypeOK, [Next]_vars PROVE TypeOK'
    OBVIOUS
  <2> USE DEF TypeOK, apiVars, brokerVars, simVars, bounds
  <2> USE AttemptsAssumption
  <2>1. CASE ApiConnect
    BY <2>1 DEF ApiConnect
  <2>2. CASE ApiConnectFails
    BY <2>2 DEF ApiConnectFails
  <2>3. ASSUME NEW q \in Requests, NEW a \in Actuators, ReceivePut(q, a) PROVE TypeOK'
    BY <2>3 DEF ReceivePut, RequestState
  <2>4. ASSUME NEW q \in Requests, Admit(q) PROVE TypeOK'
    <3>1. request[q] \in [phase : {"received", "admitted"}, actuator : Actuators]
      BY <2>4 DEF Admit, RequestState, Idle
    <3>2. [request[q] EXCEPT !.phase = "admitted"] \in RequestState
      BY <3>1 DEF RequestState
    <3> QED
      BY <2>4, <3>2 DEF Admit, RequestState
  <2>5. ASSUME NEW q \in Requests, SetActuator(q) PROVE TypeOK'
    <3>1. request[q].actuator \in Actuators
      BY <2>5 DEF SetActuator, RequestState, Idle
    <3>2. Append(wire, [actuator |-> request[q].actuator, setpoint |-> sent[request[q].actuator] + 1])
            \in Seq(Message)
      BY <3>1, MessageTyped
    <3> QED
      <4>1. request' \in [Requests -> RequestState]
        BY <2>5, <1>a DEF SetActuator
      <4>2. sent' \in [Actuators -> Nat] /\ wire' \in Seq(Message)
        <5>1. CASE apiClient = "live"
          <6>1. /\ sent' = [sent EXCEPT ![request[q].actuator] = @ + 1]
                /\ wire' = Append(wire, [actuator |-> request[q].actuator, setpoint |-> sent[request[q].actuator] + 1])
            BY <2>5, <5>1 DEF SetActuator
          <6> QED
            BY <3>1, <3>2, <6>1
        <5>2. CASE apiClient # "live"
          BY <2>5, <5>2 DEF SetActuator
        <5> QED
          BY <5>1, <5>2
      <4> QED
        BY <2>5, <4>1, <4>2 DEF SetActuator
  <2>6. CASE ApiRestart
    <3>a. wire' = wire \/ wire' = <<>>
      BY <2>6 DEF ApiRestart
    <3>b. request' = [q \in Requests |-> Idle] /\ attempt' = 1
      BY <2>6 DEF ApiRestart
    <3>c. wire' \in Seq(Message)
      <4>1. CASE wire' = wire
        BY <4>1
      <4>2. CASE wire' = <<>>
        BY <4>2
      <4> QED
        BY <3>a, <4>1, <4>2
    <3>d. request' \in [Requests -> RequestState]
      BY <3>b, <1>a
    <3>1. request' \in [Requests -> RequestState] /\ wire' \in Seq(Message) /\ attempt' \in 1..ConnectAttempts
      BY <3>b, <3>c, <3>d
    <3>2. api' \in {"booting", "serving"} /\ apiClient' \in {"none", "live", "dead"} /\ restarts' \in Nat
      BY <2>6 DEF ApiRestart
    <3>3. /\ UNCHANGED <<sent, broker, retained, subscribed, redeliver, inbox, sim, actuatorState, outages>>
      BY <2>6 DEF ApiRestart
    <3> QED
      BY <3>1, <3>2, <3>3
  <2>7. CASE Route
    <3>1. Head(wire) \in Message /\ Tail(wire) \in Seq(Message)
      BY <2>7 DEF Route
    <3>2. Head(wire).actuator \in Actuators /\ Head(wire).setpoint \in Nat
      BY <3>1 DEF Message
    <3> QED
      BY <2>7, <3>1, <3>2 DEF Route
  <2>8. ASSUME NEW a \in Actuators, Redeliver(a) PROVE TypeOK'
    BY <2>8, MessageTyped DEF Redeliver
  <2>9. CASE DropApi
    BY <2>9 DEF DropApi, Outage
  <2>10. CASE DropSimulator
    <3>a. redeliver' = {} /\ subscribed' = FALSE /\ outages' = outages + 1
      BY <2>10 DEF DropSimulator, Outage
    <3>b. redeliver' \subseteq Actuators
      BY <3>a
    <3>c. subscribed' \in BOOLEAN
      BY <3>a
    <3>1. redeliver' \subseteq Actuators /\ subscribed' \in BOOLEAN /\ outages' \in Nat
      BY <3>a, <3>b, <3>c
    <3>2. restarts' = restarts /\ UNCHANGED <<api, attempt, apiClient, request, sent, wire, broker, retained, inbox, sim, actuatorState>>
      BY <2>10 DEF DropSimulator, Outage
    <3> QED
      BY <3>1, <3>2
  <2>11. CASE BrokerStops
    <3>1. retained' \in [Actuators -> Nat] /\ wire' \in Seq(Message) /\ outages' \in Nat
      BY <2>11, <1>a DEF BrokerStops, Outage
    <3>2. apiClient' \in {"none", "live", "dead"} /\ subscribed' \in BOOLEAN /\ redeliver' \subseteq Actuators
      BY <2>11 DEF BrokerStops
    <3> QED
      BY <2>11, <3>1, <3>2 DEF BrokerStops, Outage
  <2>12. CASE BrokerStarts
    BY <2>12 DEF BrokerStarts
  <2>13. CASE SimConnect
    BY <2>13 DEF SimConnect
  <2>14. CASE SimSubscribe
    BY <2>14 DEF SimSubscribe
  <2>15. CASE SimSubscribeFails
    BY <2>15 DEF SimSubscribeFails, Outage
  <2>16. CASE Consume
    <3>1. Head(inbox) \in Message /\ Tail(inbox) \in Seq(Message)
      BY <2>16 DEF Consume
    <3>2. Head(inbox).actuator \in Actuators /\ Head(inbox).setpoint \in Nat
      BY <3>1 DEF Message
    <3> QED
      BY <2>16, <3>1, <3>2 DEF Consume
  <2>17. CASE SimLosesConnection
    BY <2>17 DEF SimLosesConnection
  <2>18. CASE SimRestart
    <3>1. actuatorState' \in [Actuators -> Nat] /\ inbox' \in Seq(Message) /\ restarts' \in Nat
      BY <2>18, <1>a DEF SimRestart
    <3>2. subscribed' \in BOOLEAN /\ redeliver' \subseteq Actuators
      BY <2>18 DEF SimRestart
    <3> QED
      BY <2>18, <3>1, <3>2 DEF SimRestart
  <2>19. CASE UNCHANGED vars
    BY <2>19 DEF vars
  <2> QED
    BY <2>1, <2>2, <2>3, <2>4, <2>5, <2>6, <2>7, <2>8, <2>9, <2>10, <2>11, <2>12, <2>13, <2>14,
       <2>15, <2>16, <2>17, <2>18, <2>19 DEF Next, ApiStep, Delivery, SimStep
<1> QED
  BY <1>1, <1>2, PTL DEF Spec

-----------------------------------------------------------------------------
\* A message for another actuator, put behind the inbox, changes nothing for a.
LEMMA AppendKeeps ==
    ASSUME TypeOK, NEW m \in Message, NEW a \in Actuators, m.actuator # a,
           inbox' = Append(inbox, m), retained'[a] = retained[a], actuatorState' = actuatorState
    PROVE  /\ NewestInInbox(a) => NewestInInbox(a)'
           /\ HoldsRetained(a) => HoldsRetained(a)'
<1>1. /\ Len(inbox') = Len(inbox) + 1 /\ Len(inbox) \in Nat
      /\ \A i \in 1..Len(inbox) : inbox'[i] = inbox[i]
      /\ inbox'[Len(inbox) + 1] = m
  BY DEF TypeOK
<1>2. ASSUME NewestInInbox(a) PROVE NewestInInbox(a)'
  <2>1. PICK i \in 1..Len(inbox) :
          /\ inbox[i] = [actuator |-> a, setpoint |-> retained[a]]
          /\ \A j \in 1..Len(inbox) : j > i => inbox[j].actuator # a
    BY <1>2 DEF NewestInInbox
  <2>2. i \in 1..Len(inbox') /\ inbox'[i] = [actuator |-> a, setpoint |-> retained'[a]]
    BY <1>1, <2>1
  <2>3. \A j \in 1..Len(inbox') : j > i => inbox'[j].actuator # a
    BY <1>1, <2>1
  <2> QED
    BY <2>2, <2>3 DEF NewestInInbox
<1>3. ASSUME HoldsRetained(a) PROVE HoldsRetained(a)'
  BY <1>1, <1>3 DEF HoldsRetained
<1> QED
  BY <1>2, <1>3

\* A message for a that carries the retained setpoint is the newest for a.
LEMMA AppendIsNewest ==
    ASSUME TypeOK, NEW m, NEW a \in Actuators,
           m = [actuator |-> a, setpoint |-> retained'[a]], inbox' = Append(inbox, m)
    PROVE  NewestInInbox(a)'
<1>1. /\ Len(inbox') = Len(inbox) + 1 /\ Len(inbox) \in Nat
      /\ inbox'[Len(inbox) + 1] = m
  BY DEF TypeOK
<1> QED
  BY <1>1 DEF NewestInInbox

\* Folding the first message in.
LEMMA ConsumeKeeps ==
    ASSUME TypeOK, Consume, NEW a \in Actuators, NewestInInbox(a) \/ HoldsRetained(a)
    PROVE  NewestInInbox(a)' \/ HoldsRetained(a)'
<1>1. /\ inbox # <<>> /\ inbox \in Seq(Message) /\ inbox' = Tail(inbox) /\ retained' = retained
      /\ actuatorState' = [actuatorState EXCEPT ![Head(inbox).actuator] = Head(inbox).setpoint]
  BY DEF Consume, brokerVars, TypeOK
<1>2. /\ Len(inbox') = Len(inbox) - 1 /\ Len(inbox) \in Nat /\ Len(inbox) >= 1 /\ Head(inbox) = inbox[1]
      /\ \A j \in 1..Len(inbox') : inbox'[j] = inbox[j + 1]
  BY <1>1
<1>3. CASE HoldsRetained(a)
  BY <1>1, <1>2, <1>3 DEF HoldsRetained, TypeOK
<1>4. CASE NewestInInbox(a)
  <2>1. PICK i \in 1..Len(inbox) :
          /\ inbox[i] = [actuator |-> a, setpoint |-> retained[a]]
          /\ \A j \in 1..Len(inbox) : j > i => inbox[j].actuator # a
    BY <1>4 DEF NewestInInbox
  <2>2. CASE i = 1
    <3>1. actuatorState'[a] = retained'[a]
      BY <1>1, <1>2, <2>1, <2>2 DEF TypeOK
    <3>2. \A j \in 1..Len(inbox') : inbox'[j].actuator # a
      BY <1>2, <2>1, <2>2
    <3> QED
      BY <3>1, <3>2 DEF HoldsRetained
  <2>3. CASE i # 1
    <3>1. i - 1 \in 1..Len(inbox') /\ inbox'[i - 1] = [actuator |-> a, setpoint |-> retained'[a]]
      BY <1>1, <1>2, <2>1, <2>3
    <3>2. \A j \in 1..Len(inbox') : j > i - 1 => inbox'[j].actuator # a
      BY <1>2, <2>1
    <3> QED
      BY <3>1, <3>2 DEF NewestInInbox
  <2> QED
    BY <2>2, <2>3
<1> QED
  BY <1>3, <1>4

\* What a subscribed simulator holds or has still to read ends with the
\* retained setpoint of every actuator.
THEOREM Follows == Spec => []FollowsBroker
<1>1. Init => Subscription /\ FollowsBroker
  BY DEF Init, Subscription, FollowsBroker
<1>2. TypeOK /\ TypeOK' /\ Subscription /\ FollowsBroker /\ [Next]_vars => Subscription' /\ FollowsBroker'
  <2> SUFFICES ASSUME TypeOK, TypeOK', Subscription, FollowsBroker, [Next]_vars
               PROVE  Subscription' /\ FollowsBroker'
    OBVIOUS
  <2> USE DEF apiVars, brokerVars, simVars, bounds
  <2>1. ASSUME UNCHANGED <<retained, subscribed, redeliver, simVars>>
        PROVE  Subscription' /\ FollowsBroker'
    BY <2>1 DEF Subscription, FollowsBroker, NewestInInbox, HoldsRetained
  <2>2. ASSUME ~subscribed', redeliver' = {} PROVE Subscription' /\ FollowsBroker'
    BY <2>2 DEF Subscription, FollowsBroker
  <2>3. ASSUME ~subscribed, UNCHANGED <<subscribed, redeliver, retained>>
        PROVE  Subscription' /\ FollowsBroker'
    BY <2>3 DEF Subscription, FollowsBroker
  <2>4. CASE ApiStep
    BY <2>1, <2>4 DEF ApiStep, ApiConnect, ApiConnectFails, ReceivePut, Admit, SetActuator
  <2>5. CASE Route
    <3> DEFINE m == Head(wire)
    <3>1. m \in Message
      BY <2>5 DEF Route, TypeOK
    <3>a. m.actuator \in Actuators /\ m.setpoint \in Nat
      BY <3>1 DEF Message
    <3>2. retained' = [retained EXCEPT ![m.actuator] = m.setpoint] /\ UNCHANGED <<subscribed, redeliver, sim, actuatorState>>
      BY <2>5 DEF Route
    <3>3. Subscription'
      BY <3>2 DEF Subscription
    <3>4. ASSUME subscribed, NEW a \in Actuators, retained'[a] # 0
          PROVE  a \in redeliver' \/ NewestInInbox(a)' \/ HoldsRetained(a)'
      <4>1. inbox' = Append(inbox, m)
        BY <2>5, <3>4 DEF Route
      <4>2. CASE a = m.actuator
        <5>1. m = [actuator |-> a, setpoint |-> retained'[a]]
          BY <3>1, <3>2, <4>2 DEF Message, TypeOK
        <5> QED
          BY <4>1, <5>1, AppendIsNewest
      <4>3. CASE a # m.actuator
        <5>1. retained'[a] = retained[a]
          BY <3>1, <3>2, <4>3 DEF TypeOK
        <5>2. a \in redeliver \/ NewestInInbox(a) \/ HoldsRetained(a)
          BY <3>4, <5>1 DEF FollowsBroker
        <5> QED
          BY <3>1, <3>2, <4>1, <4>3, <5>1, <5>2, AppendKeeps
      <4> QED
        BY <4>2, <4>3
    <3> QED
      BY <3>2, <3>3, <3>4 DEF FollowsBroker
  <2>6. ASSUME NEW b \in Actuators, Redeliver(b) PROVE Subscription' /\ FollowsBroker'
    <3> DEFINE m == [actuator |-> b, setpoint |-> retained[b]]
    <3>1. m \in Message /\ m.actuator = b
      BY MessageTyped DEF TypeOK
    <3>2. /\ inbox' = Append(inbox, m) /\ redeliver' = redeliver \ {b}
          /\ UNCHANGED <<retained, subscribed, sim, actuatorState>>
      BY <2>6 DEF Redeliver
    <3>3. Subscription'
      BY <3>2 DEF Subscription
    <3>4. ASSUME subscribed, NEW a \in Actuators, retained'[a] # 0
          PROVE  a \in redeliver' \/ NewestInInbox(a)' \/ HoldsRetained(a)'
      <4>1. CASE a = b
        BY <3>2, <4>1, AppendIsNewest
      <4>2. CASE a # b
        <5>1. a \in redeliver \/ NewestInInbox(a) \/ HoldsRetained(a)
          BY <3>2, <3>4 DEF FollowsBroker
        <5>2. retained'[a] = retained[a] /\ actuatorState' = actuatorState
          BY <3>2
        <5>3. /\ NewestInInbox(a) => NewestInInbox(a)'
              /\ HoldsRetained(a) => HoldsRetained(a)'
          BY <3>1, <3>2, <4>2, <5>2, AppendKeeps
        <5> QED
          BY <3>2, <4>2, <5>1, <5>3
      <4> QED
        BY <4>1, <4>2
    <3> QED
      BY <3>2, <3>3, <3>4 DEF FollowsBroker
  <2>7. CASE Consume
    BY <2>7, ConsumeKeeps DEF Consume, Subscription, FollowsBroker
  <2>8. CASE SimConnect
    BY <2>3, <2>8 DEF SimConnect, Subscription
  <2>9. CASE SimSubscribe
    BY <2>9 DEF SimSubscribe, Subscription, FollowsBroker
  <2>10. CASE SimSubscribeFails
    BY <2>3, <2>10 DEF SimSubscribeFails, Subscription
  <2>11. CASE SimLosesConnection
    BY <2>3, <2>11 DEF SimLosesConnection
  <2>12. CASE ApiRestart
    BY <2>1, <2>12 DEF ApiRestart
  <2>13. CASE SimRestart
    BY <2>2, <2>13 DEF SimRestart
  <2>14. CASE DropApi
    BY <2>1, <2>14 DEF DropApi
  <2>15. CASE DropSimulator
    BY <2>2, <2>15 DEF DropSimulator
  <2>16. CASE BrokerStops
    BY <2>2, <2>16 DEF BrokerStops
  <2>17. CASE BrokerStarts
    BY <2>1, <2>17 DEF BrokerStarts
  <2>18. CASE UNCHANGED vars
    BY <2>1, <2>18 DEF vars
  <2> QED
    BY <2>4, <2>5, <2>6, <2>7, <2>8, <2>9, <2>10, <2>11, <2>12, <2>13, <2>14, <2>15, <2>16, <2>17, <2>18
       DEF Next, Delivery, SimStep
<1> QED
  BY <1>1, <1>2, TypeCorrect, PTL DEF Spec

-----------------------------------------------------------------------------
(* ActuatorBus implements ActuatorRegister.  The invariant: setpoints of an   *)
(* actuator are in the order they were sent, from the plant through the inbox *)
(* and the retained setpoint to the wire and to the newest one sent.          *)

\* What the plant and the broker hold was sent, and the broker's is not older.
Held ==
    \A a \in Actuators :
        /\ actuatorState[a] <= sent[a]
        /\ retained[a] <= sent[a]
        /\ retained[a] # 0 => actuatorState[a] <= retained[a]

OwedIsRetained == \A a \in redeliver : retained[a] # 0

\* An inbox message lies between the plant and the retained setpoint.
InboxBetween ==
    \A i \in 1..Len(inbox) :
        /\ actuatorState[inbox[i].actuator] <= inbox[i].setpoint
        /\ inbox[i].setpoint <= sent[inbox[i].actuator]
        /\ retained[inbox[i].actuator] # 0 => inbox[i].setpoint <= retained[inbox[i].actuator]

\* A message on the wire lies between all of these and the newest one sent.
WireBetween ==
    \A k \in 1..Len(wire) :
        /\ wire[k].setpoint # 0
        /\ actuatorState[wire[k].actuator] <= wire[k].setpoint
        /\ retained[wire[k].actuator] <= wire[k].setpoint
        /\ wire[k].setpoint <= sent[wire[k].actuator]

InboxBeforeWire ==
    \A i \in 1..Len(inbox), k \in 1..Len(wire) :
        inbox[i].actuator = wire[k].actuator => inbox[i].setpoint <= wire[k].setpoint

InboxAscends ==
    \A i, j \in 1..Len(inbox) :
        i < j /\ inbox[i].actuator = inbox[j].actuator => inbox[i].setpoint <= inbox[j].setpoint

WireAscends ==
    \A i, j \in 1..Len(wire) :
        i < j /\ wire[i].actuator = wire[j].actuator => wire[i].setpoint <= wire[j].setpoint

Ordered ==
    /\ Held /\ OwedIsRetained /\ InboxBetween /\ WireBetween
    /\ InboxBeforeWire /\ InboxAscends /\ WireAscends

-----------------------------------------------------------------------------
\* Losing what is on the wire, owed or in the inbox keeps the order of the rest.
LEMMA LossKeepsOrder ==
    ASSUME Ordered,
           wire' = wire \/ wire' = <<>>,
           inbox' = inbox \/ inbox' = <<>>,
           redeliver' = redeliver \/ redeliver' = {},
           UNCHANGED <<sent, retained, actuatorState>>
    PROVE  Ordered'
<1> USE DEF Ordered
<1>1. Held' /\ OwedIsRetained'
  BY DEF Held, OwedIsRetained
<1>2. InboxBetween' /\ InboxAscends'
  BY DEF InboxBetween, InboxAscends
<1>3. WireBetween' /\ WireAscends'
  BY DEF WireBetween, WireAscends
<1>4. InboxBeforeWire'
  BY DEF InboxBeforeWire
<1> QED
  BY <1>1, <1>2, <1>3, <1>4

\* A new setpoint goes to the end of the wire, above all others.
LEMMA SetKeepsOrder ==
    ASSUME TypeOK, Ordered, NEW a \in Actuators,
           sent' = [sent EXCEPT ![a] = @ + 1],
           wire' = Append(wire, [actuator |-> a, setpoint |-> sent[a] + 1]),
           UNCHANGED <<inbox, redeliver, retained, actuatorState>>
    PROVE  Ordered'
<1> USE DEF Ordered
<1>1. /\ Len(wire') = Len(wire) + 1 /\ Len(wire) \in Nat
      /\ \A k \in 1..Len(wire) : wire'[k] = wire[k] /\ wire[k] \in Message
      /\ wire'[Len(wire) + 1] = [actuator |-> a, setpoint |-> sent[a] + 1]
  BY MessageTyped DEF TypeOK
<1>2. \A i \in 1..Len(inbox) : inbox[i] \in Message
  BY DEF TypeOK
<1>3. \A m \in Message : m.actuator \in Actuators /\ m.setpoint \in Nat
  BY DEF Message
<1>4. /\ \A b \in Actuators : sent[b] <= sent'[b] /\ sent[b] \in Nat /\ sent'[b] \in Nat
      /\ \A b \in Actuators : actuatorState[b] \in Nat /\ retained[b] \in Nat
      /\ sent'[a] = sent[a] + 1
  BY DEF TypeOK
<1>5. Held' /\ OwedIsRetained'
  BY <1>4 DEF Held, OwedIsRetained
<1>6. InboxBetween' /\ InboxAscends'
  BY <1>2, <1>3, <1>4 DEF InboxBetween, InboxAscends
<1>7. WireBetween'
  BY <1>1, <1>3, <1>4 DEF WireBetween, Held
<1>8. WireAscends'
  BY <1>1, <1>3, <1>4 DEF WireAscends, WireBetween
<1>9. InboxBeforeWire'
  BY <1>1, <1>2, <1>3, <1>4 DEF InboxBeforeWire, InboxBetween
<1> QED
  BY <1>5, <1>6, <1>7, <1>8, <1>9

\* A message put behind the inbox that is at least as new as what is there, and
\* no newer than the retained setpoint or the wire.
LEMMA AppendKeepsOrder ==
    ASSUME TypeOK, Held, InboxBetween, InboxAscends, InboxBeforeWire, NEW m \in Message,
           actuatorState[m.actuator] <= m.setpoint,
           m.setpoint <= sent[m.actuator],
           retained[m.actuator] # 0 => m.setpoint <= retained[m.actuator],
           \A i \in 1..Len(inbox) : inbox[i].actuator = m.actuator => inbox[i].setpoint <= m.setpoint,
           \A k \in 1..Len(wire) : wire[k].actuator = m.actuator => m.setpoint <= wire[k].setpoint,
           inbox' = Append(inbox, m),
           UNCHANGED <<wire, sent, retained, actuatorState>>
    PROVE  InboxBetween' /\ InboxAscends' /\ InboxBeforeWire'
<1>1. /\ Len(inbox') = Len(inbox) + 1 /\ Len(inbox) \in Nat
      /\ \A k \in 1..Len(inbox) : inbox'[k] = inbox[k]
      /\ inbox'[Len(inbox) + 1] = m
  BY DEF TypeOK
<1>2. InboxBetween'
  BY <1>1 DEF InboxBetween
<1>3. InboxAscends'
  BY <1>1 DEF InboxAscends
<1>4. InboxBeforeWire'
  BY <1>1 DEF InboxBeforeWire
<1> QED
  BY <1>2, <1>3, <1>4

\* The broker reads the oldest message of the wire, which is no older than any
\* in the inbox and takes the place of the retained one.
LEMMA RouteKeepsOrder ==
    ASSUME TypeOK, Ordered, Route
    PROVE  Ordered'
<1> USE DEF Ordered
<1> DEFINE m == Head(wire)
           n == Len(inbox)
<1>1. /\ wire # <<>> /\ wire' = Tail(wire)
      /\ retained' = [retained EXCEPT ![m.actuator] = m.setpoint]
      /\ inbox' = (IF subscribed THEN Append(inbox, m) ELSE inbox)
      /\ UNCHANGED <<sent, redeliver, actuatorState>>
  BY DEF Route, apiVars
<1>2. /\ Len(wire) \in Nat /\ Len(wire) >= 1 /\ m = wire[1] /\ m \in Message
      /\ Len(wire') = Len(wire) - 1
      /\ \A k \in 1..Len(wire') : wire'[k] = wire[k + 1]
      /\ \A k \in 1..Len(wire) : wire[k] \in Message
  BY <1>1 DEF TypeOK
<1>3. \A x \in Message : x.actuator \in Actuators /\ x.setpoint \in Nat
  BY DEF Message
<1>4. /\ n \in Nat /\ \A i \in 1..n : inbox[i] \in Message
      /\ \A b \in Actuators : actuatorState[b] \in Nat /\ retained[b] \in Nat /\ sent[b] \in Nat
  BY DEF TypeOK
<1>a. m.setpoint # 0 /\ m.setpoint <= sent[m.actuator] /\ actuatorState[m.actuator] <= m.setpoint
  BY <1>2 DEF WireBetween
<1>b. m.actuator \in Actuators /\ retained \in [Actuators -> Nat]
  BY <1>2, <1>3 DEF TypeOK
<1>5. /\ retained'[m.actuator] = m.setpoint /\ m.setpoint # 0 /\ m.setpoint <= sent[m.actuator]
      /\ actuatorState[m.actuator] <= m.setpoint
      /\ \A b \in Actuators : b # m.actuator => retained'[b] = retained[b]
  <2> HIDE DEF m
  <2> QED
    BY <1>1, <1>a, <1>b
<1>6. Held' /\ OwedIsRetained'
  <2>1. Held'
    BY <1>1, <1>2, <1>3, <1>5 DEF Held
  <2>2. OwedIsRetained'
    BY <1>1, <1>5 DEF OwedIsRetained, TypeOK
  <2> QED
    BY <2>1, <2>2
<1>7. WireAscends'
  <2> SUFFICES ASSUME NEW i \in 1..Len(wire'), NEW j \in 1..Len(wire'), i < j,
                      wire'[i].actuator = wire'[j].actuator
               PROVE  wire'[i].setpoint <= wire'[j].setpoint
    BY DEF WireAscends
  <2>1. /\ i + 1 \in 1..Len(wire) /\ j + 1 \in 1..Len(wire) /\ i + 1 < j + 1
        /\ wire'[i] = wire[i + 1] /\ wire'[j] = wire[j + 1]
    BY <1>2
  <2>2. WireAscends
    OBVIOUS
  <2> QED
    <3> HIDE DEF Ordered, m, n
    <3> QED
      BY <2>1, <2>2 DEF WireAscends
<1>8. WireBetween'
  <2> SUFFICES ASSUME NEW k \in 1..Len(wire')
               PROVE  /\ wire'[k].setpoint # 0
                      /\ actuatorState'[wire'[k].actuator] <= wire'[k].setpoint
                      /\ retained'[wire'[k].actuator] <= wire'[k].setpoint
                      /\ wire'[k].setpoint <= sent'[wire'[k].actuator]
    BY DEF WireBetween
  <2>1. k + 1 \in 1..Len(wire) /\ wire'[k] = wire[k + 1]
    BY <1>2
  <2>2. wire'[k].actuator = m.actuator => m.setpoint <= wire'[k].setpoint
    BY <1>2, <2>1 DEF WireAscends
  <2> QED
    BY <1>1, <1>2, <1>3, <1>5, <2>1, <2>2 DEF WireBetween
<1>9. \A i \in 1..n : inbox[i].actuator = m.actuator => inbox[i].setpoint <= m.setpoint
  BY <1>2 DEF InboxBeforeWire
<1>10. \A i \in 1..n :
         /\ actuatorState[inbox[i].actuator] <= inbox[i].setpoint
         /\ inbox[i].setpoint <= sent[inbox[i].actuator]
         /\ retained'[inbox[i].actuator] # 0 => inbox[i].setpoint <= retained'[inbox[i].actuator]
  BY <1>3, <1>4, <1>5, <1>9 DEF InboxBetween
<1>11. \A k \in 1..Len(wire') : wire'[k].actuator = m.actuator => m.setpoint <= wire'[k].setpoint
  BY <1>2 DEF WireAscends
<1>12. \A i \in 1..n, k \in 1..Len(wire') :
         inbox[i].actuator = wire'[k].actuator => inbox[i].setpoint <= wire'[k].setpoint
  BY <1>2 DEF InboxBeforeWire
<1>13. InboxBetween' /\ InboxAscends' /\ InboxBeforeWire'
  <2>1. CASE subscribed
    <3>1. /\ Len(inbox') = n + 1
          /\ \A i \in 1..n : inbox'[i] = inbox[i]
          /\ inbox'[n + 1] = m
      BY <1>1, <1>2, <2>1 DEF TypeOK
    <3>2. InboxBetween'
      <4> SUFFICES ASSUME NEW i \in 1..Len(inbox')
                   PROVE  /\ actuatorState'[inbox'[i].actuator] <= inbox'[i].setpoint
                          /\ inbox'[i].setpoint <= sent'[inbox'[i].actuator]
                          /\ retained'[inbox'[i].actuator] # 0 =>
                               inbox'[i].setpoint <= retained'[inbox'[i].actuator]
        BY DEF InboxBetween
      <4> HIDE DEF m, n
      <4>1. CASE i \in 1..n
        BY <1>1, <1>10, <3>1, <4>1
      <4>2. CASE i = n + 1
        BY <1>1, <1>2, <1>3, <1>5, <3>1, <4>2
      <4> QED
        BY <1>4, <3>1, <4>1, <4>2
    <3>3. InboxAscends'
      <4> SUFFICES ASSUME NEW i \in 1..n + 1, NEW j \in 1..n + 1, i < j,
                          inbox'[i].actuator = inbox'[j].actuator
                   PROVE  inbox'[i].setpoint <= inbox'[j].setpoint
        BY <3>1 DEF InboxAscends
      <4>1. i \in 1..n
        BY <1>4
      <4> HIDE DEF m
      <4>2. CASE j \in 1..n
        BY <3>1, <4>1, <4>2 DEF InboxAscends
      <4>3. CASE j = n + 1
        BY <1>9, <3>1, <4>1, <4>3
      <4> QED
        BY <1>4, <4>2, <4>3
    <3>4. InboxBeforeWire'
      BY <1>4, <1>11, <1>12, <3>1 DEF InboxBeforeWire
    <3> QED
      BY <3>2, <3>3, <3>4
  <2>2. CASE ~subscribed
    <3>1. inbox' = inbox
      BY <1>1, <2>2
    <3>2. InboxBetween'
      BY <1>1, <1>10, <3>1 DEF InboxBetween
    <3>3. InboxAscends' /\ InboxBeforeWire'
      BY <1>12, <3>1 DEF InboxAscends, InboxBeforeWire
    <3> QED
      BY <3>2, <3>3
  <2> QED
    BY <2>1, <2>2
<1> QED
  BY <1>6, <1>7, <1>8, <1>13

\* The broker repeats a retained setpoint that it owes.
LEMMA RedeliverKeepsOrder ==
    ASSUME TypeOK, Ordered, NEW a \in Actuators, Redeliver(a)
    PROVE  Ordered'
<1> USE DEF Ordered
<1> DEFINE m == [actuator |-> a, setpoint |-> retained[a]]
<1>1. /\ a \in redeliver /\ redeliver' = redeliver \ {a} /\ inbox' = Append(inbox, m)
      /\ UNCHANGED <<wire, sent, retained, actuatorState>>
  BY DEF Redeliver, apiVars
<1>2. m \in Message /\ m.actuator = a /\ m.setpoint = retained[a] /\ retained[a] \in Nat /\ retained[a] # 0
  BY <1>1, MessageTyped DEF TypeOK, OwedIsRetained
<1>3. actuatorState[a] <= retained[a] /\ retained[a] <= sent[a]
  BY <1>2 DEF Held
<1>4. /\ \A i \in 1..Len(inbox) : inbox[i].actuator = a => inbox[i].setpoint <= retained[a]
      /\ \A k \in 1..Len(wire) : wire[k].actuator = a => retained[a] <= wire[k].setpoint
  BY <1>2 DEF InboxBetween, WireBetween
<1>5. InboxBetween' /\ InboxAscends' /\ InboxBeforeWire'
  <2> HIDE DEF m
  <2> QED
    BY <1>1, <1>2, <1>3, <1>4, AppendKeepsOrder
<1>6. Held' /\ OwedIsRetained' /\ WireBetween' /\ WireAscends'
  BY <1>1 DEF Held, OwedIsRetained, WireBetween, WireAscends
<1> QED
  BY <1>5, <1>6

\* The plant takes the oldest message of its inbox.
LEMMA ConsumeKeepsOrder ==
    ASSUME TypeOK, Ordered, Consume
    PROVE  Ordered'
<1> USE DEF Ordered
<1> DEFINE m == Head(inbox)
<1>1. /\ inbox # <<>> /\ inbox' = Tail(inbox)
      /\ actuatorState' = [actuatorState EXCEPT ![m.actuator] = m.setpoint]
      /\ UNCHANGED <<wire, sent, retained, redeliver>>
  BY DEF Consume, apiVars, brokerVars
<1>2. /\ Len(inbox) \in Nat /\ Len(inbox) >= 1 /\ m = inbox[1] /\ m \in Message
      /\ Len(inbox') = Len(inbox) - 1
      /\ \A k \in 1..Len(inbox') : inbox'[k] = inbox[k + 1]
      /\ \A k \in 1..Len(inbox) : inbox[k] \in Message
      /\ \A k \in 1..Len(wire) : wire[k] \in Message
  BY <1>1 DEF TypeOK
<1>3. m.actuator \in Actuators /\ m.setpoint \in Nat
  BY <1>2 DEF Message
<1>4. /\ actuatorState'[m.actuator] = m.setpoint
      /\ \A b \in Actuators : b # m.actuator => actuatorState'[b] = actuatorState[b]
  BY <1>1, <1>3 DEF TypeOK
<1>5. /\ m.setpoint <= sent[m.actuator]
      /\ retained[m.actuator] # 0 => m.setpoint <= retained[m.actuator]
  BY <1>2 DEF InboxBetween
<1>6. Held' /\ OwedIsRetained'
  BY <1>1, <1>3, <1>4, <1>5 DEF Held, OwedIsRetained
<1>7. InboxAscends'
  BY <1>2 DEF InboxAscends
<1>8. InboxBeforeWire'
  BY <1>1, <1>2 DEF InboxBeforeWire
<1>9. WireAscends'
  BY <1>1 DEF WireAscends
<1>10. WireBetween'
  <2>1. \A k \in 1..Len(wire) : wire[k].actuator = m.actuator => m.setpoint <= wire[k].setpoint
    BY <1>2 DEF InboxBeforeWire
  <2>2. \A k \in 1..Len(wire) : wire[k].actuator \in Actuators
    BY <1>2 DEF Message
  <2> QED
    BY <1>1, <1>4, <2>1, <2>2 DEF WireBetween
<1>11. InboxBetween'
  <2>1. \A k \in 1..Len(inbox') : inbox'[k].actuator = m.actuator => m.setpoint <= inbox'[k].setpoint
    BY <1>2 DEF InboxAscends
  <2>2. \A k \in 1..Len(inbox) : inbox[k].actuator \in Actuators
    BY <1>2 DEF Message
  <2>3. \A k \in 1..Len(inbox') : k + 1 \in 1..Len(inbox)
    BY <1>2
  <2> QED
    BY <1>1, <1>2, <1>4, <2>1, <2>2, <2>3 DEF InboxBetween
<1> QED
  BY <1>6, <1>7, <1>8, <1>9, <1>10, <1>11

LEMMA OrderedInit == Init => Ordered
<1> SUFFICES ASSUME Init PROVE Ordered
  OBVIOUS
<1>1. wire = <<>> /\ inbox = <<>> /\ redeliver = {}
  BY DEF Init
<1>2. \A a \in Actuators : sent[a] = 0 /\ retained[a] = 0 /\ actuatorState[a] = 0
  BY DEF Init, Nominal
<1> QED
  BY <1>1, <1>2
     DEF Ordered, Held, OwedIsRetained, InboxBetween, WireBetween, InboxBeforeWire, InboxAscends, WireAscends

LEMMA OrderedStep ==
    ASSUME TypeOK, Ordered, [Next]_vars
    PROVE  Ordered'
<1> USE DEF apiVars, brokerVars, simVars
<1>1. CASE UNCHANGED <<sent, wire, retained, redeliver, inbox, actuatorState>>
  BY <1>1, LossKeepsOrder
<1>2. CASE ApiConnect \/ ApiConnectFails
  BY <1>1, <1>2 DEF ApiConnect, ApiConnectFails
<1>3. ASSUME NEW q \in Requests, NEW a \in Actuators, ReceivePut(q, a) PROVE Ordered'
  BY <1>1, <1>3 DEF ReceivePut
<1>4. ASSUME NEW q \in Requests, Admit(q) PROVE Ordered'
  BY <1>1, <1>4 DEF Admit
<1>5. ASSUME NEW q \in Requests, SetActuator(q) PROVE Ordered'
  <2>1. CASE apiClient = "live"
    <3>1. request[q].actuator \in Actuators
      BY <1>5 DEF SetActuator, TypeOK, RequestState, Idle
    <3> QED
      BY <1>5, <2>1, <3>1, SetKeepsOrder DEF SetActuator
  <2>2. CASE apiClient # "live"
    BY <1>1, <1>5, <2>2 DEF SetActuator
  <2> QED
    BY <2>1, <2>2
<1>6. CASE ApiRestart
  BY <1>6, LossKeepsOrder DEF ApiRestart
<1>7. CASE Route
  BY <1>7, RouteKeepsOrder
<1>8. ASSUME NEW a \in Actuators, Redeliver(a) PROVE Ordered'
  BY <1>8, RedeliverKeepsOrder
<1>9. CASE DropApi \/ DropSimulator
  BY <1>9, LossKeepsOrder DEF DropApi, DropSimulator
<1>10. CASE BrokerStops
  <2>1. /\ wire' = <<>> /\ redeliver' = {} /\ UNCHANGED <<sent, inbox, actuatorState>>
        /\ retained' = retained \/ retained' = Nominal
    BY <1>10 DEF BrokerStops
  <2>2. CASE retained' = retained
    BY <2>1, <2>2, LossKeepsOrder
  <2>3. CASE retained' = Nominal
    <3>1. \A a \in Actuators : retained'[a] = 0 /\ sent[a] \in Nat
      BY <2>3 DEF Nominal, TypeOK
    <3>2. Held' /\ OwedIsRetained'
      BY <2>1, <3>1 DEF Ordered, Held, OwedIsRetained
    <3>a. \A i \in 1..Len(inbox) : inbox[i] \in Message
      BY DEF TypeOK
    <3>3. \A i \in 1..Len(inbox) : inbox[i].actuator \in Actuators
      BY <3>a DEF Message
    <3>4. InboxBetween' /\ InboxAscends'
      BY <2>1, <3>1, <3>3 DEF Ordered, InboxBetween, InboxAscends
    <3>5. WireBetween' /\ InboxBeforeWire' /\ WireAscends'
      BY <2>1 DEF WireBetween, InboxBeforeWire, WireAscends
    <3> QED
      BY <3>2, <3>4, <3>5 DEF Ordered
  <2> QED
    BY <2>1, <2>2, <2>3
<1>11. CASE BrokerStarts
  BY <1>1, <1>11 DEF BrokerStarts
<1>12. CASE SimConnect
  BY <1>12, LossKeepsOrder DEF SimConnect
<1>13. CASE SimSubscribe
  <2>1. /\ redeliver' = {a \in Actuators : retained[a] # 0}
        /\ UNCHANGED <<sent, wire, retained, inbox, actuatorState>>
    BY <1>13 DEF SimSubscribe
  <2>2. OwedIsRetained'
    BY <2>1 DEF OwedIsRetained
  <2>3. Held' /\ InboxBetween' /\ WireBetween' /\ InboxBeforeWire' /\ InboxAscends' /\ WireAscends'
    BY <2>1 DEF Ordered, Held, InboxBetween, WireBetween, InboxBeforeWire, InboxAscends, WireAscends
  <2> QED
    BY <2>2, <2>3 DEF Ordered
<1>14. CASE SimSubscribeFails \/ SimLosesConnection
  BY <1>1, <1>14 DEF SimSubscribeFails, SimLosesConnection
<1>15. CASE Consume
  BY <1>15, ConsumeKeepsOrder
<1>16. CASE SimRestart
  <2>1. /\ actuatorState' = Nominal /\ inbox' = <<>> /\ redeliver' = {}
        /\ UNCHANGED <<sent, wire, retained>>
    BY <1>16 DEF SimRestart
  <2>2. \A a \in Actuators : actuatorState'[a] = 0 /\ sent[a] \in Nat /\ retained[a] \in Nat
    BY <2>1 DEF Nominal, TypeOK
  <2>3. Held' /\ OwedIsRetained'
    BY <2>1, <2>2 DEF Ordered, Held, OwedIsRetained
  <2>a. \A k \in 1..Len(wire) : wire[k] \in Message
    BY DEF TypeOK
  <2>4. \A k \in 1..Len(wire) : wire[k].actuator \in Actuators /\ wire[k].setpoint \in Nat
    BY <2>a DEF Message
  <2>5. WireBetween' /\ WireAscends'
    BY <2>1, <2>2, <2>4 DEF Ordered, WireBetween, WireAscends
  <2>6. InboxBetween' /\ InboxBeforeWire' /\ InboxAscends'
    BY <2>1 DEF InboxBetween, InboxBeforeWire, InboxAscends
  <2> QED
    BY <2>3, <2>5, <2>6 DEF Ordered
<1>17. CASE UNCHANGED vars
  BY <1>1, <1>17 DEF vars
<1> QED
  BY <1>2, <1>3, <1>4, <1>5, <1>6, <1>7, <1>8, <1>9, <1>10, <1>11, <1>12, <1>13, <1>14, <1>15, <1>16, <1>17
     DEF Next, ApiStep, Delivery, SimStep

\* A step of the bus is a step of the register or changes neither sent nor the
\* plant's positions.
LEMMA StepMaps ==
    ASSUME TypeOK, Ordered, [Next]_vars
    PROVE  [Register!Next]_<<sent, actuatorState>>
<1> USE DEF apiVars, brokerVars, simVars
<1>1. ASSUME NEW q \in Requests, SetActuator(q)
      PROVE  [Register!Next]_<<sent, actuatorState>>
  <2>1. CASE apiClient = "live"
    <3>1. request[q].actuator \in Actuators
      BY <1>1 DEF SetActuator, TypeOK, RequestState, Idle
    <3>a. /\ sent' = [sent EXCEPT ![request[q].actuator] = @ + 1]
          /\ actuatorState' = actuatorState
      BY <1>1, <2>1 DEF SetActuator
    <3>2. Register!Set(request[q].actuator)
      BY <3>a DEF Register!Set
    <3> QED
      BY <3>1, <3>2 DEF Register!Next
  <2>2. CASE apiClient # "live"
    BY <1>1, <2>2 DEF SetActuator
  <2> QED
    BY <2>1, <2>2
<1>2. CASE Consume
  <2> DEFINE m == Head(inbox)
  <2>1. inbox # <<>> /\ actuatorState' = [actuatorState EXCEPT ![m.actuator] = m.setpoint] /\ sent' = sent
    BY <1>2 DEF Consume
  <2>2. m \in Message /\ 1 \in 1..Len(inbox) /\ m = inbox[1]
    BY <2>1 DEF TypeOK
  <2>3. m.actuator \in Actuators /\ m.setpoint \in Nat
    BY <2>2 DEF Message
  <2>4. actuatorState[m.actuator] <= m.setpoint /\ m.setpoint <= sent[m.actuator]
    BY <2>2 DEF Ordered, InboxBetween
  <2>5. m.setpoint \in actuatorState[m.actuator]..sent[m.actuator]
    <3> HIDE DEF m
    <3> QED
      BY <2>3, <2>4 DEF TypeOK
  <2>6. Register!Follow(m.actuator)
    BY <2>1, <2>5 DEF Register!Follow
  <2> QED
    BY <2>3, <2>6 DEF Register!Next
<1>3. CASE SimRestart
  BY <1>3 DEF SimRestart, Nominal, Register!Next, Register!Reboot
<1>4. CASE UNCHANGED <<sent, actuatorState>>
  BY <1>4
<1>5. CASE ApiConnect \/ ApiConnectFails
  BY <1>4, <1>5 DEF ApiConnect, ApiConnectFails
<1>6. ASSUME NEW q \in Requests, Admit(q) \/ (\E a \in Actuators : ReceivePut(q, a))
      PROVE  [Register!Next]_<<sent, actuatorState>>
  BY <1>4, <1>6 DEF Admit, ReceivePut
<1>7. CASE Delivery
  BY <1>4, <1>7 DEF Delivery, Route, Redeliver
<1>8. CASE SimStep
  BY <1>4, <1>8 DEF SimStep, SimConnect, SimSubscribe, SimSubscribeFails, SimLosesConnection
<1>9. CASE ApiRestart \/ DropApi \/ DropSimulator
  BY <1>4, <1>9 DEF ApiRestart, DropApi, DropSimulator
<1>10. CASE BrokerStops \/ BrokerStarts
  <2>1. UNCHANGED <<sent, actuatorState>>
    BY <1>10 DEF BrokerStops, BrokerStarts
  <2> QED
    BY <2>1
<1>11. CASE UNCHANGED vars
  BY <1>4, <1>11 DEF vars
<1> QED
  BY <1>1, <1>2, <1>3, <1>5, <1>6, <1>7, <1>8, <1>9, <1>10, <1>11 DEF Next, ApiStep

\* The bus implements a register per actuator: setpoints may be lost on the way
\* to the simulator, but are never reordered, repeated after a newer one or made
\* up, whatever is dropped, restarted or redelivered.
THEOREM Implements == Spec => ImplementsRegister
<1>1. Init => Register!Init
  BY DEF Init, Nominal, Register!Init
<1>2. Init => Ordered
  BY OrderedInit
<1>3. TypeOK /\ Ordered /\ [Next]_vars => Ordered' /\ [Register!Next]_<<sent, actuatorState>>
  BY OrderedStep, StepMaps
<1> QED
  BY <1>1, <1>2, <1>3, TypeCorrect, PTL DEF Spec, ImplementsRegister, Register!Spec
=============================================================================
