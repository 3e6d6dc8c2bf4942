------------------------------ MODULE ActuatorBus ------------------------------
(***************************************************************************)
(* Actuator setpoints on their way from PUT /godmode/actuators/{actuator}  *)
(* through the broker to the simulator's actuator_state.                   *)
(*                                                                         *)
(* The API (app/main.py lifespan, controllers/actuators.py, the dependency *)
(* get_mqtt_publisher) and the simulator (app/simulator.py) each own one   *)
(* MqttPublisher (services/mqtt.py); EMQX and aiomqtt are external.  A     *)
(* setpoint stands for its payload: setpoints of an actuator are numbered  *)
(* in the order set_actuator sends them, 0 being the nominal position.     *)
(* ActuatorSetRequest admits 0..100 only and the broker's acl.conf lets no *)
(* other client publish here, so _apply_actuator_message clamps nothing.   *)
(***************************************************************************)
EXTENDS Naturals, Sequences

CONSTANTS
    Actuators,
    Requests,           \* PUT requests that may be under way together
    ConnectAttempts,    \* MQTT_CONNECT_ATTEMPTS
    MaxSetpoints,       \* bound: setpoints sent for one actuator
    MaxOutages,         \* bound: connections dropped, broker stops
    MaxRestarts         \* bound: restarts of the API and of the simulator

ASSUME AttemptsAssumption == ConnectAttempts \in Nat \ {0}
ASSUME LimitsAssumption == MaxSetpoints \in Nat /\ MaxOutages \in Nat /\ MaxRestarts \in Nat

VARIABLES
    api,            \* "booting" in lifespan, or "serving"
    attempt,        \* the connection attempt lifespan is at
    apiClient,      \* publisher._client and the health of its connection
    request,        \* where each PUT is, and the actuator it is for
    sent,           \* setpoints sent for each actuator
    wire,           \* bytes from the API that the broker has not read
    broker,         \* "up" or "down"
    retained,       \* the broker's retained setpoint per actuator, 0 if none
    subscribed,     \* the broker has the simulator's subscription
    redeliver,      \* retained setpoints it still owes that subscription
    inbox,          \* messages that wait for the simulator's consumer task
    sim,            \* the simulator process
    actuatorState,  \* its actuator_state
    outages, restarts

apiVars == <<api, attempt, apiClient, request, sent>>
brokerVars == <<wire, broker, retained, subscribed, redeliver>>
simVars == <<inbox, sim, actuatorState>>
bounds == <<outages, restarts>>
vars == <<apiVars, brokerVars, simVars, bounds>>

Idle == [phase |-> "idle"]
RequestState ==
    {Idle} \cup [phase : {"received", "admitted"}, actuator : Actuators]
Message == [actuator : Actuators, setpoint : Nat]

TypeOK ==
    /\ api \in {"booting", "serving"}
    /\ attempt \in 1..ConnectAttempts
    /\ apiClient \in {"none", "live", "dead"}
    /\ request \in [Requests -> RequestState]
    /\ sent \in [Actuators -> Nat]
    /\ wire \in Seq(Message)
    /\ broker \in {"up", "down"}
    /\ retained \in [Actuators -> Nat]
    /\ subscribed \in BOOLEAN
    /\ redeliver \subseteq Actuators
    /\ inbox \in Seq(Message)
    /\ sim \in {"connecting", "connected", "consuming", "exited"}
    /\ actuatorState \in [Actuators -> Nat]
    /\ outages \in Nat
    /\ restarts \in Nat

Nominal == [a \in Actuators |-> 0]

Init ==
    /\ api = "booting" /\ attempt = 1 /\ apiClient = "none"
    /\ request = [q \in Requests |-> Idle]
    /\ sent = Nominal
    /\ wire = <<>> /\ broker \in {"up", "down"} /\ retained = Nominal
    /\ subscribed = FALSE /\ redeliver = {}
    /\ inbox = <<>> /\ sim = "connecting" /\ actuatorState = Nominal
    /\ outages = 0 /\ restarts = 0

Outage == outages < MaxOutages /\ outages' = outages + 1 /\ restarts' = restarts

-----------------------------------------------------------------------------
(* The API *)

\* Seeded fault: one attempt too many.
ApiConnectFailsLate ==
    /\ api = "booting"
    /\ broker = "down"
    /\ IF attempt <= ConnectAttempts
          THEN attempt' = attempt + 1 /\ api' = api
          ELSE api' = "serving" /\ attempt' = attempt
    /\ UNCHANGED <<apiClient, request, sent, brokerVars, simVars, bounds>>

\* lifespan: connect, or count a failed attempt; after the last one it serves
\* without a connection.
ApiConnect ==
    /\ api = "booting"
    /\ broker = "up"
    /\ api' = "serving" /\ apiClient' = "live"
    /\ UNCHANGED <<attempt, request, sent, brokerVars, simVars, bounds>>

ApiConnectFails ==
    /\ api = "booting"
    /\ broker = "down"
    /\ IF attempt < ConnectAttempts
          THEN attempt' = attempt + 1 /\ api' = api
          ELSE api' = "serving" /\ attempt' = attempt
    /\ UNCHANGED <<apiClient, request, sent, brokerVars, simVars, bounds>>

ReceivePut(q, a) ==
    /\ api = "serving"
    /\ request[q] = Idle
    /\ request' = [request EXCEPT ![q] = [phase |-> "received", actuator |-> a]]
    /\ UNCHANGED <<api, attempt, apiClient, sent, brokerVars, simVars, bounds>>

\* MqttPublisher.connected
Connected == apiClient # "none"

\* The dependency get_mqtt_publisher, which runs before the handler does: 503,
\* or on to set_actuator.
Admit(q) ==
    /\ request[q].phase = "received"
    /\ request' = [request EXCEPT ![q] = IF Connected THEN [@ EXCEPT !.phase = "admitted"] ELSE Idle]
    /\ UNCHANGED <<api, attempt, apiClient, sent, brokerVars, simVars, bounds>>

\* set_actuator publishes at QoS 0 and answers without an acknowledgement;
\* aiomqtt refuses on a connection it knows to be gone, a 500.
SetActuator(q) ==
    /\ request[q].phase = "admitted"
    /\ LET a == request[q].actuator IN
       IF apiClient = "live"
          THEN /\ sent[a] < MaxSetpoints
               /\ sent' = [sent EXCEPT ![a] = @ + 1]
               /\ wire' = Append(wire, [actuator |-> a, setpoint |-> sent[a] + 1])
          ELSE UNCHANGED <<sent, wire>>
    /\ request' = [request EXCEPT ![q] = Idle]
    /\ UNCHANGED <<api, attempt, apiClient, broker, retained, subscribed, redeliver, simVars, bounds>>

\* The API process is restarted; what it had not yet handed to the network is gone.
ApiRestart ==
    /\ restarts < MaxRestarts
    /\ api' = "booting" /\ attempt' = 1 /\ apiClient' = "none"
    /\ request' = [q \in Requests |-> Idle]
    /\ wire' \in {wire, <<>>}
    /\ restarts' = restarts + 1
    /\ UNCHANGED <<sent, broker, retained, subscribed, redeliver, simVars, outages>>

-----------------------------------------------------------------------------
(* The broker *)

\* A publication replaces the retained one and goes to the subscriber.
Route ==
    /\ broker = "up"
    /\ wire # <<>>
    /\ wire' = Tail(wire)
    /\ retained' = [retained EXCEPT ![Head(wire).actuator] = Head(wire).setpoint]
    /\ inbox' = IF subscribed THEN Append(inbox, Head(wire)) ELSE inbox
    /\ UNCHANGED <<apiVars, broker, subscribed, redeliver, sim, actuatorState, bounds>>

Redeliver(a) ==
    /\ a \in redeliver
    /\ redeliver' = redeliver \ {a}
    /\ inbox' = Append(inbox, [actuator |-> a, setpoint |-> retained[a]])
    /\ UNCHANGED <<apiVars, wire, broker, retained, subscribed, sim, actuatorState, bounds>>

DropApi ==
    /\ Outage
    /\ apiClient = "live"
    /\ apiClient' = "dead"
    /\ wire' = <<>>
    /\ UNCHANGED <<api, attempt, request, sent, broker, retained, subscribed, redeliver, simVars>>

\* The simulator keeps what reached it; the broker forgets a clean session.
DropSimulator ==
    /\ Outage
    /\ subscribed
    /\ subscribed' = FALSE /\ redeliver' = {}
    /\ UNCHANGED <<apiVars, wire, broker, retained, simVars>>

\* A restart keeps the retained messages, a new container has none: EMQX has
\* no volume in docker-compose.yaml.
BrokerStops ==
    /\ Outage
    /\ broker = "up"
    /\ broker' = "down"
    /\ retained' \in {retained, Nominal}
    /\ apiClient' = IF apiClient = "live" THEN "dead" ELSE apiClient
    /\ wire' = <<>> /\ subscribed' = FALSE /\ redeliver' = {}
    /\ UNCHANGED <<api, attempt, request, sent, simVars>>

BrokerStarts ==
    /\ broker = "down"
    /\ broker' = "up"
    /\ UNCHANGED <<apiVars, wire, retained, subscribed, redeliver, simVars, bounds>>

-----------------------------------------------------------------------------
(* The simulator *)

\* _connect_with_retry succeeds; a new client has an empty message queue.
SimConnect ==
    /\ sim = "connecting"
    /\ broker = "up"
    /\ sim' = "connected" /\ inbox' = <<>>
    /\ UNCHANGED <<apiVars, brokerVars, actuatorState, bounds>>

\* Seeded fault: a subscription that asks for live messages only.
SimSubscribeLiveOnly ==
    /\ sim = "connected"
    /\ broker = "up"
    /\ sim' = "consuming"
    /\ subscribed' = TRUE
    /\ UNCHANGED <<apiVars, wire, broker, retained, redeliver, inbox, actuatorState, bounds>>

\* _start_actuator_consumer: the broker owes every retained setpoint.
SimSubscribe ==
    /\ sim = "connected"
    /\ broker = "up"
    /\ sim' = "consuming"
    /\ subscribed' = TRUE
    /\ redeliver' = {a \in Actuators : retained[a] # 0}
    /\ UNCHANGED <<apiVars, wire, broker, retained, inbox, actuatorState, bounds>>

\* The subscribe call raises and the exception ends the process.
SimSubscribeFails ==
    /\ sim = "connected"
    /\ \/ broker = "down" /\ UNCHANGED bounds
       \/ Outage
    /\ sim' = "exited"
    /\ UNCHANGED <<apiVars, brokerVars, inbox, actuatorState>>

\* Seeded fault: messages are folded in as their tasks happen to run.
ConsumeUnordered ==
    /\ sim = "consuming"
    /\ \E i \in 1..Len(inbox) :
        /\ actuatorState' = [actuatorState EXCEPT ![inbox[i].actuator] = inbox[i].setpoint]
        /\ inbox' = SubSeq(inbox, 1, i - 1) \o SubSeq(inbox, i + 1, Len(inbox))
    /\ UNCHANGED <<apiVars, brokerVars, sim, bounds>>

\* _consume_actuators folds one message into actuator_state.
Consume ==
    /\ sim = "consuming"
    /\ inbox # <<>>
    /\ actuatorState' = [actuatorState EXCEPT ![Head(inbox).actuator] = Head(inbox).setpoint]
    /\ inbox' = Tail(inbox)
    /\ UNCHANGED <<apiVars, brokerVars, sim, bounds>>

\* run_simulator's handler after a failed publish: the consumer is cancelled and
\* it connects again, or the consumer has failed by itself and its exception
\* ends the process.  actuator_state is not reset.
SimLosesConnection ==
    /\ sim = "consuming"
    /\ ~subscribed
    /\ sim' \in {"connecting", "exited"}
    /\ UNCHANGED <<apiVars, brokerVars, inbox, actuatorState, bounds>>

\* The process is stopped or dies, and is started again from the nominals.
SimRestart ==
    /\ restarts < MaxRestarts
    /\ restarts' = restarts + 1
    /\ sim' = "connecting" /\ inbox' = <<>> /\ actuatorState' = Nominal
    /\ subscribed' = FALSE /\ redeliver' = {}
    /\ UNCHANGED <<apiVars, wire, broker, retained, outages>>

-----------------------------------------------------------------------------
ApiStep ==
    \/ ApiConnect \/ ApiConnectFails
    \/ \E q \in Requests : \/ \E a \in Actuators : ReceivePut(q, a)
                           \/ Admit(q)
                           \/ SetActuator(q)

Delivery == Route \/ (\E a \in Actuators : Redeliver(a))

SimStep == SimConnect \/ SimSubscribe \/ SimSubscribeFails \/ SimLosesConnection

Next ==
    \/ ApiStep \/ Delivery \/ SimStep \/ Consume
    \/ ApiRestart \/ SimRestart
    \/ DropApi \/ DropSimulator \/ BrokerStops \/ BrokerStarts

Spec == Init /\ [][Next]_vars

\* The broker delivers what it has read and the consumer task, which nothing in
\* the tick loop blocks for good, takes what is delivered.
FairSpec == Spec /\ WF_vars(Delivery) /\ WF_vars(Consume)

-----------------------------------------------------------------------------
(* Properties *)

\* A subscribed simulator with nothing left to read holds, for every actuator
\* with a retained setpoint, that setpoint, whatever dropped, restarted or was
\* redelivered before; and what it has left to read ends with that setpoint.
NewestInInbox(a) ==
    \E i \in 1..Len(inbox) :
        /\ inbox[i] = [actuator |-> a, setpoint |-> retained[a]]
        /\ \A j \in 1..Len(inbox) : j > i => inbox[j].actuator # a

HoldsRetained(a) ==
    /\ actuatorState[a] = retained[a]
    /\ \A j \in 1..Len(inbox) : inbox[j].actuator # a

FollowsBroker ==
    subscribed => \A a \in Actuators :
        retained[a] # 0 => a \in redeliver \/ NewestInInbox(a) \/ HoldsRetained(a)

\* The bus is a register per actuator: setpoints may be lost, never reordered,
\* replayed after a newer one, or made up.
Register == INSTANCE ActuatorRegister WITH position <- actuatorState
ImplementsRegister == Register!Spec

\* A simulator that stays subscribed takes over every retained setpoint.
EventuallyFollows ==
    \A a \in Actuators :
        <>[](subscribed /\ sim = "consuming") => []<>(retained[a] = 0 \/ actuatorState[a] = retained[a])

\* services/mqtt.py: get_mqtt_publisher is documented to answer 503 when the
\* broker "was unreachable at startup / dropped", so that a request it admits
\* has a live connection.
AdmitsOnlyLive ==
    [][\A q \in Requests :
          request[q].phase = "received" /\ request'[q].phase = "admitted" => apiClient = "live"]_vars
=============================================================================
