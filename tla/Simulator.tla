------------------------------- MODULE Simulator -------------------------------
(***************************************************************************)
(* The control loop of the simulator process (src/app/simulator.py): start *)
(* up, tick, snapshot, publication, reconnection and shutdown, with the    *)
(* database, the broker and the operator free to interfere between any two *)
(* steps.                                                                  *)
(*                                                                         *)
(* The plant is abstracted to how far it has been integrated: "state" is   *)
(* the number of plant_model.step calls behind it, so that a lost or       *)
(* repeated step shows.  The alarm level of a reading is any level.        *)
(***************************************************************************)
EXTENDS Naturals

CONSTANTS
    Metrics,        \* metrics with an alarm topic
    Levels,         \* alarm levels
    MaxTicks,       \* bound: later ticks are counted as this one
    MaxFaults       \* bound: outages, errors, kills and stops in a behaviour

Unknown == "unknown"
NoRow == [exists |-> FALSE]
Row == [exists : {TRUE}, tick : 0..MaxTicks, state : 0..MaxTicks]

ASSUME BoundsAssumption == MaxTicks \in Nat \ {0} /\ MaxFaults \in Nat
ASSUME LevelsAssumption == Unknown \notin Levels /\ Levels # {}

VARIABLES
    pc,             \* where run_simulator is
    stop,           \* stop_event
    tick, state,    \* its locals: tick, and state with prev_readings
    next,           \* the state _advance_plant has computed
    levels,         \* alarm levels of this tick's readings
    lastLevels,     \* last_levels, Unknown for a metric without an entry
    pending,        \* alarms _publish_tick has still to publish
    failing,        \* an exception is on its way out of the loop
    client,         \* the MQTT connection
    consumer,       \* the actuator consumer task
    row,            \* the plant_states row
    db, broker,     \* "up" or "down"
    alarm,          \* retained level per alarm topic
    shown,          \* history: newest tick whose readings were published
    wiped,          \* history: the row was deleted from outside
    faults

locals == <<tick, state, next, levels, lastLevels, pending, failing>>
links == <<client, consumer>>
outside == <<row, db, broker, alarm, shown, wiped, faults>>
vars == <<pc, stop, locals, links, outside>>

Halted == {"stopped", "crashed"}
Points == {"wait_db", "load", "connect", "subscribe", "loop", "persist", "emit", "publish",
           "alarms", "handler", "disconnect", "reconnect", "resubscribe", "sleep", "finally"}

TypeOK ==
    /\ pc \in Points \cup Halted
    /\ stop \in BOOLEAN /\ failing \in BOOLEAN /\ wiped \in BOOLEAN
    /\ tick \in 0..MaxTicks /\ state \in 0..MaxTicks /\ next \in 0..MaxTicks /\ shown \in 0..MaxTicks
    /\ levels \in [Metrics -> Levels]
    /\ lastLevels \in [Metrics -> Levels \cup {Unknown}]
    /\ pending \subseteq Metrics
    /\ client \in {"none", "live", "silent", "dead"}
    /\ consumer \in {"none", "running", "failed", "finished", "cancelled"}
    /\ row \in Row \cup {NoRow}
    /\ db \in {"up", "down"} /\ broker \in {"up", "down"}
    /\ alarm \in [Metrics -> Levels \cup {Unknown}]
    /\ faults \in Nat

NothingPublished == [m \in Metrics |-> Unknown]

Init ==
    /\ pc = "wait_db" /\ stop = FALSE
    /\ tick = 0 /\ state = 0 /\ next = 0
    /\ levels \in [Metrics -> Levels] /\ lastLevels = NothingPublished /\ pending = {}
    /\ failing = FALSE /\ client = "none" /\ consumer = "none"
    /\ row = NoRow /\ db \in {"up", "down"} /\ broker \in {"up", "down"}
    /\ alarm = NothingPublished /\ shown = 0 /\ wiped = FALSE /\ faults = 0

Later(n) == IF n < MaxTicks THEN n + 1 ELSE n

-----------------------------------------------------------------------------
(* Start-up *)

\* _wait_for_db: a database that is not ready is asked again.
WaitForDb ==
    /\ pc = "wait_db"
    /\ \/ stop /\ pc' = "stopped"
       \/ ~stop /\ db = "up" /\ pc' = "load"
    /\ UNCHANGED <<stop, locals, links, outside>>

\* _load_or_init_state: resume from the row, or write the first one.  An error
\* here is outside every try and ends the process.
Load ==
    /\ pc = "load"
    /\ \/ /\ db = "up"
          /\ \/ row.exists /\ tick' = row.tick /\ state' = row.state /\ row' = row
             \/ /\ ~row.exists
                /\ row' = [exists |-> TRUE, tick |-> 0, state |-> 0]
                /\ tick' = 0 /\ state' = 0
          /\ pc' = "connect"
       \/ /\ db = "down"
          /\ pc' = "crashed"
          /\ UNCHANGED <<tick, state, row>>
    /\ UNCHANGED <<stop, next, levels, lastLevels, pending, failing, links, db, broker, alarm,
                   shown, wiped, faults>>

\* Seeded fault: the retry loop does not look at stop_event.
ConnectForever ==
    /\ broker = "up"
    /\ \/ pc = "connect" /\ pc' = "subscribe"
       \/ pc = "reconnect" /\ pc' = "resubscribe"
    /\ client' = "live"
    /\ UNCHANGED <<stop, locals, consumer, outside>>

\* _connect_with_retry, called at the start and from the handler: a broker that
\* is down is tried again until stop_event is set.
Connect ==
    /\ \/ pc = "connect" /\ stop /\ pc' = "stopped" /\ client' = client
       \/ pc = "reconnect" /\ stop /\ pc' = "finally" /\ client' = client
       \/ pc = "connect" /\ ~stop /\ broker = "up" /\ pc' = "subscribe" /\ client' = "live"
       \/ pc = "reconnect" /\ ~stop /\ broker = "up" /\ pc' = "resubscribe" /\ client' = "live"
    /\ UNCHANGED <<stop, locals, consumer, outside>>

\* _start_actuator_consumer: a failing subscribe ends the process, at the start
\* at once, in the handler by way of the finally clause.
Subscribe ==
    /\ pc \in {"subscribe", "resubscribe"}
    /\ IF client = "live"
          THEN pc' = "loop" /\ consumer' = "running" /\ failing' = failing
          ELSE /\ pc' = IF pc = "subscribe" THEN "crashed" ELSE "finally"
               /\ failing' = TRUE /\ consumer' = consumer
    /\ client' = IF pc' = "crashed" THEN "none" ELSE client
    /\ UNCHANGED <<stop, tick, state, next, levels, lastLevels, pending, outside>>

-----------------------------------------------------------------------------
(* One tick *)

BeginTick ==
    /\ pc = "loop"
    /\ IF stop THEN pc' = "finally" /\ UNCHANGED <<tick, next>>
       ELSE pc' = "persist" /\ tick' = Later(tick) /\ next' = Later(state)
    /\ UNCHANGED <<stop, state, levels, lastLevels, pending, failing, links, outside>>

WriteRow == row' = [exists |-> TRUE, tick |-> tick, state |-> next]

\* Seeded fault: the snapshot is not committed.
PersistUncommitted ==
    /\ pc = "persist"
    /\ db = "up"
    /\ pc' = "emit"
    /\ UNCHANGED <<stop, locals, links, outside>>

\* _persist updates the row, or inserts one if it was deleted from outside.
Persist ==
    /\ pc = "persist"
    /\ db = "up"
    /\ WriteRow
    /\ pc' = "emit"
    /\ UNCHANGED <<stop, locals, links, db, broker, alarm, shown, wiped, faults>>

\* Seeded fault: the new state is kept although the tick failed.
PersistFailsAndAdvances ==
    /\ pc = "persist"
    /\ db = "down"
    /\ state' = next
    /\ pc' = "sleep"
    /\ UNCHANGED <<stop, tick, next, levels, lastLevels, pending, failing, links, outside>>

\* It raises with a database that is down, or after a commit whose answer is
\* lost; the loop logs and sleeps, and state keeps its old value.
PersistFails ==
    /\ pc = "persist"
    /\ \/ db = "down" /\ UNCHANGED <<row, faults>>
       \/ db = "up" /\ faults < MaxFaults /\ faults' = faults + 1 /\ WriteRow
    /\ pc' = "sleep"
    /\ UNCHANGED <<stop, locals, links, db, broker, alarm, shown, wiped>>

\* Seeded fault: a metric without a setpoint gets a level of its own.
EmitUnknownLevel ==
    /\ pc = "emit"
    /\ db = "up"
    /\ state' = next
    /\ levels' \in [Metrics -> Levels \cup {Unknown}]
    /\ pc' = "publish"
    /\ UNCHANGED <<stop, tick, next, lastLevels, pending, failing, links, outside>>

\* incident_emitter.emit returns, and with it _advance_plant.
Emit ==
    /\ pc = "emit"
    /\ db = "up"
    /\ state' = next
    /\ levels' \in [Metrics -> Levels]
    /\ pc' = "publish"
    /\ UNCHANGED <<stop, tick, next, lastLevels, pending, failing, links, outside>>

\* It raises: the row is one step ahead of the process's own state, which the
\* next tick integrates again.
EmitFails ==
    /\ pc = "emit"
    /\ \/ db = "down" /\ faults' = faults
       \/ db = "up" /\ faults < MaxFaults /\ faults' = faults + 1
    /\ pc' = "sleep"
    /\ UNCHANGED <<stop, locals, links, row, db, broker, alarm, shown, wiped>>

\* _publish_tick: the readings first.  A connection that is gone unnoticed
\* swallows them, one that is known to be gone raises MqttError.
PublishReadings ==
    /\ pc = "publish"
    /\ IF client = "dead" THEN pc' = "handler" /\ UNCHANGED <<pending, shown>>
       ELSE /\ pc' = "alarms"
            /\ pending' = {m \in Metrics : lastLevels[m] # levels[m]}
            /\ shown' = IF client = "live" THEN tick ELSE shown
    /\ UNCHANGED <<stop, tick, state, next, levels, lastLevels, failing, links, row, db, broker,
                   alarm, wiped, faults>>

\* Then each alarm whose level differs from last_levels, retained.
PublishAlarm(m) ==
    /\ pc = "alarms"
    /\ m \in pending
    /\ IF client = "dead" THEN pc' = "handler" /\ UNCHANGED <<pending, alarm>>
       ELSE /\ pc' = pc
            /\ pending' = pending \ {m}
            /\ alarm' = IF client = "live" THEN [alarm EXCEPT ![m] = levels[m]] ELSE alarm
    /\ UNCHANGED <<stop, tick, state, next, levels, lastLevels, failing, links, row, db, broker,
                   shown, wiped, faults>>

EndPublish ==
    /\ pc = "alarms"
    /\ pending = {}
    /\ lastLevels' = levels
    /\ pc' = "sleep"
    /\ UNCHANGED <<stop, tick, state, next, levels, pending, failing, links, outside>>

\* _sleep_or_stop, and back to the loop condition.
Sleep ==
    /\ pc = "sleep"
    /\ pc' = "loop"
    /\ UNCHANGED <<stop, locals, links, outside>>

-----------------------------------------------------------------------------
(* except MqttError, and finally *)

\* _cancel_task awaits the task and suppresses CancelledError only: a consumer
\* that has failed with its own MqttError raises it here.
CancelInHandler ==
    /\ pc = "handler"
    /\ IF consumer = "failed" THEN pc' = "finally" /\ failing' = TRUE /\ consumer' = consumer
       ELSE pc' = "disconnect" /\ consumer' = "cancelled" /\ failing' = failing
    /\ UNCHANGED <<stop, tick, state, next, levels, lastLevels, pending, client, outside>>

\* Seeded fault: last_levels survives the reconnection.
DisconnectKeepsLevels ==
    /\ pc = "disconnect"
    /\ client' = "none"
    /\ pending' = {}
    /\ pc' = "reconnect"
    /\ UNCHANGED <<stop, tick, state, next, levels, lastLevels, failing, consumer, outside>>

Disconnect ==
    /\ pc = "disconnect"
    /\ client' = "none"
    /\ lastLevels' = NothingPublished /\ pending' = {}
    /\ pc' = "reconnect"
    /\ UNCHANGED <<stop, tick, state, next, levels, failing, consumer, outside>>

\* A failed consumer raises once more, and the disconnect is skipped.
Finally ==
    /\ pc = "finally"
    /\ client' = "none"
    /\ consumer' = "none"
    /\ pc' = IF failing \/ consumer = "failed" THEN "crashed" ELSE "stopped"
    /\ UNCHANGED <<stop, locals, outside>>

-----------------------------------------------------------------------------
(* The connection, the consumer task and everything around the process *)

\* The keepalive or a write finds out that the connection is gone.
Notice ==
    /\ client = "silent"
    /\ client' = "dead"
    /\ UNCHANGED <<pc, stop, locals, consumer, outside>>

\* The message iterator raises MqttError on a connection that is gone; the
\* consumer returns after a message once stop_event is set.
ConsumerEnds ==
    /\ consumer = "running"
    /\ \/ client = "dead" /\ consumer' = "failed"
       \/ stop /\ consumer' = "finished"
    /\ UNCHANGED <<pc, stop, locals, client, outside>>

Fault == faults < MaxFaults /\ faults' = faults + 1

\* SIGTERM or SIGINT.
RequestStop ==
    /\ Fault
    /\ pc \notin Halted /\ ~stop
    /\ stop' = TRUE
    /\ UNCHANGED <<pc, locals, links, row, db, broker, alarm, shown, wiped>>

Kill ==
    /\ Fault
    /\ pc \notin Halted
    /\ pc' = "crashed" /\ client' = "none" /\ consumer' = "none"
    /\ UNCHANGED <<stop, locals, row, db, broker, alarm, shown, wiped>>

\* Someone starts the container again.
Restart ==
    /\ pc \in Halted
    /\ pc' = "wait_db" /\ stop' = FALSE
    /\ tick' = 0 /\ state' = 0 /\ next' = 0
    /\ lastLevels' = NothingPublished /\ pending' = {} /\ failing' = FALSE
    /\ UNCHANGED <<levels, links, outside>>

DropConnection ==
    /\ Fault
    /\ client = "live"
    /\ client' = "silent"
    /\ UNCHANGED <<pc, stop, locals, consumer, row, db, broker, alarm, shown, wiped>>

\* The broker's retained messages do not outlive its container.
BrokerStops ==
    /\ Fault
    /\ broker = "up"
    /\ broker' = "down"
    /\ alarm' \in {alarm, NothingPublished}
    /\ client' = IF client = "live" THEN "silent" ELSE client
    /\ UNCHANGED <<pc, stop, locals, consumer, row, db, shown, wiped>>

BrokerStarts ==
    /\ broker = "down"
    /\ broker' = "up"
    /\ UNCHANGED <<pc, stop, locals, links, row, db, alarm, shown, wiped, faults>>

DbStops ==
    /\ Fault
    /\ db = "up"
    /\ db' = "down"
    /\ UNCHANGED <<pc, stop, locals, links, row, broker, alarm, shown, wiped>>

DbStarts ==
    /\ db = "down"
    /\ db' = "up"
    /\ UNCHANGED <<pc, stop, locals, links, row, broker, alarm, shown, wiped, faults>>

WipeRow ==
    /\ Fault
    /\ db = "up"
    /\ row.exists
    /\ row' = NoRow /\ wiped' = TRUE
    /\ UNCHANGED <<pc, stop, locals, links, db, broker, alarm, shown>>

-----------------------------------------------------------------------------
Step ==
    \/ WaitForDb \/ Load \/ Connect \/ Subscribe
    \/ BeginTick \/ Persist \/ PersistFails \/ Emit \/ EmitFails
    \/ PublishReadings \/ (\E m \in Metrics : PublishAlarm(m)) \/ EndPublish \/ Sleep
    \/ CancelInHandler \/ Disconnect \/ Finally

Environment ==
    \/ Notice \/ ConsumerEnds
    \/ RequestStop \/ Kill \/ Restart
    \/ DropConnection \/ BrokerStops \/ BrokerStarts \/ DbStops \/ DbStarts \/ WipeRow

Next == Step \/ Environment

Spec == Init /\ [][Next]_vars

\* The event loop keeps running the process, and a database call or a socket
\* operation returns or raises.
FairSpec == Spec /\ WF_vars(Step)

-----------------------------------------------------------------------------
(* Properties *)

\* Readings are published only after their snapshot is committed, so that a
\* process that resumes never starts behind what clients have been shown.
PublishedIsDurable == ~wiped => shown = 0 \/ (row.exists /\ shown <= row.tick)

\* From one snapshot to the next, across failed ticks, kills and restarts, the
\* tick grows and the plant is integrated by one step at most: no step is lost
\* and none is applied twice on top of itself.
SnapshotAdvances ==
    [][row.exists /\ row' # row /\ ~wiped' =>
        /\ row'.tick > row.tick \/ row'.tick = MaxTicks
        /\ row'.state \in {row.state, Later(row.state)}]_vars

\* On a connection that is up, a retained alarm shows the level last_levels
\* remembers, so that suppressing an unchanged level never leaves a stale one.
AlarmsAgree ==
    client = "live" =>
        \A m \in Metrics :
            IF pc = "alarms" THEN m \in pending \/ alarm[m] = levels[m]
            ELSE lastLevels[m] = Unknown \/ alarm[m] = lastLevels[m]

\* A level that persists while database and connection are up reaches the
\* retained topic and stays there, also after an outage that cost messages.
AlarmReachesBroker ==
    \A m \in Metrics, l \in Levels :
        <>[](client = "live" /\ db = "up" /\ levels[m] = l) => <>[](alarm[m] = l)

\* SIGTERM ends the process, wherever it arrives.
StopEnds == stop /\ pc \notin Halted ~> pc \in Halted

\* "MQTT publish failed; reconnecting" (simulator.py:269): once in the handler
\* the process goes on to reconnect, as tests/unit/test_simulator.py:361 has it.
HandlerReconnects == [][pc = "handler" /\ pc' \notin {"handler", "crashed"} => pc' = "disconnect"]_vars
=============================================================================
