---------------------------- MODULE SimulatorProofs ----------------------------
(***************************************************************************)
(* Proofs about Simulator for any metrics, alarm levels and numbers of     *)
(* ticks and faults.                                                       *)
(***************************************************************************)
EXTENDS Simulator, TLAPS

LEMMA LaterTyped == ASSUME NEW n \in 0..MaxTicks PROVE Later(n) \in 0..MaxTicks
BY BoundsAssumption DEF Later

LEMMA LaterGrows ==
    ASSUME NEW n \in 0..MaxTicks
    PROVE  n <= Later(n) /\ (n < Later(n) \/ Later(n) = MaxTicks)
BY BoundsAssumption DEF Later

\* A row that exists has a tick and a state within the bound.
LEMMA RowTyped ==
    ASSUME NEW r \in Row \cup {NoRow}, r.exists
    PROVE  r \in Row /\ r.tick \in 0..MaxTicks /\ r.state \in 0..MaxTicks
<1>1. r # NoRow
  <2>1. NoRow.exists = FALSE
    BY DEF NoRow
  <2> QED
    BY <2>1
<1>2. r \in Row
  BY <1>1
<1> QED
  BY <1>2 DEF Row

LEMMA WrittenRow ==
    ASSUME NEW t \in 0..MaxTicks, NEW s \in 0..MaxTicks
    PROVE  LET r == [exists |-> TRUE, tick |-> t, state |-> s]
           IN  r \in Row \cup {NoRow} /\ r.exists /\ r.tick = t /\ r.state = s
BY DEF Row

-----------------------------------------------------------------------------
(* Type correctness *)

\* Every variable keeps its type through ticks, failures and restarts.
THEOREM TypeCorrect == Spec => []TypeOK
<1> USE BoundsAssumption, LevelsAssumption DEF TypeOK, Points, Halted, NothingPublished
<1>1. Init => TypeOK
  <2> SUFFICES ASSUME Init PROVE TypeOK
    OBVIOUS
  <2>1. pc \in Points \cup Halted /\ stop \in BOOLEAN /\ failing \in BOOLEAN /\ wiped \in BOOLEAN
    BY DEF Init
  <2>2. tick \in 0..MaxTicks /\ state \in 0..MaxTicks /\ next \in 0..MaxTicks /\ shown \in 0..MaxTicks
    BY DEF Init
  <2>3. /\ levels \in [Metrics -> Levels] /\ lastLevels \in [Metrics -> Levels \cup {Unknown}]
        /\ pending \subseteq Metrics /\ alarm \in [Metrics -> Levels \cup {Unknown}]
    BY DEF Init
  <2>4. client = "none" /\ consumer = "none" /\ row = NoRow
        /\ db \in {"up", "down"} /\ broker \in {"up", "down"} /\ faults \in Nat
    BY DEF Init
  <2> QED
    BY <2>1, <2>2, <2>3, <2>4
<1>2. TypeOK /\ [Next]_vars => TypeOK'
  <2> SUFFICES ASSUME TypeOK, [Next]_vars PROVE TypeOK'
    OBVIOUS
  <2> USE DEF locals, links, outside
  <2>1. CASE WaitForDb
    BY <2>1 DEF WaitForDb
  <2>2. CASE Load
    <3>1. CASE row.exists /\ tick' = row.tick /\ state' = row.state /\ row' = row /\ pc' = "connect"
      BY <2>2, <3>1, RowTyped DEF Load
    <3>2. CASE row' = [exists |-> TRUE, tick |-> 0, state |-> 0] /\ tick' = 0 /\ state' = 0 /\ pc' = "connect"
      BY <2>2, <3>2, WrittenRow DEF Load
    <3>3. CASE pc' = "crashed" /\ UNCHANGED <<tick, state, row>>
      BY <2>2, <3>3 DEF Load
    <3> QED
      BY <2>2, <3>1, <3>2, <3>3 DEF Load
  <2>3. CASE Connect
    BY <2>3 DEF Connect
  <2>4. CASE Subscribe
    BY <2>4 DEF Subscribe
  <2>5. CASE BeginTick
    BY <2>5, LaterTyped DEF BeginTick
  <2>6. CASE Persist
    BY <2>6, WrittenRow DEF Persist, WriteRow
  <2>7. CASE PersistFails
    <3>1. pc' = "sleep" /\ faults' \in Nat
      BY <2>7 DEF PersistFails
    <3>2. row' \in Row \cup {NoRow}
      <4>1. row' = row \/ row' = [exists |-> TRUE, tick |-> tick, state |-> next]
        BY <2>7 DEF PersistFails, WriteRow
      <4> QED
        BY <4>1, WrittenRow
    <3>3. UNCHANGED <<stop, locals, links, db, broker, alarm, shown, wiped>>
      BY <2>7 DEF PersistFails
    <3> QED
      BY <3>1, <3>2, <3>3
  <2>8. CASE Emit
    BY <2>8 DEF Emit
  <2>9. CASE EmitFails
    BY <2>9 DEF EmitFails
  <2>10. CASE PublishReadings
    BY <2>10 DEF PublishReadings
  <2>11. ASSUME NEW m \in Metrics, PublishAlarm(m) PROVE TypeOK'
    BY <2>11 DEF PublishAlarm
  <2>12. CASE EndPublish
    BY <2>12 DEF EndPublish
  <2>13. CASE Sleep
    BY <2>13 DEF Sleep
  <2>14. CASE CancelInHandler
    BY <2>14 DEF CancelInHandler
  <2>15. CASE Disconnect
    BY <2>15 DEF Disconnect
  <2>16. CASE Finally
    BY <2>16 DEF Finally
  <2>17. CASE Notice \/ ConsumerEnds
    BY <2>17 DEF Notice, ConsumerEnds
  <2>18. CASE RequestStop \/ Kill
    <3>1. /\ stop' \in BOOLEAN /\ pc' \in {pc, "crashed"} /\ client' \in {client, "none"}
          /\ consumer' \in {consumer, "none"} /\ faults' = faults + 1
      BY <2>18 DEF RequestStop, Kill, Fault
    <3>2. UNCHANGED <<locals, row, db, broker, alarm, shown, wiped>>
      BY <2>18 DEF RequestStop, Kill
    <3> QED
      BY <3>1, <3>2
  <2>19. CASE Restart
    <3>1. /\ pc' = "wait_db" /\ stop' \in BOOLEAN /\ failing' \in BOOLEAN
          /\ tick' = 0 /\ state' = 0 /\ next' = 0 /\ pending' = {} /\ lastLevels' = NothingPublished
      BY <2>19 DEF Restart
    <3>2. UNCHANGED <<levels, links, outside>>
      BY <2>19 DEF Restart
    <3> QED
      BY <3>1, <3>2
  <2>20. CASE DropConnection \/ BrokerStops \/ BrokerStarts
    BY <2>20 DEF DropConnection, BrokerStops, BrokerStarts, Fault
  <2>21. CASE DbStops \/ DbStarts
    BY <2>21 DEF DbStops, DbStarts, Fault
  <2>22. CASE WipeRow
    BY <2>22 DEF WipeRow, Fault
  <2>23. CASE UNCHANGED vars
    BY <2>23 DEF vars
  <2> QED
    BY <2>1, <2>2, <2>3, <2>4, <2>5, <2>6, <2>7, <2>8, <2>9, <2>10, <2>11, <2>12, <2>13, <2>14, <2>15, <2>16,
       <2>17, <2>18, <2>19, <2>20, <2>21, <2>22, <2>23 DEF Next, Step, Environment
<1> QED
  BY <1>1, <1>2, PTL DEF Spec

-----------------------------------------------------------------------------
(* The snapshot *)

\* Points at which the process holds a state it has loaded.
Loaded == Points \ {"wait_db", "load"}

\* Inductive: the process is never behind its snapshot in ticks and at most one
\* integration step behind it, which the next tick takes again; between the
\* commit and the publication the snapshot is the tick being published.
SnapshotInv ==
    ~wiped =>
        /\ shown = 0 \/ (row.exists /\ shown <= row.tick)
        /\ pc \in Loaded => row.exists /\ row.tick <= tick /\ row.state \in {state, Later(state)}
        /\ pc \in {"persist", "emit"} => next = Later(state)
        /\ pc = "persist" => row.tick < tick \/ tick = MaxTicks
        /\ pc = "emit" => row.tick = tick /\ row.state = next
        /\ pc = "publish" => row.tick = tick

\* Wherever SnapshotInv's variables stay and the process goes somewhere it asks
\* no more of, it holds on.
LEMMA SnapshotKept ==
    ASSUME SnapshotInv,
           UNCHANGED <<row, shown, wiped, tick, state, next>>,
           pc' = pc \/ pc' \notin {"persist", "emit", "publish"},
           pc \in Loaded \/ pc' \notin Loaded
    PROVE  SnapshotInv'
BY DEF SnapshotInv, Later

LEMMA SnapshotInvariant == Spec => []SnapshotInv
<1>1. Init => SnapshotInv
  BY DEF Init, SnapshotInv, Loaded
<1>2. TypeOK /\ SnapshotInv /\ [Next]_vars => SnapshotInv'
  <2> SUFFICES ASSUME TypeOK, SnapshotInv, [Next]_vars PROVE SnapshotInv'
    OBVIOUS
  <2>t. /\ tick \in 0..MaxTicks /\ state \in 0..MaxTicks /\ next \in 0..MaxTicks /\ shown \in 0..MaxTicks
        /\ row \in Row \cup {NoRow}
    BY DEF TypeOK
  <2> USE DEF locals, links, outside
  <2>1. CASE Load
    <3>1. CASE row.exists /\ tick' = row.tick /\ state' = row.state /\ row' = row /\ pc' = "connect"
      BY <2>t, <2>1, <3>1, RowTyped DEF Load, SnapshotInv
    <3>2. CASE /\ ~row.exists /\ row' = [exists |-> TRUE, tick |-> 0, state |-> 0]
               /\ tick' = 0 /\ state' = 0 /\ pc' = "connect"
      <4>1. row'.exists /\ row'.tick = 0 /\ row'.state = 0
        BY <3>2
      <4> QED
        BY <2>t, <2>1, <3>2, <4>1 DEF Load, SnapshotInv
    <3>3. CASE pc' = "crashed" /\ UNCHANGED <<tick, state, row>>
      BY <2>1, <3>3 DEF Load, SnapshotInv, Loaded, Points
    <3> QED
      BY <2>1, <3>1, <3>2, <3>3 DEF Load
  <2>2. CASE BeginTick
    <3>1. CASE stop
      BY <2>2, <3>1, SnapshotKept DEF BeginTick, Loaded, Points
    <3>2. CASE ~stop
      <4>1. pc = "loop" /\ pc' = "persist" /\ tick' = Later(tick) /\ next' = Later(state)
            /\ UNCHANGED <<row, shown, wiped, state>>
        BY <2>2, <3>2 DEF BeginTick
      <4>2. ASSUME ~wiped PROVE row.exists /\ row.tick <= tick /\ row.state \in {state, Later(state)}
        BY <4>1, <4>2 DEF SnapshotInv, Loaded, Points
      <4>3. Later(state)' = Later(state)
        BY <4>1 DEF Later
      <4>4. ASSUME ~wiped PROVE row.tick <= Later(tick) /\ (row.tick < Later(tick) \/ Later(tick) = MaxTicks)
        BY <2>t, <4>2, <4>4, RowTyped, LaterGrows, LaterTyped, BoundsAssumption
      <4> QED
        BY <4>1, <4>2, <4>3, <4>4 DEF SnapshotInv
    <3> QED
      BY <3>1, <3>2
  <2>3. ASSUME pc = "persist", WriteRow, UNCHANGED <<tick, state, next, shown, wiped>>, pc' \in {"emit", "sleep"}
        PROVE  SnapshotInv'
    <3>1. row'.exists /\ row'.tick = tick /\ row'.state = next
      BY <2>3 DEF WriteRow
    <3>2. ASSUME ~wiped PROVE next = Later(state) /\ shown <= tick
      BY <2>t, <2>3, <3>2, RowTyped, BoundsAssumption DEF SnapshotInv, Loaded, Points
    <3>3. Later(state)' = Later(state)
      BY <2>3 DEF Later
    <3> QED
      BY <2>t, <2>3, <3>1, <3>2, <3>3 DEF SnapshotInv
  <2>4. CASE Persist
    BY <2>3, <2>4 DEF Persist
  <2>5. CASE PersistFails
    <3>1. CASE row' = row
      BY <2>5, <3>1, SnapshotKept DEF PersistFails, Loaded, Points
    <3>2. CASE WriteRow
      BY <2>3, <2>5, <3>2 DEF PersistFails
    <3> QED
      BY <2>5, <3>1, <3>2 DEF PersistFails
  <2>6. CASE Emit
    BY <2>6 DEF Emit, SnapshotInv, Loaded, Points
  <2>7. CASE PublishReadings
    <3>1. shown' \in {shown, tick} /\ pc = "publish" /\ pc' \in {"handler", "alarms"}
          /\ UNCHANGED <<row, tick, state, next, wiped>>
      BY <2>7 DEF PublishReadings
    <3>2. ASSUME ~wiped PROVE row.exists /\ row.tick = tick /\ row.state \in {state, Later(state)}
      BY <3>1, <3>2 DEF SnapshotInv, Loaded, Points
    <3>3. Later(state)' = Later(state)
      BY <3>1 DEF Later
    <3> QED
      BY <2>t, <3>1, <3>2, <3>3 DEF SnapshotInv
  <2>8. CASE WipeRow
    BY <2>8 DEF WipeRow, SnapshotInv
  <2>9. CASE Restart
    BY <2>9 DEF Restart, SnapshotInv, Loaded
  <2>10. CASE Kill
    BY <2>10, SnapshotKept DEF Kill, Fault, Loaded, Points
  <2>11. CASE Connect \/ Subscribe
    BY <2>11, SnapshotKept DEF Connect, Subscribe, Loaded, Points
  <2>12. CASE WaitForDb
    BY <2>12, SnapshotKept DEF WaitForDb, Loaded, Points
  <2>13. CASE EmitFails \/ EndPublish \/ Sleep \/ (\E m \in Metrics : PublishAlarm(m))
    BY <2>13, SnapshotKept DEF EmitFails, EndPublish, Sleep, PublishAlarm, Loaded, Points
  <2>14. CASE CancelInHandler \/ Disconnect \/ Finally
    BY <2>14, SnapshotKept DEF CancelInHandler, Disconnect, Finally, Loaded, Points
  <2>15. CASE Notice \/ ConsumerEnds \/ RequestStop \/ DropConnection
    BY <2>15, SnapshotKept DEF Notice, ConsumerEnds, RequestStop, DropConnection, Fault
  <2>16. CASE BrokerStops \/ BrokerStarts \/ DbStops \/ DbStarts
    BY <2>16, SnapshotKept DEF BrokerStops, BrokerStarts, DbStops, DbStarts, Fault
  <2>17. CASE UNCHANGED vars
    BY <2>17, SnapshotKept DEF vars
  <2> QED
    BY <2>1, <2>2, <2>4, <2>5, <2>6, <2>7, <2>8, <2>9, <2>10, <2>11, <2>12, <2>13, <2>14, <2>15, <2>16, <2>17
    DEF Next, Step, Environment
<1> QED
  BY <1>1, <1>2, TypeCorrect, PTL DEF Spec

\* Clients have been shown nothing that the next start will not have.
THEOREM Durable == Spec => []PublishedIsDurable
<1>1. SnapshotInv => PublishedIsDurable
  BY DEF SnapshotInv, PublishedIsDurable
<1> QED
  BY <1>1, SnapshotInvariant, PTL

\* The snapshot moves forward, by one integration step at most.
THEOREM Advances == Spec => SnapshotAdvances
<1>1. ASSUME TypeOK, SnapshotInv, [Next]_vars
      PROVE  row.exists /\ row' # row /\ ~wiped' =>
                 /\ row'.tick > row.tick \/ row'.tick = MaxTicks
                 /\ row'.state \in {row.state, Later(row.state)}
  <2> SUFFICES ASSUME row.exists, row' # row, ~wiped'
               PROVE  /\ row'.tick > row.tick \/ row'.tick = MaxTicks
                      /\ row'.state \in {row.state, Later(row.state)}
    OBVIOUS
  <2> USE DEF locals, links, outside
  <2>1. pc = "persist" /\ WriteRow /\ wiped' = wiped
    <3>1. ~Load /\ ~WipeRow
      BY <1>1 DEF Load, WipeRow
    <3>2. Persist \/ PersistFails
      BY <1>1, <3>1 DEF Next, Step, Environment, vars, Fault, WaitForDb, Connect, Subscribe, BeginTick, Emit,
         EmitFails, PublishReadings, PublishAlarm, EndPublish, Sleep, CancelInHandler, Disconnect, Finally,
         Notice, ConsumerEnds, RequestStop, Kill, Restart, DropConnection, BrokerStops, BrokerStarts, DbStops,
         DbStarts
    <3> QED
      BY <3>2 DEF Persist, PersistFails
  <2>2. /\ row.tick < tick \/ tick = MaxTicks
        /\ next = Later(state) /\ row.state \in {state, Later(state)}
    BY <1>1, <2>1 DEF SnapshotInv, Loaded, Points
  <2>3. row'.tick = tick /\ row'.state = next
    BY <2>1 DEF WriteRow
  <2>4. row.tick \in Nat /\ tick \in Nat
    BY <1>1, RowTyped, BoundsAssumption DEF TypeOK
  <2> QED
    BY <2>2, <2>3, <2>4
<1> QED
  BY <1>1, TypeCorrect, SnapshotInvariant, PTL DEF Spec, SnapshotAdvances

-----------------------------------------------------------------------------
(* Alarms *)

\* Inductive: a connection is only ever made with an empty table of levels.
AlarmInv ==
    /\ pc \in {"wait_db", "load", "connect", "reconnect"} => lastLevels = NothingPublished
    /\ AlarmsAgree

\* Wherever the alarms, their table and the process's part of the loop stay and
\* no connection is made, it holds on.
LEMMA AlarmKept ==
    ASSUME AlarmInv,
           UNCHANGED <<levels, lastLevels, pending, alarm>>,
           client' = client \/ client' # "live",
           (pc = "alarms") <=> (pc' = "alarms"),
           \/ pc' \notin {"wait_db", "load", "connect", "reconnect"}
           \/ pc \in {"wait_db", "load", "connect", "reconnect"}
    PROVE  AlarmInv'
BY DEF AlarmInv, AlarmsAgree, NothingPublished

LEMMA AlarmInvariant == Spec => []AlarmInv
<1>1. Init => AlarmInv
  BY DEF Init, AlarmInv, AlarmsAgree
<1>2. TypeOK /\ AlarmInv /\ [Next]_vars => AlarmInv'
  <2> SUFFICES ASSUME TypeOK, AlarmInv, [Next]_vars PROVE AlarmInv'
    OBVIOUS
  <2>t. /\ levels \in [Metrics -> Levels] /\ lastLevels \in [Metrics -> Levels \cup {Unknown}]
        /\ alarm \in [Metrics -> Levels \cup {Unknown}] /\ pending \subseteq Metrics
    BY DEF TypeOK
  <2> USE DEF locals, links, outside
  <2>1. CASE Connect
    BY <2>1 DEF Connect, AlarmInv, AlarmsAgree, NothingPublished
  <2>2. CASE Emit
    BY <2>2 DEF Emit, AlarmInv, AlarmsAgree
  <2>3. CASE PublishReadings
    <3>1. CASE client = "dead"
      BY <2>3, <3>1 DEF PublishReadings, AlarmInv, AlarmsAgree
    <3>2. CASE client # "dead"
      <4>1. /\ pc = "publish" /\ pc' = "alarms" /\ pending' = {m \in Metrics : lastLevels[m] # levels[m]}
            /\ UNCHANGED <<levels, alarm, client>>
        BY <2>3, <3>2 DEF PublishReadings
      <4>2. ASSUME client = "live", NEW m \in Metrics, m \notin pending' PROVE alarm[m] = levels[m]
        BY <2>t, <4>1, <4>2, LevelsAssumption DEF AlarmInv, AlarmsAgree
      <4> QED
        BY <4>1, <4>2 DEF AlarmInv, AlarmsAgree
    <3> QED
      BY <3>1, <3>2
  <2>4. ASSUME NEW m \in Metrics, PublishAlarm(m) PROVE AlarmInv'
    BY <2>t, <2>4 DEF PublishAlarm, AlarmInv, AlarmsAgree
  <2>5. CASE EndPublish
    BY <2>5 DEF EndPublish, AlarmInv, AlarmsAgree
  <2>6. CASE Disconnect
    BY <2>6 DEF Disconnect, AlarmInv, AlarmsAgree
  <2>7. CASE Restart
    BY <2>7 DEF Restart, AlarmInv, AlarmsAgree, NothingPublished
  <2>8. CASE Kill
    BY <2>8 DEF Kill, AlarmInv, AlarmsAgree, Halted
  <2>9. CASE BrokerStops
    BY <2>9 DEF BrokerStops, AlarmInv, AlarmsAgree
  <2>10. CASE WaitForDb \/ Load
    BY <2>10, AlarmKept DEF WaitForDb, Load
  <2>11. CASE Subscribe \/ BeginTick \/ Sleep
    BY <2>11, AlarmKept DEF Subscribe, BeginTick, Sleep
  <2>12. CASE Persist \/ PersistFails \/ EmitFails
    BY <2>12, AlarmKept DEF Persist, PersistFails, EmitFails
  <2>13. CASE CancelInHandler \/ Finally
    BY <2>13, AlarmKept DEF CancelInHandler, Finally
  <2>14. CASE Notice \/ ConsumerEnds \/ RequestStop \/ DropConnection
    BY <2>14, AlarmKept DEF Notice, ConsumerEnds, RequestStop, DropConnection, Fault
  <2>15. CASE BrokerStarts \/ DbStops \/ DbStarts \/ WipeRow
    BY <2>15, AlarmKept DEF BrokerStarts, DbStops, DbStarts, WipeRow, Fault
  <2>16. CASE UNCHANGED vars
    BY <2>16, AlarmKept DEF vars
  <2> QED
    BY <2>1, <2>2, <2>3, <2>4, <2>5, <2>6, <2>7, <2>8, <2>9, <2>10, <2>11, <2>12, <2>13, <2>14, <2>15, <2>16
    DEF Next, Step, Environment
<1> QED
  BY <1>1, <1>2, TypeCorrect, PTL DEF Spec

\* Suppressing an unchanged level never leaves a stale one with the broker.
THEOREM Agree == Spec => []AlarmsAgree
<1>1. AlarmInv => AlarmsAgree
  BY DEF AlarmInv
<1> QED
  BY <1>1, AlarmInvariant, PTL
=============================================================================
