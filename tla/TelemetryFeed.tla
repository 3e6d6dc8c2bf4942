----------------------------- MODULE TelemetryFeed -----------------------------
(***************************************************************************)
(* The API process around /ws/telemetry (src/app/routes/telemetry.py): one *)
(* event loop, a few worker threads and one connection pool, shared by the *)
(* telemetry streams and all other requests, beside the simulator process  *)
(* that writes the snapshot the streams read.                              *)
(*                                                                         *)
(* A session takes its connection from the pool with its first query and   *)
(* gives it back at commit or close.  The queries are synchronous, so one  *)
(* that waits for the pool inside an "async def" keeps the event loop.     *)
(***************************************************************************)
EXTENDS Naturals, FiniteSets

CONSTANTS
    Streams,        \* clients of /ws/telemetry
    LoopCalls,      \* requests whose handler is an "async def"
    ThreadCalls,    \* requests whose handler is a plain "def"
    Capacity,       \* connections the pool may open
    Idle,           \* the event loop runs no handler
    MaxQueries,     \* bound: separate uses of the session in one request
    MaxTicks,       \* bound: later snapshots are counted as this one
    MaxFaults       \* bound: failing queries and deleted rows in a behaviour

Calls == LoopCalls \cup ThreadCalls
OnLoop == Streams \cup LoopCalls
Handlers == Streams \cup Calls

ASSUME HandlersAssumption ==
    /\ IsFiniteSet(Handlers) /\ Idle \notin Handlers
    /\ Streams \cap Calls = {} /\ LoopCalls \cap ThreadCalls = {}
ASSUME BoundsAssumption ==
    Capacity \in Nat \ {0} /\ MaxQueries \in Nat \ {0} /\ MaxTicks \in Nat \ {0} /\ MaxFaults \in Nat

VARIABLES
    stage,      \* where each handler is
    loop,       \* the handler the event loop is running
    held,       \* handlers whose session has a connection
    queries,    \* earlier uses of the session by a request
    accepted,   \* streams past the handshake
    gone,       \* streams whose client has left
    row,        \* tick of the plant_states row, 0 when there is none
    read,       \* snapshot a stream is about to send
    shown,      \* snapshot a stream's client got last
    floor,      \* history: the row's tick when it got it
    faults

stream == <<accepted, gone, read, shown, floor>>
outside == <<row, faults>>
vars == <<stage, loop, held, queries, stream, outside>>

TypeOK ==
    /\ stage \in [Handlers -> {"none", "arriving", "checkout", "query", "sending", "awaiting",
                               "closing", "releasing"}]
    /\ loop \in OnLoop \cup {Idle}
    /\ held \subseteq Handlers /\ Cardinality(held) <= Capacity
    /\ queries \in [Calls -> 0..MaxQueries - 1]
    /\ accepted \subseteq Streams /\ gone \subseteq Streams
    /\ row \in 0..MaxTicks
    /\ read \in [Streams -> 0..MaxTicks] /\ shown \in [Streams -> 0..MaxTicks]
    /\ floor \in [Streams -> 0..MaxTicks]
    /\ faults \in 0..MaxFaults

Zero == [s \in Streams |-> 0]

Init ==
    /\ stage = [h \in Handlers |-> "none"] /\ loop = Idle /\ held = {}
    /\ queries = [c \in Calls |-> 0] /\ accepted = {} /\ gone = {}
    /\ row \in 0..MaxTicks /\ read = Zero /\ shown = Zero /\ floor = Zero /\ faults = 0

Goes(h, place) == stage' = [stage EXCEPT ![h] = place]
LeavesLoop(h) == loop' = IF loop = h THEN Idle ELSE loop

-----------------------------------------------------------------------------
(* Every handler *)

\* A request or a handshake comes in; get_session makes a session without a
\* connection.
Arrive(h) ==
    /\ stage[h] = "none"
    /\ Goes(h, "arriving")
    /\ UNCHANGED <<loop, held, queries, stream, outside>>

\* The event loop runs the handler up to its next query, or hands a plain
\* "def" to a worker thread.
Resume(h) ==
    /\ loop = Idle
    /\ stage[h] \in {"arriving", "awaiting"}
    /\ Goes(h, "checkout")
    /\ loop' = IF h \in OnLoop THEN h ELSE loop
    /\ UNCHANGED <<held, queries, stream, outside>>

\* JWTBearer or authenticate_websocket refuses the token before any query.
Refuse(h) ==
    /\ loop = Idle
    /\ stage[h] = "arriving"
    /\ Goes(h, "closing")
    /\ UNCHANGED <<loop, held, queries, stream, outside>>

\* Seeded fault: the pool's limit is not looked at.
CheckOutAnyway(h) ==
    /\ stage[h] = "checkout"
    /\ held' = held \cup {h}
    /\ Goes(h, "query")
    /\ UNCHANGED <<loop, queries, stream, outside>>

\* The query runs on the session's connection, or on one from the pool.
CheckOut(h) ==
    /\ stage[h] = "checkout"
    /\ h \in held \/ Cardinality(held) < Capacity
    /\ held' = held \cup {h}
    /\ Goes(h, "query")
    /\ UNCHANGED <<loop, queries, stream, outside>>

\* Seeded fault: the wait for the pool has no end.
NeverTimesOut(h) == FALSE /\ UNCHANGED vars

\* The pool stays empty for its 30 seconds and the query raises.
TimesOut(h) ==
    /\ stage[h] = "checkout"
    /\ h \notin held /\ Cardinality(held) >= Capacity
    /\ Goes(h, "closing")
    /\ LeavesLoop(h)
    /\ UNCHANGED <<held, queries, stream, outside>>

\* The database raises, which ends the handler; CRUDBase rolls back what it was
\* writing, and that gives the connection back.
QueryFails(h) ==
    /\ stage[h] = "query"
    /\ faults < MaxFaults /\ faults' = faults + 1
    /\ held' = held \/ (h \in Calls /\ held' = held \ {h})
    /\ Goes(h, "closing")
    /\ LeavesLoop(h)
    /\ UNCHANGED <<queries, stream, row>>

\* The handler is left, and the event loop has a worker thread leave the
\* "with" of get_session.
Unwind(h) ==
    /\ loop = Idle
    /\ stage[h] = "closing"
    /\ Goes(h, "releasing")
    /\ UNCHANGED <<loop, held, queries, stream, outside>>

Forgets(h) ==
    /\ queries' = [c \in Calls |-> IF c = h THEN 0 ELSE queries[c]]
    /\ accepted' = accepted \ {h} /\ gone' = gone \ {h}
    /\ read' = [s \in Streams |-> IF s = h THEN 0 ELSE read[s]]
    /\ shown' = [s \in Streams |-> IF s = h THEN 0 ELSE shown[s]]
    /\ floor' = [s \in Streams |-> IF s = h THEN 0 ELSE floor[s]]

\* The session is closed and with it the handler is over.
Release(h) ==
    /\ stage[h] = "releasing"
    /\ held' = held \ {h}
    /\ Goes(h, "none")
    /\ Forgets(h)
    /\ UNCHANGED <<loop, outside>>

-----------------------------------------------------------------------------
(* Requests *)

\* A request has used its session: it returns, awaits something with the
\* connection in hand, or commits and goes on at once with a fresh one, as
\* CRUDBase does to refresh the object it has written.
Work(c) ==
    /\ stage[c] = "query"
    /\ \/ Goes(c, "closing") /\ LeavesLoop(c) /\ held' \in {held, held \ {c}} /\ queries' = queries
       \/ /\ queries[c] + 1 < MaxQueries
          /\ queries' = [queries EXCEPT ![c] = @ + 1]
          /\ \/ c \in LoopCalls /\ Goes(c, "awaiting") /\ LeavesLoop(c) /\ held' = held
             \/ Goes(c, "checkout") /\ held' = held \ {c} /\ loop' = loop
    /\ UNCHANGED <<stream, outside>>

-----------------------------------------------------------------------------
(* Streams *)

\* authenticate_websocket: the user exists and the socket is accepted, or not.
Authenticate(s) ==
    /\ stage[s] = "query" /\ s \notin accepted
    /\ \/ Goes(s, "awaiting") /\ accepted' = accepted \cup {s}
       \/ Goes(s, "closing") /\ accepted' = accepted
    /\ LeavesLoop(s)
    /\ UNCHANGED <<held, queries, gone, read, shown, floor, outside>>

\* Seeded fault: the session answers with the object it has loaded before.
ReadLoaded(s) ==
    /\ stage[s] = "query" /\ s \in accepted
    /\ read' = [read EXCEPT ![s] = IF @ = 0 THEN row ELSE @]
    /\ Goes(s, "sending")
    /\ LeavesLoop(s)
    /\ UNCHANGED <<held, queries, accepted, gone, shown, floor, outside>>

\* get_reactor_metrics: the latest row, or the base metrics without one.  The
\* connection stays with the session.
Read(s) ==
    /\ stage[s] = "query" /\ s \in accepted
    /\ read' = [read EXCEPT ![s] = row]
    /\ Goes(s, "sending")
    /\ LeavesLoop(s)
    /\ UNCHANGED <<held, queries, accepted, gone, shown, floor, outside>>

\* Seeded fault: the loop goes on when the client has left.
SendRegardless(s) ==
    /\ loop = Idle
    /\ stage[s] = "sending"
    /\ Goes(s, "awaiting")
    /\ shown' = [shown EXCEPT ![s] = read[s]] /\ floor' = [floor EXCEPT ![s] = row]
    /\ UNCHANGED <<loop, held, queries, accepted, gone, read, outside>>

\* send_json, and asyncio.sleep; a client that has left raises
\* WebSocketDisconnect.
Send(s) ==
    /\ loop = Idle
    /\ stage[s] = "sending"
    /\ IF s \in gone THEN Goes(s, "closing") /\ UNCHANGED <<shown, floor>>
       ELSE /\ Goes(s, "awaiting")
            /\ shown' = [shown EXCEPT ![s] = read[s]] /\ floor' = [floor EXCEPT ![s] = row]
    /\ UNCHANGED <<loop, held, queries, accepted, gone, read, outside>>

ClientLeaves(s) ==
    /\ s \in accepted /\ s \notin gone
    /\ gone' = gone \cup {s}
    /\ UNCHANGED <<stage, loop, held, queries, accepted, read, shown, floor, outside>>

-----------------------------------------------------------------------------
(* The simulator process *)

\* _persist commits a tick, which every later query sees.
Persist ==
    /\ row < MaxTicks
    /\ row' = row + 1
    /\ UNCHANGED <<stage, loop, held, queries, stream, faults>>

\* Someone deletes the row.
Wipe ==
    /\ row # 0
    /\ faults < MaxFaults /\ faults' = faults + 1
    /\ row' = 0 /\ floor' = Zero
    /\ UNCHANGED <<stage, loop, held, queries, accepted, gone, read, shown>>

-----------------------------------------------------------------------------
Dispatch(h) == Resume(h) \/ Unwind(h) \/ (h \in Streams /\ Send(h))

Run(h) ==
    \/ CheckOut(h) \/ TimesOut(h) \/ Release(h)
    \/ h \in Calls /\ Work(h)
    \/ h \in Streams /\ (Authenticate(h) \/ Read(h))

Next ==
    \/ \E h \in Handlers : Arrive(h) \/ Dispatch(h) \/ Refuse(h) \/ Run(h) \/ QueryFails(h)
    \/ \E s \in Streams : ClientLeaves(s)
    \/ Persist \/ Wipe

Spec == Init /\ [][Next]_vars

\* The event loop takes the handlers that are ready first come, first served;
\* a handler or a thread that runs goes on, and a wait for the pool ends.
FairSpec ==
    /\ Spec
    /\ \A h \in Handlers : SF_vars(Dispatch(h)) /\ WF_vars(Run(h))

-----------------------------------------------------------------------------
(* Properties *)

\* What a stream sends is at most one period old: never a snapshot older than
\* the row was when it sent the one before.
AtMostOneLate ==
    [][\A s \in Streams : stage[s] = "sending" /\ stage'[s] = "awaiting" => shown'[s] >= floor[s]]_vars

\* A client that stays gets the snapshot that stays, however often requests
\* block the event loop in the pool.
FeedFollows ==
    \A s \in Streams, t \in 0..MaxTicks :
        <>[](s \in accepted /\ s \notin gone /\ row = t) => <>[](shown[s] = t)

\* Every request ends, also when the pool is empty, the event loop waits for
\* it, and what would refill it waits for the event loop.
EveryCallEnds == \A c \in Calls : stage[c] # "none" ~> stage[c] = "none"

\* The connection of a stream whose client has left comes back.
LeaversGiveBack == \A s \in Streams : s \in gone ~> s \notin held
=============================================================================
