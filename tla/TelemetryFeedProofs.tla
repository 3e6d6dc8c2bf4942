-------------------------- MODULE TelemetryFeedProofs --------------------------
(* Theorems about TelemetryFeed for every number of streams, requests and       *)
(* connections.                                                                 *)
EXTENDS TelemetryFeed, FiniteSetTheorems, TLAPS

-----------------------------------------------------------------------------
\* Taking a connection while there is room keeps the pool within its capacity,
\* and giving one back does.
LEMMA OneMore ==
    ASSUME NEW S, IsFiniteSet(S), NEW h, h \in S \/ Cardinality(S) < Capacity,
           Cardinality(S) <= Capacity
    PROVE  Cardinality(S \cup {h}) <= Capacity
<1>1. Cardinality(S) \in Nat
  BY FS_CardinalityType
<1>2. CASE h \in S
  <2>1. S \cup {h} = S
    BY <1>2
  <2> QED
    BY <2>1
<1>3. CASE h \notin S
  <2>1. Cardinality(S \cup {h}) = Cardinality(S) + 1
    BY <1>3, FS_AddElement
  <2> QED
    BY <1>1, <1>3, <2>1, BoundsAssumption
<1> QED
  BY <1>2, <1>3

LEMMA OneLess ==
    ASSUME NEW S, IsFiniteSet(S), NEW h, Cardinality(S) <= Capacity
    PROVE  Cardinality(S \ {h}) <= Capacity
<1>1. Cardinality(S \ {h}) <= Cardinality(S) /\ IsFiniteSet(S \ {h})
  BY FS_Subset
<1>2. Cardinality(S) \in Nat /\ Cardinality(S \ {h}) \in Nat
  BY <1>1, FS_CardinalityType
<1> QED
  BY <1>1, <1>2, BoundsAssumption

LEMMA HeldIsFinite ==
    ASSUME TypeOK
    PROVE  IsFiniteSet(held)
  BY HandlersAssumption, FS_Subset DEF TypeOK

-----------------------------------------------------------------------------
\* The handlers, the event loop, the pool and the streams stay within their
\* types; in particular no more connections are out than the pool may open.
LEMMA TypeInvariant == TypeOK /\ [Next]_vars => TypeOK'
<1> SUFFICES ASSUME TypeOK, [Next]_vars
             PROVE  TypeOK'
  OBVIOUS
<1> USE HandlersAssumption, BoundsAssumption DEF Handlers, OnLoop, Calls
<1>f. IsFiniteSet(held)
  BY HeldIsFinite
<1>1. ASSUME NEW h \in Handlers, Arrive(h) \/ Resume(h) \/ Refuse(h) \/ Unwind(h) \/ TimesOut(h)
      PROVE  TypeOK'
  BY <1>1 DEF Arrive, Resume, Refuse, Unwind, TimesOut, Goes, LeavesLoop, TypeOK, stream, outside
<1>2. ASSUME NEW h \in Handlers, CheckOut(h)
      PROVE  TypeOK'
  <2>1. Cardinality(held') <= Capacity
    BY <1>f, <1>2, OneMore DEF CheckOut, TypeOK
  <2> QED
    BY <1>2, <2>1 DEF CheckOut, Goes, TypeOK, stream, outside
<1>3. ASSUME NEW h \in Handlers, QueryFails(h)
      PROVE  TypeOK'
  <2>1. held' = held \/ held' = held \ {h}
    BY <1>3 DEF QueryFails
  <2>2. Cardinality(held') <= Capacity
    BY <1>f, <2>1, OneLess DEF TypeOK
  <2> QED
    BY <1>3, <2>1, <2>2 DEF QueryFails, Goes, LeavesLoop, TypeOK, stream
<1>4. ASSUME NEW h \in Handlers, Release(h)
      PROVE  TypeOK'
  <2>1. Cardinality(held') <= Capacity
    BY <1>f, <1>4, OneLess DEF Release, TypeOK
  <2> QED
    BY <1>4, <2>1 DEF Release, Forgets, Goes, TypeOK, outside
<1>5. ASSUME NEW c \in Calls, Work(c)
      PROVE  TypeOK'
  <2>1. held' = held \/ held' = held \ {c}
    BY <1>5 DEF Work
  <2>2. Cardinality(held') <= Capacity
    BY <1>f, <2>1, OneLess DEF TypeOK
  <2>3. queries' \in [Calls -> 0..MaxQueries - 1]
    BY <1>5 DEF Work, TypeOK
  <2> QED
    BY <1>5, <2>1, <2>2, <2>3 DEF Work, Goes, LeavesLoop, TypeOK, stream, outside
<1>6. ASSUME NEW s \in Streams, Authenticate(s) \/ Read(s) \/ Send(s) \/ ClientLeaves(s)
      PROVE  TypeOK'
  BY <1>6 DEF Authenticate, Read, Send, ClientLeaves, Goes, LeavesLoop, TypeOK, outside
<1>7. CASE Persist \/ Wipe
  BY <1>7 DEF Persist, Wipe, Zero, TypeOK, stream
<1>8. CASE UNCHANGED vars
  BY <1>8 DEF vars, stream, outside, TypeOK
<1> QED
  BY <1>1, <1>2, <1>3, <1>4, <1>5, <1>6, <1>7, <1>8 DEF Next, Dispatch, Run

\* TypeOK, for any number of streams and requests on a pool of any capacity.
THEOREM TypeCorrect == Spec => []TypeOK
<1>1. Init => TypeOK
  <2>1. Cardinality({}) = 0
    BY FS_EmptySet
  <2> QED
    BY <2>1, HandlersAssumption, BoundsAssumption DEF Init, TypeOK, Zero, Handlers, OnLoop, Calls
<1> QED
  BY <1>1, TypeInvariant, PTL DEF Spec

-----------------------------------------------------------------------------
\* The row does not fall behind what it was when a stream last sent, and what a
\* stream is about to send does not either.
Recent ==
    \A s \in Streams : floor[s] <= row /\ (stage[s] = "sending" => floor[s] <= read[s])

\* AtMostOneLate: a stream never sends a snapshot older than the row was when it
\* sent the one before, whatever other handlers and the simulator do between
\* its read and its send.
THEOREM SentIsRecent == Spec => AtMostOneLate
<1>1. Init => Recent
  BY BoundsAssumption DEF Init, Recent, Zero, Handlers
<1>2. TypeOK /\ Recent /\ [Next]_vars => Recent'
  <2> SUFFICES ASSUME TypeOK, Recent, [Next]_vars, NEW r \in Streams
               PROVE  floor'[r] <= row' /\ (stage'[r] = "sending" => floor'[r] <= read'[r])
    BY DEF Recent
  <2> USE DEF Handlers, OnLoop, Calls
  <2>t. /\ stage \in [Handlers -> {"none", "arriving", "checkout", "query", "sending", "awaiting",
                                   "closing", "releasing"}]
        /\ row \in Nat /\ floor \in [Streams -> Nat] /\ read \in [Streams -> Nat]
    BY BoundsAssumption DEF TypeOK
  <2>1. ASSUME NEW h \in Handlers, Arrive(h) \/ Resume(h) \/ Refuse(h) \/ Unwind(h) \/ TimesOut(h)
                                   \/ CheckOut(h) \/ QueryFails(h)
        PROVE  floor'[r] <= row' /\ (stage'[r] = "sending" => floor'[r] <= read'[r])
    BY <2>1, <2>t DEF Arrive, Resume, Refuse, Unwind, TimesOut, CheckOut, QueryFails, Goes, Recent,
                      stream, outside
  <2>2. ASSUME NEW h \in Handlers, Release(h)
        PROVE  floor'[r] <= row' /\ (stage'[r] = "sending" => floor'[r] <= read'[r])
    BY <2>2, <2>t DEF Release, Forgets, Goes, Recent, outside
  <2>3. ASSUME NEW c \in Calls, Work(c)
        PROVE  floor'[r] <= row' /\ (stage'[r] = "sending" => floor'[r] <= read'[r])
    BY <2>3, <2>t, HandlersAssumption DEF Work, Goes, Recent, stream, outside
  <2>4. ASSUME NEW s \in Streams, Authenticate(s) \/ Read(s) \/ Send(s) \/ ClientLeaves(s)
        PROVE  floor'[r] <= row' /\ (stage'[r] = "sending" => floor'[r] <= read'[r])
    BY <2>4, <2>t DEF Authenticate, Read, Send, ClientLeaves, Goes, Recent, outside
  <2>5. CASE Persist \/ Wipe
    BY <2>5, <2>t DEF Persist, Wipe, Zero, Recent, stream
  <2>6. CASE UNCHANGED vars
    BY <2>6 DEF vars, stream, outside, Recent
  <2> QED
    BY <2>1, <2>2, <2>3, <2>4, <2>5, <2>6 DEF Next, Dispatch, Run
<1>3. TypeOK /\ Recent /\ [Next]_vars =>
        [\A s \in Streams : stage[s] = "sending" /\ stage'[s] = "awaiting" => shown'[s] >= floor[s]]_vars
  <2> SUFFICES ASSUME TypeOK, Recent, [Next]_vars, NEW r \in Streams,
                      stage[r] = "sending", stage'[r] = "awaiting"
               PROVE  shown'[r] >= floor[r]
    OBVIOUS
  <2> USE DEF Handlers, OnLoop, Calls
  <2>t. /\ stage \in [Handlers -> {"none", "arriving", "checkout", "query", "sending", "awaiting",
                                   "closing", "releasing"}]
        /\ floor \in [Streams -> Nat] /\ read \in [Streams -> Nat] /\ shown \in [Streams -> Nat]
    BY BoundsAssumption DEF TypeOK
  <2>1. ~\E h \in Handlers : Arrive(h) \/ Resume(h) \/ Refuse(h) \/ Unwind(h) \/ TimesOut(h)
                              \/ CheckOut(h) \/ QueryFails(h) \/ Release(h)
    BY <2>t DEF Arrive, Resume, Refuse, Unwind, TimesOut, CheckOut, QueryFails, Release, Goes
  <2>2. ~\E c \in Calls : Work(c)
    BY <2>t, HandlersAssumption DEF Work, Goes
  <2>3. ~(Persist \/ Wipe \/ UNCHANGED vars)
    BY DEF Persist, Wipe, vars
  <2>4. ASSUME NEW s \in Streams, Authenticate(s) \/ Read(s) \/ Send(s) \/ ClientLeaves(s)
        PROVE  shown'[r] >= floor[r]
    BY <2>4, <2>t DEF Authenticate, Read, Send, ClientLeaves, Goes, Recent
  <2> QED
    BY <2>1, <2>2, <2>3, <2>4 DEF Next, Dispatch, Run
<1> QED
  BY <1>1, <1>2, <1>3, TypeCorrect, PTL DEF Spec, AtMostOneLate
=============================================================================
