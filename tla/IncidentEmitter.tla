---------------------------- MODULE IncidentEmitter ----------------------------
(***************************************************************************)
(* Debounced automatic incident reports (src/app/services/incident_emitter.py)  *)
(* filed by the simulator process while operators edit the same tables     *)
(* through the API.  The two processes share only the database, at READ    *)
(* COMMITTED: every SELECT of the emitter is a step of its own, and any     *)
(* API transaction may commit between two of them.                         *)
(***************************************************************************)
EXTENDS Naturals, FiniteSets

CONSTANTS
    Metrics,            \* plant metrics that have a setpoint
    Codes,              \* incident type codes
    ExcursionCodeMap,   \* <<metric, direction>> -> code
    DebounceTicks,
    Types,              \* uids a row of incident_types may have
    Reports,            \* uids a row of incident_reports may have
    Uids,               \* uids of accounts that may carry the system email
    Staff,              \* any other reporter
    MaxFaults,          \* bound: database errors and crashes in a behaviour
    MaxEdits            \* bound: API writes in a behaviour

Directions == {"high", "low"}
Bands == Directions \cup {"inside"}
NoReport == [exists |-> FALSE]
NoCode == "no_code"
NoType == "no_type"

ASSUME DebounceAssumption == DebounceTicks \in Nat \ {0}
ASSUME MapAssumption ==
    /\ DOMAIN ExcursionCodeMap \subseteq Metrics \X Directions
    /\ \A p \in DOMAIN ExcursionCodeMap : ExcursionCodeMap[p] \in Codes
ASSUME NamesAssumption ==
    /\ NoCode \notin Codes
    /\ NoType \notin Types
    /\ Staff \notin Uids
ASSUME BoundsAssumption == MaxFaults \in Nat /\ MaxEdits \in Nat

VARIABLES
    pc,         \* where the simulator is within emit()
    streaks,    \* excursion_streaks, 0 for a metric without an entry
    todo,       \* ready codes file_auto_reports has not reached yet
    code,       \* the code it is working on
    typ,        \* the incident type it read last for that code
    holder,     \* user_id returned by lookup_system_user_id
    reports,    \* table incident_reports
    typeCode,   \* table incident_types: uid -> code
    accounts,   \* rows of users that carry, or carried, the system email
    window,     \* history: metrics in DANGER at each of the last evaluations
    faults, edits

memory == <<streaks, todo, code, typ, holder, window>>
tables == <<reports, typeCode, accounts>>
vars == <<pc, memory, tables, faults, edits>>

Report == [exists : {TRUE}, type : Types, open : BOOLEAN, auto : BOOLEAN,
           reporter : Uids \cup {Staff}, touched : BOOLEAN]

Working == {"lookup", "next", "dedup", "type", "insert"}

TypeOK ==
    /\ pc \in Working \cup {"idle", "down"}
    /\ streaks \in [Metrics -> 0..DebounceTicks]
    /\ todo \subseteq Codes
    /\ code \in Codes \cup {NoCode}
    /\ typ \in Types \cup {NoType}
    /\ holder \in Uids \cup {Staff}
    /\ reports \in [Reports -> Report \cup {NoReport}]
    /\ typeCode \in [Types -> Codes \cup {NoCode}]
    /\ accounts \in [Uids -> {"system", "other", "absent"}]
    /\ window \in [1..DebounceTicks -> SUBSET Metrics]
    /\ faults \in Nat
    /\ edits \in Nat

-----------------------------------------------------------------------------
(* Queries *)

\* Metrics whose value crossed a DANGER rail that has a code.
Excursions(bands) == {m \in Metrics : <<m, bands[m]>> \in DOMAIN ExcursionCodeMap}

\* Seeded fault: a metric that recovers keeps its streak.
NextStreaksKept(old, bands) ==
    [m \in Metrics |-> IF m \in Excursions(bands) /\ old[m] < DebounceTicks THEN old[m] + 1 ELSE old[m]]

\* A streak counts up while the metric stays in DANGER and is dropped otherwise;
\* counts at or above DebounceTicks behave alike, so they are not told apart.
NextStreaks(old, bands) ==
    [m \in Metrics |-> IF m \notin Excursions(bands) THEN 0
                       ELSE IF old[m] < DebounceTicks THEN old[m] + 1
                       ELSE DebounceTicks]

ReadyCodes(next, bands) ==
    {ExcursionCodeMap[<<m, bands[m]>>] : m \in {x \in Excursions(bands) : next[x] >= DebounceTicks}}

Exists(r) == reports[r].exists
OpenAuto(r, t) == Exists(r) /\ reports[r].type = t /\ reports[r].open /\ reports[r].auto
\* Seeded fault: only the current system account's reports are looked at.
HasOwnOpenAuto(t) == \E r \in Reports : OpenAuto(r, t) /\ reports[r].reporter = holder

HasOpenAuto(t) == \E r \in Reports : OpenAuto(r, t)
HasType(c) == \E t \in Types : typeCode[t] = c

-----------------------------------------------------------------------------
(* The simulator's side: one evaluation, then the filing loop *)

Init ==
    /\ pc = "idle"
    /\ streaks = [m \in Metrics |-> 0]
    /\ todo = {} /\ code = NoCode /\ typ = NoType /\ holder = Staff
    /\ reports = [r \in Reports |-> NoReport]
    /\ typeCode \in [Types -> Codes \cup {NoCode}]
    /\ \A s, t \in Types : typeCode[s] = typeCode[t] /\ typeCode[s] # NoCode => s = t
    /\ accounts \in [Uids -> {"system", "absent"}]
    /\ window = [i \in 1..DebounceTicks |-> {}]
    /\ faults = 0 /\ edits = 0

Tick(bands) ==
    /\ pc = "idle"
    /\ streaks' = NextStreaks(streaks, bands)
    /\ todo' = ReadyCodes(streaks', bands)
    /\ window' = [i \in 1..DebounceTicks |-> IF i = 1 THEN Excursions(bands) ELSE window[i - 1]]
    /\ pc' = IF todo' = {} THEN "idle" ELSE "lookup"
    /\ UNCHANGED <<code, typ, holder, tables, faults, edits>>

\* Seeded fault: a missing account is not noticed.
LookupUnchecked ==
    /\ pc = "lookup"
    /\ \/ \E u \in Uids : accounts[u] = "system" /\ holder' = u
       \/ (\A u \in Uids : accounts[u] # "system") /\ holder' = "none"
    /\ pc' = "next"
    /\ UNCHANGED <<streaks, todo, code, typ, window, tables, faults, edits>>

\* Without an account for the system email the whole round is skipped.
LookupSystemUser ==
    /\ pc = "lookup"
    /\ \/ \E u \in Uids : accounts[u] = "system" /\ holder' = u /\ pc' = "next" /\ todo' = todo
       \/ /\ \A u \in Uids : accounts[u] # "system"
          /\ pc' = "idle" /\ todo' = {} /\ holder' = holder
    /\ UNCHANGED <<streaks, code, typ, window, tables, faults, edits>>

\* The for loop takes a code and _open_auto_report looks its type up.
NextCode(c) ==
    /\ pc = "next"
    /\ c \in todo
    /\ code' = c
    /\ todo' = todo \ {c}
    /\ \/ \E t \in Types : typeCode[t] = c /\ typ' = t /\ pc' = "dedup"
       \/ ~HasType(c) /\ typ' = NoType /\ pc' = "type"
    /\ UNCHANGED <<streaks, holder, window, tables, faults, edits>>

EndOfCode == pc' = IF todo = {} THEN "idle" ELSE "next"

\* Seeded fault: a closed report suppresses too.
DedupIgnoresStatus ==
    /\ pc = "dedup"
    /\ IF \E r \in Reports : Exists(r) /\ reports[r].type = typ /\ reports[r].auto
          THEN EndOfCode ELSE pc' = "type"
    /\ UNCHANGED <<memory, tables, faults, edits>>

\* _open_auto_report: an open [auto] report of the type suppresses the code.
Dedup ==
    /\ pc = "dedup"
    /\ IF HasOpenAuto(typ) THEN EndOfCode ELSE pc' = "type"
    /\ UNCHANGED <<memory, tables, faults, edits>>

\* file_auto_reports looks the type up a second time.
SelectType ==
    /\ pc = "type"
    /\ \/ \E t \in Types : typeCode[t] = code /\ typ' = t /\ pc' = "insert"
       \/ ~HasType(code) /\ typ' = typ /\ EndOfCode
    /\ UNCHANGED <<streaks, todo, code, holder, window, tables, faults, edits>>

AddAutoReport ==
    /\ pc = "insert"
    /\ accounts[holder] # "absent"
    /\ \E r \in Reports :
        /\ ~Exists(r)
        /\ reports' = [reports EXCEPT ![r] =
             [exists |-> TRUE, type |-> typ, open |-> TRUE, auto |-> TRUE,
              reporter |-> holder, touched |-> FALSE]]

\* create_report commits and the loop goes on.
FileReport ==
    /\ AddAutoReport
    /\ EndOfCode
    /\ UNCHANGED <<memory, typeCode, accounts, faults, edits>>

-----------------------------------------------------------------------------
(* Failures *)

AbandonTick == pc' = "idle" /\ todo' = {}

\* The reporter's row was deleted since the lookup: the INSERT breaks its
\* foreign key and the exception ends the tick.
ReporterGone ==
    /\ pc = "insert"
    /\ accounts[holder] = "absent"
    /\ AbandonTick
    /\ UNCHANGED <<streaks, code, typ, holder, window, tables, faults, edits>>

\* The database fails after the commit, in the refresh: the report is there,
\* but the tick ends in an exception as if it were not.
FileReportThenFail ==
    /\ faults < MaxFaults
    /\ AddAutoReport
    /\ AbandonTick
    /\ faults' = faults + 1
    /\ UNCHANGED <<streaks, code, typ, holder, window, typeCode, accounts, edits>>

\* Any statement before the commit fails.
FilingFails ==
    /\ faults < MaxFaults
    /\ pc \in Working
    /\ AbandonTick
    /\ faults' = faults + 1
    /\ UNCHANGED <<streaks, code, typ, holder, window, tables, edits>>

\* The process dies and loses its memory; streaks start again from nothing.
Crash ==
    /\ faults < MaxFaults
    /\ pc # "down"
    /\ pc' = "down"
    /\ faults' = faults + 1
    /\ UNCHANGED <<memory, tables, edits>>

Restart ==
    /\ pc = "down"
    /\ pc' = "idle"
    /\ streaks' = [m \in Metrics |-> 0]
    /\ todo' = {} /\ code' = NoCode /\ typ' = NoType /\ holder' = Staff
    /\ window' = [i \in 1..DebounceTicks |-> {}]
    /\ UNCHANGED <<tables, faults, edits>>

-----------------------------------------------------------------------------
(* The API's side.  Each handler runs its reads and its commit without an  *)
(* await between them, and a row it reads is changed by no other process.   *)

Edit == edits < MaxEdits /\ edits' = edits + 1 /\ UNCHANGED <<pc, memory, faults>>

\* POST /incident-reports: an operator's report, whose text may start with [auto].
OperatorCreateReport(r, t, auto) ==
    /\ Edit
    /\ ~Exists(r)
    /\ typeCode[t] # NoCode
    /\ reports' = [reports EXCEPT ![r] =
         [exists |-> TRUE, type |-> t, open |-> TRUE, auto |-> auto,
          reporter |-> Staff, touched |-> TRUE]]
    /\ UNCHANGED <<typeCode, accounts>>

\* PUT /incident-reports/{uid}: status, type and description may all change.
UpdateReport(r, t, open, auto) ==
    /\ Edit
    /\ Exists(r)
    /\ typeCode[t] # NoCode
    /\ reports' = [reports EXCEPT ![r].type = t, ![r].open = open, ![r].auto = auto, ![r].touched = TRUE]
    /\ UNCHANGED <<typeCode, accounts>>

DeleteReport(r) ==
    /\ Edit
    /\ Exists(r)
    /\ reports' = [reports EXCEPT ![r] = NoReport]
    /\ UNCHANGED <<typeCode, accounts>>

\* create_type and update_type: the code column is unique.  Recoding a type
\* counts as touching its reports.
WriteType(t, c) ==
    /\ Edit
    /\ \A s \in Types : typeCode[s] # c
    /\ typeCode' = [typeCode EXCEPT ![t] = c]
    /\ reports' = [r \in Reports |-> IF Exists(r) /\ reports[r].type = t
                                     THEN [reports[r] EXCEPT !.touched = TRUE] ELSE reports[r]]
    /\ UNCHANGED accounts

\* create_user, update_user (another email) and delete_user, which fails
\* while a report still names the account.
WriteAccount(u, value) ==
    /\ Edit
    /\ value # accounts[u]
    /\ accounts[u] = "absent" => value = "system"
    /\ value = "absent" => \A r \in Reports : Exists(r) => reports[r].reporter # u
    /\ accounts' = [accounts EXCEPT ![u] = value]
    /\ UNCHANGED <<reports, typeCode>>

-----------------------------------------------------------------------------
Filing ==
    \/ LookupSystemUser
    \/ \E c \in Codes : NextCode(c)
    \/ Dedup
    \/ SelectType
    \/ FileReport
    \/ ReporterGone

Evaluate == \E bands \in [Metrics -> Bands] : Tick(bands)

Operators ==
    \/ \E r \in Reports, t \in Types, auto \in BOOLEAN : OperatorCreateReport(r, t, auto)
    \/ \E r \in Reports, t \in Types, open, auto \in BOOLEAN : UpdateReport(r, t, open, auto)
    \/ \E r \in Reports : DeleteReport(r)
    \/ \E t \in Types, c \in Codes : WriteType(t, c)
    \/ \E u \in Uids, value \in {"system", "other", "absent"} : WriteAccount(u, value)

Next ==
    \/ Evaluate
    \/ Filing
    \/ FileReportThenFail
    \/ FilingFails
    \/ Crash
    \/ Restart
    \/ Operators

Spec == Init /\ [][Next]_vars

\* While the process is up its loop keeps ticking and every statement returns
\* (with an answer or, at most MaxFaults times, an error).  Nothing restarts a
\* dead process: docker-compose.yaml says restart "no".
FairSpec == Spec /\ WF_vars(Evaluate) /\ WF_vars(Filing)

-----------------------------------------------------------------------------
(* Properties *)

\* "Exactly one incident per open excursion": of the reports no operator has
\* touched, at most one [auto] report of a type is open, whatever fails,
\* restarts or is edited between the emitter's check and its commit.
AtMostOneOpenAuto ==
    \A r, s \in Reports, t \in Types :
        OpenAuto(r, t) /\ OpenAuto(s, t) /\ ~reports[r].touched /\ ~reports[s].touched => r = s

\* "A metric must stay in DANGER for DEBOUNCE_TICKS consecutive ticks before we
\* file": a code in the filing loop comes from a metric that was in DANGER at
\* each of the last DebounceTicks evaluations of this process.
Debounced(c) ==
    \E p \in DOMAIN ExcursionCodeMap :
        ExcursionCodeMap[p] = c /\ \A i \in 1..DebounceTicks : p[1] \in window[i]

OnlyDebouncedCodes ==
    /\ \A c \in todo : pc \in Working => Debounced(c)
    /\ pc \in {"dedup", "type", "insert"} => Debounced(code)

\* A metric that can raise one code only and stays in DANGER while its type and
\* the system account exist does get its report: again and again there is an
\* open [auto] report of that code, even if operators close it.
Reported(c) == \E t \in Types : typeCode[t] = c /\ HasOpenAuto(t)
Sustained(m, c) ==
    /\ pc # "down"
    /\ m \in window[1]
    /\ HasType(c)
    /\ \E u \in Uids : accounts[u] = "system"

SustainedDangerIsReported ==
    \A p \in DOMAIN ExcursionCodeMap :
        (\A d \in Directions : <<p[1], d>> \in DOMAIN ExcursionCodeMap =>
                               ExcursionCodeMap[<<p[1], d>>] = ExcursionCodeMap[p])
        => (<>[]Sustained(p[1], ExcursionCodeMap[p]) => []<>Reported(ExcursionCodeMap[p]))
=============================================================================
