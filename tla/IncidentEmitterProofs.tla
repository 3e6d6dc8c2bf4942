------------------------- MODULE IncidentEmitterProofs -------------------------
(***************************************************************************)
(* Proofs about IncidentEmitter for every set of metrics, codes, types and *)
(* reports and every debounce length.                                      *)
(***************************************************************************)
EXTENDS IncidentEmitter, TLAPS

\* What the emitter holds in its local variables at each point of the loop.
Holding ==
    /\ pc \in {"dedup", "insert"} => typ \in Types
    /\ pc \in {"dedup", "type", "insert"} => code \in Codes

TypeInv == TypeOK /\ Holding

\* The code column of incident_types is unique.
CodesUnique == \A s, t \in Types : typeCode[s] = typeCode[t] /\ typeCode[s] # NoCode => s = t

\* A report's type is a row of incident_types.
TypesExist == \A r \in Reports : Exists(r) => typeCode[reports[r].type] # NoCode

\* Every report that can still be called the emitter's own of type t, is not
\* an open [auto] one.
NoneOpen(t) == \A r \in Reports : OpenAuto(r, t) => reports[r].touched

\* From the first SELECT of a type to the second, a type other than the one
\* read first can have come to hold the code only by being recoded, which
\* touches its reports.
OthersTouched ==
    pc \in {"dedup", "type"} =>
        \A t \in Types, r \in Reports :
            typeCode[t] = code /\ t # typ /\ Exists(r) /\ reports[r].type = t => reports[r].touched

\* What the filing loop has established when it passes the check.
Checked ==
    /\ pc \in {"type", "insert"} => NoneOpen(typ)
    /\ pc \in {"dedup", "insert"} => typeCode[typ] # NoCode

DedupInv == CodesUnique /\ TypesExist /\ AtMostOneOpenAuto /\ OthersTouched /\ Checked

\* A metric's streak never exceeds the run of evaluations that found it in DANGER.
StreaksAreRuns == \A m \in Metrics, i \in 1..DebounceTicks : i <= streaks[m] => m \in window[i]

DebounceInv == StreaksAreRuns /\ OnlyDebouncedCodes

-----------------------------------------------------------------------------
\* Every ready code is one of Codes.
LEMMA ReadyAreCodes ==
    ASSUME NEW next, NEW bands \in [Metrics -> Bands]
    PROVE  ReadyCodes(next, bands) \subseteq Codes
BY MapAssumption DEF ReadyCodes, Excursions

\* A streak stays within its cap.
LEMMA StreaksBounded ==
    ASSUME NEW old \in [Metrics -> 0..DebounceTicks], NEW bands
    PROVE  NextStreaks(old, bands) \in [Metrics -> 0..DebounceTicks]
BY DebounceAssumption DEF NextStreaks

\* Every write of the emitter to the table leaves well-typed rows.
LEMMA AddedReportTyped ==
    ASSUME TypeInv, AddAutoReport
    PROVE  reports' \in [Reports -> Report \cup {NoReport}]
<1>1. typ \in Types /\ holder \in Uids \cup {Staff}
  BY DEF AddAutoReport, TypeInv, TypeOK, Holding
<1> DEFINE row == [exists |-> TRUE, type |-> typ, open |-> TRUE, auto |-> TRUE,
                   reporter |-> holder, touched |-> FALSE]
<1>2. row \in Report
  BY <1>1 DEF Report
<1>3. PICK r \in Reports : reports' = [reports EXCEPT ![r] = row]
  BY DEF AddAutoReport
<1> QED
  BY <1>2, <1>3 DEF TypeInv, TypeOK

\* So does every write of an operator.
LEMMA OperatorsTyped ==
    ASSUME TypeOK, Operators
    PROVE  /\ reports' \in [Reports -> Report \cup {NoReport}]
           /\ typeCode' \in [Types -> Codes \cup {NoCode}]
           /\ accounts' \in [Uids -> {"system", "other", "absent"}]
<1> USE DEF TypeOK
<1>1. ASSUME NEW r \in Reports, NEW t \in Types, NEW auto \in BOOLEAN, OperatorCreateReport(r, t, auto)
      PROVE  reports' \in [Reports -> Report \cup {NoReport}] /\ UNCHANGED <<typeCode, accounts>>
  <2> DEFINE row == [exists |-> TRUE, type |-> t, open |-> TRUE, auto |-> auto,
                     reporter |-> Staff, touched |-> TRUE]
  <2>1. row \in Report
    BY DEF Report
  <2> QED
    BY <1>1, <2>1 DEF OperatorCreateReport
<1>2. ASSUME NEW r \in Reports, NEW t \in Types, NEW open \in BOOLEAN, NEW auto \in BOOLEAN,
             UpdateReport(r, t, open, auto)
      PROVE  reports' \in [Reports -> Report \cup {NoReport}] /\ UNCHANGED <<typeCode, accounts>>
  <2>1. reports[r] \in Report
    BY <1>2 DEF UpdateReport, Exists, NoReport
  <2>2. [reports[r] EXCEPT !.type = t, !.open = open, !.auto = auto, !.touched = TRUE] \in Report
    BY <2>1 DEF Report
  <2> QED
    BY <1>2, <2>1, <2>2 DEF UpdateReport
<1>3. ASSUME NEW r \in Reports, DeleteReport(r)
      PROVE  reports' \in [Reports -> Report \cup {NoReport}] /\ UNCHANGED <<typeCode, accounts>>
  BY <1>3 DEF DeleteReport
<1>4. ASSUME NEW t \in Types, NEW c \in Codes, WriteType(t, c)
      PROVE  /\ reports' \in [Reports -> Report \cup {NoReport}]
             /\ typeCode' \in [Types -> Codes \cup {NoCode}]
             /\ UNCHANGED accounts
  <2>1. ASSUME NEW r \in Reports, Exists(r) PROVE [reports[r] EXCEPT !.touched = TRUE] \in Report
    <3>1. reports[r] \in Report
      BY <2>1 DEF Exists, NoReport
    <3> QED
      BY <3>1 DEF Report
  <2> QED
    BY <1>4, <2>1 DEF WriteType
<1>5. ASSUME NEW u \in Uids, NEW value \in {"system", "other", "absent"}, WriteAccount(u, value)
      PROVE  /\ accounts' \in [Uids -> {"system", "other", "absent"}]
             /\ UNCHANGED <<reports, typeCode>>
  BY <1>5 DEF WriteAccount
<1> QED
  BY <1>1, <1>2, <1>3, <1>4, <1>5 DEF Operators

\* An operator's write changes nothing in the simulator's memory.
LEMMA OperatorsLeaveMemory ==
    Operators => UNCHANGED <<pc, streaks, todo, code, typ, holder, window, faults>>
                 /\ edits' = edits + 1
BY DEF Operators, OperatorCreateReport, UpdateReport, DeleteReport, WriteType, WriteAccount, Edit, memory

\* Type correctness of the tables, and of the emitter's memory at each point
\* of the filing loop: it never inserts a report without a type.
LEMMA TypeInvariant == Spec => []TypeInv
<1>1. Init => TypeInv
  BY DebounceAssumption DEF Init, TypeInv, TypeOK, Holding, NoReport
<1>2. TypeInv /\ [Next]_vars => TypeInv'
  <2> SUFFICES ASSUME TypeInv, [Next]_vars PROVE TypeInv'
    OBVIOUS
  <2> USE DEF TypeInv, TypeOK, Holding, memory, tables, Working
  <2>1. ASSUME NEW bands \in [Metrics -> Bands], Tick(bands) PROVE TypeInv'
    <3>1. Excursions(bands) \subseteq Metrics
      BY DEF Excursions
    <3>2. window' \in [1..DebounceTicks -> SUBSET Metrics]
      BY <2>1, <3>1, DebounceAssumption DEF Tick
    <3> QED
      BY <2>1, <3>2, ReadyAreCodes, StreaksBounded DEF Tick
  <2>2. CASE LookupSystemUser
    BY <2>2 DEF LookupSystemUser
  <2>3. ASSUME NEW c \in Codes, NextCode(c) PROVE TypeInv'
    BY <2>3 DEF NextCode
  <2>4. CASE Dedup
    BY <2>4 DEF Dedup, EndOfCode
  <2>5. CASE SelectType
    BY <2>5 DEF SelectType, EndOfCode
  <2>6. CASE FileReport
    BY <2>6, AddedReportTyped DEF FileReport, EndOfCode
  <2>7. CASE ReporterGone
    BY <2>7 DEF ReporterGone, AbandonTick
  <2>8. CASE FileReportThenFail
    BY <2>8, AddedReportTyped DEF FileReportThenFail, AbandonTick
  <2>9. CASE FilingFails
    BY <2>9 DEF FilingFails, AbandonTick
  <2>10. CASE Crash
    BY <2>10 DEF Crash
  <2>11. CASE Restart
    BY <2>11, DebounceAssumption DEF Restart
  <2>12. CASE Operators
    BY <2>12, OperatorsTyped, OperatorsLeaveMemory
  <2>13. CASE UNCHANGED vars
    BY <2>13 DEF vars
  <2> QED
    BY <2>1, <2>2, <2>3, <2>4, <2>5, <2>6, <2>7, <2>8, <2>9, <2>10, <2>11, <2>12, <2>13
       DEF Next, Evaluate, Filing
<1> QED
  BY <1>1, <1>2, PTL DEF Spec

\* Type correctness: the tables keep their types, and emit never inserts a
\* report without a type or a reporter.
THEOREM TypeCorrect == Spec => []TypeOK
<1>1. TypeInv => TypeOK
  BY DEF TypeInv
<1> QED
  BY <1>1, TypeInvariant, PTL

-----------------------------------------------------------------------------
\* The commit of the emitter: if no untouched [auto] report of the type was
\* open, the new one is the only one.
LEMMA AddKeepsDedup ==
    ASSUME TypeInv, DedupInv, AddAutoReport, pc' \in {"idle", "next"},
           UNCHANGED <<code, typ, typeCode>>
    PROVE  DedupInv'
<1>1. PICK n \in Reports :
        /\ ~Exists(n)
        /\ reports' = [reports EXCEPT ![n] =
             [exists |-> TRUE, type |-> typ, open |-> TRUE, auto |-> TRUE,
              reporter |-> holder, touched |-> FALSE]]
  BY DEF AddAutoReport
<1>2. \A r \in Reports : r # n => reports'[r] = reports[r]
  BY <1>1 DEF TypeInv, TypeOK
<1>3. /\ reports'[n].exists /\ reports'[n].type = typ /\ reports'[n].touched = FALSE
  BY <1>1 DEF TypeInv, TypeOK
<1>4. pc = "insert" /\ NoneOpen(typ) /\ typeCode[typ] # NoCode
  BY DEF AddAutoReport, DedupInv, Checked
<1>5. AtMostOneOpenAuto'
  <2> SUFFICES ASSUME NEW r \in Reports, NEW s \in Reports, NEW t \in Types,
                      OpenAuto(r, t)', OpenAuto(s, t)', ~reports'[r].touched, ~reports'[s].touched
               PROVE  r = s
    BY DEF AtMostOneOpenAuto
  <2>1. CASE r # n /\ s # n
    BY <2>1, <1>2 DEF DedupInv, AtMostOneOpenAuto, OpenAuto, Exists
  <2>2. ASSUME NEW q \in Reports, q # n, OpenAuto(q, typ)', ~reports'[q].touched PROVE FALSE
    BY <2>2, <1>2, <1>4 DEF NoneOpen, OpenAuto, Exists
  <2>3. CASE r = n \/ s = n
    BY <2>3, <2>2, <1>3 DEF OpenAuto
  <2> QED
    BY <2>1, <2>3
<1>6. TypesExist'
  BY <1>2, <1>3, <1>4 DEF DedupInv, TypesExist, Exists
<1> QED
  BY <1>5, <1>6 DEF DedupInv, CodesUnique, OthersTouched, Checked

\* An operator's write touches every report it opens, retypes or recodes.
LEMMA OperatorsTouch ==
    ASSUME TypeInv, TypesExist, Operators
    PROVE  \A r \in Reports :
             \/ ~Exists(r)'
             \/ reports'[r].touched /\ typeCode'[reports'[r].type] # NoCode
             \/ /\ reports'[r] = reports[r]
                /\ Exists(r)
                /\ typeCode'[reports[r].type] = typeCode[reports[r].type]
<1> USE DEF TypeInv, TypeOK, Exists
<1>1. ASSUME NEW q \in Reports, NEW t \in Types, NEW auto \in BOOLEAN, OperatorCreateReport(q, t, auto),
             NEW r \in Reports
      PROVE  \/ reports'[r].touched /\ typeCode'[reports'[r].type] # NoCode
             \/ reports'[r] = reports[r] /\ typeCode' = typeCode
  BY <1>1 DEF OperatorCreateReport
<1>2. ASSUME NEW q \in Reports, NEW t \in Types, NEW open \in BOOLEAN, NEW auto \in BOOLEAN,
             UpdateReport(q, t, open, auto), NEW r \in Reports
      PROVE  \/ reports'[r].touched /\ typeCode'[reports'[r].type] # NoCode
             \/ reports'[r] = reports[r] /\ typeCode' = typeCode
  <2>1. reports[q] \in Report
    BY <1>2 DEF UpdateReport, NoReport
  <2>2. CASE r = q
    BY <1>2, <2>1, <2>2 DEF UpdateReport, Report
  <2>3. CASE r # q
    BY <1>2, <2>3 DEF UpdateReport
  <2> QED
    BY <2>2, <2>3
<1>3. ASSUME NEW q \in Reports, DeleteReport(q), NEW r \in Reports
      PROVE  ~Exists(r)' \/ (reports'[r] = reports[r] /\ typeCode' = typeCode)
  BY <1>3 DEF DeleteReport, NoReport
<1>4. ASSUME NEW t \in Types, NEW c \in Codes, WriteType(t, c), NEW r \in Reports, Exists(r)'
      PROVE  \/ reports'[r].touched /\ typeCode'[reports'[r].type] # NoCode
             \/ reports'[r] = reports[r] /\ typeCode'[reports[r].type] = typeCode[reports[r].type]
  <2>1. Exists(r)
    BY <1>4 DEF WriteType
  <2>2. reports[r] \in Report
    BY <2>1 DEF NoReport
  <2>3. CASE reports[r].type = t
    <3>1. reports'[r] = [reports[r] EXCEPT !.touched = TRUE]
      BY <1>4, <2>1, <2>3 DEF WriteType
    <3> QED
      BY <1>4, <2>2, <2>3, <3>1, NamesAssumption DEF WriteType, Report
  <2>4. CASE reports[r].type # t
    BY <1>4, <2>2, <2>4 DEF WriteType, Report
  <2> QED
    BY <2>3, <2>4
<1>5. ASSUME NEW u \in Uids, NEW value, WriteAccount(u, value)
      PROVE  reports' = reports /\ typeCode' = typeCode
  BY <1>5 DEF WriteAccount
<1> QED
  BY <1>1, <1>2, <1>3, <1>4, <1>5 DEF Operators, TypesExist

\* Only create_type and update_type write codes, and they keep them unique.
LEMMA OperatorsKeepCodesUnique ==
    ASSUME TypeInv, CodesUnique, Operators
    PROVE  CodesUnique' /\ \A t \in Types : typeCode[t] # NoCode => typeCode'[t] # NoCode
<1>1. ASSUME NEW t \in Types, NEW c \in Codes, WriteType(t, c)
      PROVE  CodesUnique' /\ \A s \in Types : typeCode[s] # NoCode => typeCode'[s] # NoCode
  BY <1>1, NamesAssumption DEF WriteType, CodesUnique, TypeInv, TypeOK
<1>2. (\A t \in Types, c \in Codes : ~WriteType(t, c)) => UNCHANGED typeCode
  BY DEF Operators, OperatorCreateReport, UpdateReport, DeleteReport, WriteAccount
<1> QED
  BY <1>1, <1>2 DEF CodesUnique

\* No edit of an operator between the emitter's check and its commit can make
\* it file a second report beside one nobody touched.
LEMMA OperatorsKeepDedup ==
    ASSUME TypeInv, TypeInv', DedupInv, Operators
    PROVE  DedupInv'
<1> USE OperatorsTouch, OperatorsLeaveMemory DEF DedupInv
<1>1. CodesUnique' /\ \A t \in Types : typeCode[t] # NoCode => typeCode'[t] # NoCode
  BY OperatorsKeepCodesUnique
<1>2. TypesExist'
  BY DEF TypesExist, Exists
<1>3. \A r \in Reports, t \in Types :
        OpenAuto(r, t)' /\ ~reports'[r].touched => OpenAuto(r, t) /\ ~reports[r].touched
  BY DEF OpenAuto, Exists
<1>4. AtMostOneOpenAuto'
  BY <1>3 DEF AtMostOneOpenAuto
<1>5. Checked'
  <2>1. \A r \in Reports : OpenAuto(r, typ)' /\ ~reports'[r].touched => OpenAuto(r, typ)
    BY DEF OpenAuto, Exists
  <2>2. NoneOpen(typ) => NoneOpen(typ)'
    BY <2>1 DEF NoneOpen, OpenAuto
  <2> QED
    BY <1>1, <2>2 DEF Checked, TypeInv, Holding
<1>6. OthersTouched'
  <2> SUFFICES ASSUME pc' \in {"dedup", "type"}, NEW t \in Types, NEW r \in Reports,
                      typeCode'[t] = code', t # typ', Exists(r)', reports'[r].type = t
               PROVE  reports'[r].touched
    BY DEF OthersTouched
  <2> QED
    BY DEF OthersTouched, Exists
<1> QED
  BY <1>1, <1>2, <1>4, <1>5, <1>6

\* At most one untouched [auto] report of a type is open.
THEOREM AtMostOne == Spec => []AtMostOneOpenAuto
<1>1. Init => DedupInv
  BY DEF Init, DedupInv, CodesUnique, TypesExist, AtMostOneOpenAuto, OthersTouched, Checked,
         Exists, OpenAuto, NoReport
<1>2. TypeInv /\ TypeInv' /\ DedupInv /\ [Next]_vars => DedupInv'
  <2> SUFFICES ASSUME TypeInv, TypeInv', DedupInv, [Next]_vars PROVE DedupInv'
    OBVIOUS
  <2> USE DEF DedupInv, memory, tables
  <2>1. ASSUME UNCHANGED <<reports, typeCode>>, pc' \in {"idle", "lookup", "next", "down"} PROVE DedupInv'
    BY <2>1 DEF CodesUnique, TypesExist, AtMostOneOpenAuto, OthersTouched, Checked, Exists, OpenAuto
  <2>2. ASSUME NEW bands, Tick(bands) PROVE DedupInv'
    BY <2>1, <2>2 DEF Tick
  <2>3. CASE LookupSystemUser
    BY <2>1, <2>3 DEF LookupSystemUser
  <2>4. ASSUME NEW c \in Codes, NextCode(c) PROVE DedupInv'
    <3>1. CodesUnique' /\ TypesExist' /\ AtMostOneOpenAuto'
      BY <2>4 DEF NextCode, CodesUnique, TypesExist, AtMostOneOpenAuto, Exists, OpenAuto
    <3>2. OthersTouched'
      BY <2>4, NamesAssumption DEF NextCode, OthersTouched, CodesUnique, HasType
    <3>3. Checked'
      <4>1. CASE pc' = "dedup"
        BY <2>4, <4>1, NamesAssumption DEF NextCode, Checked
      <4>2. CASE pc' = "type" /\ typ' = NoType
        <5>1. ASSUME NEW r \in Reports, Exists(r) PROVE reports[r].type \in Types
          <6>1. reports[r] \in Report
            BY <5>1 DEF TypeInv, TypeOK, Exists, NoReport
          <6> QED
            BY <6>1 DEF Report
        <5>2. NoneOpen(NoType)'
          BY <2>4, <5>1, NamesAssumption DEF NextCode, NoneOpen, OpenAuto, Exists
        <5> QED
          BY <4>2, <5>2 DEF Checked, NoneOpen
      <4> QED
        BY <2>4, <4>1, <4>2 DEF NextCode
    <3> QED
      BY <3>1, <3>2, <3>3
  <2>5. CASE Dedup
    <3>1. CASE HasOpenAuto(typ)
      BY <2>1, <2>5, <3>1 DEF Dedup, EndOfCode
    <3>2. CASE ~HasOpenAuto(typ)
      BY <2>5, <3>2 DEF Dedup, HasOpenAuto, CodesUnique, TypesExist, AtMostOneOpenAuto, OthersTouched,
                        Checked, NoneOpen, Exists, OpenAuto
    <3> QED
      BY <3>1, <3>2
  <2>6. CASE SelectType
    <3>1. CASE HasType(code)
      <4>1. PICK t \in Types : typeCode[t] = code /\ typ' = t /\ pc' = "insert"
        BY <2>6, <3>1 DEF SelectType
      <4>2. NoneOpen(t)
        BY <2>6, <4>1 DEF SelectType, Checked, OthersTouched, NoneOpen, OpenAuto
      <4>3. Checked'
        BY <2>6, <4>1, <4>2, NamesAssumption DEF SelectType, Checked, NoneOpen, OpenAuto, Exists,
           TypeInv, Holding
      <4> QED
        BY <2>6, <4>1, <4>3 DEF SelectType, CodesUnique, TypesExist, AtMostOneOpenAuto, OthersTouched,
                                Exists, OpenAuto
    <3>2. CASE ~HasType(code)
      BY <2>1, <2>6, <3>2 DEF SelectType, HasType, EndOfCode
    <3> QED
      BY <3>1, <3>2
  <2>7. CASE FileReport
    BY <2>7, AddKeepsDedup DEF FileReport, EndOfCode
  <2>8. CASE ReporterGone
    BY <2>1, <2>8 DEF ReporterGone, AbandonTick
  <2>9. CASE FileReportThenFail
    BY <2>9, AddKeepsDedup DEF FileReportThenFail, AbandonTick
  <2>10. CASE FilingFails
    BY <2>1, <2>10 DEF FilingFails, AbandonTick
  <2>11. CASE Crash
    BY <2>1, <2>11 DEF Crash
  <2>12. CASE Restart
    BY <2>1, <2>12 DEF Restart
  <2>13. CASE Operators
    BY <2>13, OperatorsKeepDedup
  <2>14. CASE UNCHANGED vars
    BY <2>14 DEF vars, CodesUnique, TypesExist, AtMostOneOpenAuto, OthersTouched, Checked, NoneOpen,
                 Exists, OpenAuto
  <2> QED
    BY <2>2, <2>3, <2>4, <2>5, <2>6, <2>7, <2>8, <2>9, <2>10, <2>11, <2>12, <2>13, <2>14
       DEF Next, Evaluate, Filing
<1>3. DedupInv => AtMostOneOpenAuto
  BY DEF DedupInv
<1> QED
  BY <1>1, <1>2, <1>3, TypeInvariant, PTL DEF Spec

-----------------------------------------------------------------------------
\* A streak that has reached the debounce length covers the whole window.
LEMMA ReadyAreDebounced ==
    ASSUME TypeInv, StreaksAreRuns, NEW bands \in [Metrics -> Bands], Tick(bands)
    PROVE  StreaksAreRuns' /\ \A c \in todo' : Debounced(c)'
<1> USE DebounceAssumption DEF TypeInv, TypeOK
<1>1. StreaksAreRuns'
  <2> SUFFICES ASSUME NEW m \in Metrics, NEW i \in 1..DebounceTicks, i <= streaks'[m]
               PROVE  m \in window'[i]
    BY DEF StreaksAreRuns
  <2>1. m \in Excursions(bands) /\ streaks'[m] <= streaks[m] + 1
    BY DEF Tick, NextStreaks
  <2>2. CASE i = 1
    BY <2>1, <2>2 DEF Tick
  <2>3. CASE i # 1
    <3>1. i - 1 \in 1..DebounceTicks /\ i - 1 <= streaks[m]
      BY <2>1, <2>3 DEF Tick, NextStreaks
    <3>2. m \in window[i - 1]
      BY <3>1 DEF StreaksAreRuns
    <3> QED
      BY <2>3, <3>2 DEF Tick
  <2> QED
    BY <2>2, <2>3
<1>2. ASSUME NEW c \in todo' PROVE Debounced(c)'
  <2>1. PICK m \in Excursions(bands) :
          streaks'[m] >= DebounceTicks /\ c = ExcursionCodeMap[<<m, bands[m]>>]
    BY <1>2 DEF Tick, ReadyCodes
  <2>2. m \in Metrics /\ <<m, bands[m]>> \in DOMAIN ExcursionCodeMap
    BY <2>1 DEF Excursions
  <2>3. streaks' \in [Metrics -> 0..DebounceTicks]
    BY StreaksBounded DEF Tick
  <2>4. \A i \in 1..DebounceTicks : m \in window'[i]
    BY <1>1, <2>1, <2>2, <2>3 DEF StreaksAreRuns
  <2> QED
    BY <2>1, <2>2, <2>4 DEF Debounced
<1> QED
  BY <1>1, <1>2

\* Nothing is filed for a metric that was not in DANGER at each of the last
\* DebounceTicks evaluations.
THEOREM OnlyDebounced == Spec => []OnlyDebouncedCodes
<1>1. Init => DebounceInv
  BY DEF Init, DebounceInv, StreaksAreRuns, OnlyDebouncedCodes, Working
<1>2. TypeInv /\ DebounceInv /\ [Next]_vars => DebounceInv'
  <2> SUFFICES ASSUME TypeInv, DebounceInv, [Next]_vars PROVE DebounceInv'
    OBVIOUS
  <2> USE DEF DebounceInv, Working, memory
  <2>1. ASSUME UNCHANGED <<streaks, window>>, todo' \subseteq todo,
               \/ pc' \in {"idle", "down"}
               \/ pc' = "next" /\ pc \in Working
               \/ pc' \in Working /\ pc \in Working \ {"lookup", "next"} /\ code' = code
        PROVE  DebounceInv'
    BY <2>1 DEF StreaksAreRuns, OnlyDebouncedCodes, Debounced
  <2>2. ASSUME NEW bands \in [Metrics -> Bands], Tick(bands) PROVE DebounceInv'
    BY <2>2, ReadyAreDebounced DEF OnlyDebouncedCodes, Tick
  <2>3. CASE LookupSystemUser
    BY <2>1, <2>3 DEF LookupSystemUser
  <2>4. ASSUME NEW c \in Codes, NextCode(c) PROVE DebounceInv'
    BY <2>4 DEF NextCode, StreaksAreRuns, OnlyDebouncedCodes, Debounced
  <2>5. CASE Dedup
    BY <2>1, <2>5 DEF Dedup, EndOfCode
  <2>6. CASE SelectType
    BY <2>1, <2>6 DEF SelectType, EndOfCode
  <2>7. CASE FileReport
    BY <2>1, <2>7 DEF FileReport, AddAutoReport, EndOfCode
  <2>8. CASE ReporterGone
    BY <2>1, <2>8 DEF ReporterGone, AbandonTick
  <2>9. CASE FileReportThenFail
    BY <2>1, <2>9 DEF FileReportThenFail, AbandonTick
  <2>10. CASE FilingFails
    BY <2>1, <2>10 DEF FilingFails, AbandonTick
  <2>11. CASE Crash
    BY <2>1, <2>11 DEF Crash
  <2>12. CASE Restart
    BY <2>12 DEF Restart, StreaksAreRuns, OnlyDebouncedCodes
  <2>13. CASE Operators
    BY <2>13, OperatorsLeaveMemory DEF StreaksAreRuns, OnlyDebouncedCodes, Debounced
  <2>14. CASE UNCHANGED vars
    BY <2>14 DEF vars, StreaksAreRuns, OnlyDebouncedCodes, Debounced
  <2> QED
    BY <2>2, <2>3, <2>4, <2>5, <2>6, <2>7, <2>8, <2>9, <2>10, <2>11, <2>12, <2>13, <2>14
       DEF Next, Evaluate, Filing
<1>3. DebounceInv => OnlyDebouncedCodes
  BY DEF DebounceInv
<1> QED
  BY <1>1, <1>2, <1>3, TypeInvariant, PTL DEF Spec
=============================================================================
