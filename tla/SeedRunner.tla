------------------------------ MODULE SeedRunner ------------------------------
(***************************************************************************)
(* The start of the development container and the seeds                    *)
(* (src/scripts/start-dev.sh, src/migrations, src/seeds,                   *)
(* src/scripts/export_seed_data.py).  The container migrates, seeds, and   *)
(* then serves; a seed run is also started by hand beside a serving API.   *)
(* Its four stages are four transactions of one session at READ COMMITTED: *)
(* administrators and the emitter commit between its statements, and a     *)
(* failed or killed run keeps the stages it has committed.                 *)
(***************************************************************************)
EXTENDS Naturals, FiniteSets, Functions

CONSTANTS
    UserIds, TypeIds, ReportIds,        \* uids of rows
    Emails, Codes, Texts, Names, Statuses,
    System, Legacy,     \* SYSTEM_USER_EMAIL, and the address it replaced
    Automatic,          \* the description of automatic reports
    Open,               \* the status the emitter gives a report
    SeedUsers, SeedTypes, SeedReports,  \* src/seeds/data as committed
    TextRead, CodeRead, \* what Python reads of the literal the export prints for a
                        \* description or a code, Nothing if it is no literal
    Nothing,
    MaxEdits,           \* bound: commits of others
    MaxExports          \* bound: times the seed files are exported anew

Roles == {"CREATOR", "SUPER_ADMIN"}
UserRow == [email : Emails, role : Roles]
TypeRow == [code : Codes, name : Names]
ReportRow == [type : TypeIds, text : Texts, status : Statuses, by : UserIds]
SeedReport == [code : Codes, text : Texts, status : Statuses, by : Emails, about : SUBSET Emails]

ASSUME EmailsAssumption == System \in Emails /\ Legacy \in Emails /\ System # Legacy
ASSUME ReportsAssumption == Automatic \in Texts /\ Open \in Statuses
ASSUME SeedsAssumption == SeedUsers \subseteq UserRow /\ SeedTypes \subseteq TypeRow /\ SeedReports \subseteq SeedReport
ASSUME LiteralsAssumption ==
    TextRead \in [Texts -> Texts \cup {Nothing}] /\ CodeRead \in [Codes -> Codes \cup {Nothing}]
\* The column is unique, and the committed list keeps to it.
ASSUME CodesAssumption == \A a, b \in SeedTypes : a.code = b.code => a = b
\* The committed seed files leave the system account to the migrations.
ASSUME AccountAssumption == \A row \in SeedUsers : row.email \notin {System, Legacy}
ASSUME UidsAssumption ==
    /\ UserIds \cap TypeIds = {} /\ TypeIds \cap ReportIds = {} /\ ReportIds \cap UserIds = {}
    /\ Nothing \notin UserIds \cup TypeIds \cup ReportIds
    /\ UserIds # {}
ASSUME BoundsAssumption == MaxEdits \in Nat /\ MaxExports \in Nat

VARIABLES
    users, types, reports,  \* tables: the rows by their uid
    subjects,   \* table incident_report_subjects: <<report, user>>
    categories, \* whether the rows of incident_categories are there
    revision,   \* the last migration applied, of "b0", "c1", "d2", "e3"
    files,      \* src/seeds/data: the records in its lists of users and reports, and
                \* which of the two lists pasted text has left no Python
    serving,    \* uvicorn runs
    stage,      \* where start-dev.sh or the seed run is
    todo,       \* records of the stage still to come
    found,      \* a record looked up: the row it goes to and the columns it changes
    staged,     \* columns flushed and not committed, by row
    swap,       \* subjects deleted and added and not committed
    lookup,     \* user_lookup and type_lookup
    outcome,    \* how the last run ended, "none" before that or if it was broken off
    touched,    \* an administrator or the files have changed since the run began
    edits,
    draft,      \* new users the export has printed, Nothing when none runs
    exports

tables == <<users, types, reports, subjects, categories>>
run == <<stage, todo, found, staged, swap, lookup, outcome>>
others == <<revision, files, serving, touched, edits, draft, exports>>
vars == <<tables, run, others>>

Empty == [x \in {} |-> x]
NoSwap == [out |-> {}, in |-> {}]
NoLookup == [user |-> Empty, type |-> Empty]
NoFind == [uid |-> Nothing, new |-> FALSE, row |-> Empty, about |-> {}]
Upserting == {"users", "types", "reports"}

-----------------------------------------------------------------------------
(* Rows *)

Over(new, old) == [x \in DOMAIN new \cup DOMAIN old |-> IF x \in DOMAIN new THEN new[x] ELSE old[x]]

\* A table with one whole row written to it.
Put(u, row, table) == Over([x \in {u} |-> row], table)

\* A table with the staged columns written over it.
Apply(table, columns) ==
    [u \in DOMAIN table \cup DOMAIN columns |->
        IF u \notin DOMAIN table THEN columns[u]
        ELSE IF u \in DOMAIN columns THEN Over(columns[u], table[u]) ELSE table[u]]

Table == IF stage = "users" THEN users ELSE IF stage = "types" THEN types ELSE reports

\* What the session's own queries see.
Seen == Apply(Table, staged)

\* Seeded fault: types are recognised by their name.
KeyByName == IF stage = "users" THEN {"email"} ELSE IF stage = "types" THEN {"name"} ELSE {"type", "text"}

Key == IF stage = "users" THEN {"email"} ELSE IF stage = "types" THEN {"code"} ELSE {"type", "text"}

Matching(row) == {u \in DOMAIN Seen : \A column \in Key : Seen[u][column] = row[column]}

\* uuid4 never returns a uid that some row, or a copy of one, still has.
UsedIds ==
    DOMAIN users \cup DOMAIN types \cup DOMAIN reports \cup DOMAIN staged
    \cup (IF found = NoFind THEN {} ELSE {found.uid}) \cup Range(lookup.user)

\* A uid for a new row; which of the unused ones it is matters to nothing.
NewId(ids) == IF ids \subseteq UsedIds THEN {} ELSE {CHOOSE id \in ids : id \notin UsedIds}

StageIds == IF stage = "users" THEN UserIds ELSE IF stage = "types" THEN TypeIds ELSE ReportIds

Pairs(r, us) == {r} \X us
SubjectsOf(r) == {s \in subjects : s[1] = r}

\* Rows an uncommitted UPDATE or INSERT holds, and rows its foreign keys pin.
Locked == DOMAIN staged
Pinned ==
    Locked \cup {s[2] : s \in swap.in} \cup {s[1] : s \in swap.in \cup swap.out}
    \cup (IF stage # "reports" THEN {}
          ELSE UNION {{Seen[r].by, Seen[r].type} : r \in DOMAIN staged})

-----------------------------------------------------------------------------
(* Migrations: `alembic upgrade head` is one transaction *)

\* c1a2b3d4e5f6.  No row for the account, under either address: insert one.
SeedSystemUser(rows) ==
    IF \E u \in DOMAIN rows : rows[u].email \in {System, Legacy} THEN {rows}
    ELSE {Put(u, [email |-> System, role |-> "CREATOR"], rows) : u \in NewId(UserIds)}

\* Seeded fault: the rename has been applied before the former address is looked for.
DemoteFormer(rows) ==
    [u \in DOMAIN rows |-> IF rows[u].email = Legacy THEN [rows[u] EXCEPT !.role = "CREATOR"] ELSE rows[u]]

\* e3f4a5b6c7d8, and the second half of d2e3f4a5b6c7.
Demote(rows) ==
    [u \in DOMAIN rows |->
        IF rows[u].email \in {System, Legacy} THEN [rows[u] EXCEPT !.role = "CREATOR"] ELSE rows[u]]

\* d2e3f4a5b6c7.
Rename(rows) ==
    Demote([u \in DOMAIN rows |-> IF rows[u].email = Legacy THEN [rows[u] EXCEPT !.email = System] ELSE rows[u]])

Upgrade(rows) ==
    CASE revision = "b0" -> {Demote(Rename(r)) : r \in SeedSystemUser(rows)}
      [] revision = "c1" -> {Demote(Rename(rows))}
      [] revision = "d2" -> {Demote(rows)}
      [] revision = "e3" -> {rows}

-----------------------------------------------------------------------------
(* A seed run *)

\* The module imports both lists before it does anything.
Begin ==
    /\ IF files.broken = {} THEN stage' = "users" /\ todo' = files.users /\ outcome' = "none"
       ELSE stage' = "off" /\ todo' = {} /\ outcome' = "failed"
    /\ touched' = FALSE
    /\ UNCHANGED <<found, staged, swap, lookup>>

\* docker compose up: start-dev.sh migrates, then seeds.
ComposeUp ==
    /\ stage = "off" /\ ~serving
    /\ stage' = "migrate" /\ outcome' = "none"
    /\ UNCHANGED <<tables, todo, found, staged, swap, lookup, others>>

Migrate ==
    /\ stage = "migrate"
    /\ users' \in Upgrade(users)
    /\ revision' = "e3"
    /\ Begin
    /\ UNCHANGED <<types, reports, subjects, categories, files, serving, edits, draft, exports>>

\* `python -m seeds.seed_runner` by hand, beside a serving API.
Reseed ==
    /\ stage = "off" /\ serving
    /\ Begin
    /\ UNCHANGED <<tables, revision, files, serving, edits, draft, exports>>

\* The open transaction is rolled back, the stages before it stay.
Leave(how) ==
    /\ stage' = "off" /\ outcome' = how
    /\ todo' = {} /\ found' = NoFind /\ staged' = Empty /\ swap' = NoSwap /\ lookup' = NoLookup
    /\ UNCHANGED <<tables, others>>

Resolves(record) ==
    stage = "reports" =>
        /\ record.code \in DOMAIN lookup.type
        /\ record.about \cup {record.by} \subseteq DOMAIN lookup.user

Columns(record) ==
    IF stage = "reports"
    THEN [type |-> lookup.type[record.code], text |-> record.text, status |-> record.status,
          by |-> lookup.user[record.by]]
    ELSE record

\* The columns of a row that are not the record's yet: the UPDATE names no others.
Changes(u, row) ==
    IF u \in DOMAIN Seen THEN Restrict(row, {c \in DOMAIN row : Seen[u][c] # row[c]}) ELSE row

\* Seeded fault: the key of a report has occurred_at in it, which moves with the clock.
TargetsByDate(record) ==
    LET rows == Matching(Columns(record))
    IN  IF rows # {} /\ stage # "reports" THEN rows ELSE NewId(StageIds)

\* Seeded fault: the key of a report is its type alone.
TargetsByType(record) ==
    LET rows == IF stage = "reports" THEN {r \in DOMAIN Seen : Seen[r].type = Columns(record).type}
                ELSE Matching(Columns(record))
    IN  IF rows # {} THEN rows ELSE NewId(StageIds)

\* The row a record goes to: .first() of those its key selects, else a new one.
Targets(record) ==
    LET rows == Matching(Columns(record))
    IN  IF rows # {} THEN rows ELSE NewId(StageIds)

\* The lookups of a record and the SELECT that decides between UPDATE and INSERT.
Find(record) ==
    /\ stage \in Upserting /\ found = NoFind
    /\ record \in todo
    /\ IF ~Resolves(record) THEN Leave("failed")
       ELSE \E u \in Targets(record) :
              /\ found' = [uid |-> u, new |-> u \notin DOMAIN Seen, row |-> Changes(u, Columns(record)),
                           about |-> IF stage = "reports" THEN {lookup.user[e] : e \in record.about} ELSE {}]
              /\ todo' = todo \ {record}
              /\ UNCHANGED <<tables, stage, staged, swap, lookup, outcome, others>>

\* The row to update has gone, the code is taken, or a foreign key has no row.
Refused ==
    LET gone == ~found.new /\ found.uid \notin DOMAIN Seen
    IN  \/ gone /\ (found.row # Empty \/ found.about # {})
        \/ stage = "types" /\ found.new /\ \E t \in DOMAIN Seen : Seen[t].code = found.row.code
        \/ stage = "reports" /\ ~(found.about \cup {found.row[c] : c \in DOMAIN found.row \cap {"by"}}) \subseteq DOMAIN users

\* The flush of what was found, and for a report the exchange of its subjects.
Write ==
    /\ found # NoFind
    /\ IF Refused THEN Leave("failed")
       ELSE /\ staged' = IF found.row = Empty THEN staged ELSE Apply(staged, [u \in {found.uid} |-> found.row])
            /\ swap' = IF stage # "reports" THEN swap
                       ELSE [out |-> swap.out \cup SubjectsOf(found.uid),
                             in |-> {s \in swap.in : s[1] # found.uid} \cup Pairs(found.uid, found.about)]
            /\ found' = NoFind
            /\ UNCHANGED <<tables, stage, todo, lookup, outcome, others>>

After == [users |-> "categories", types |-> "lookups", reports |-> "off"]

\* The commit that ends a stage; after the last one start-dev.sh starts uvicorn.
Commit ==
    /\ stage \in Upserting /\ found = NoFind /\ todo = {}
    /\ users' = IF stage = "users" THEN Seen ELSE users
    /\ types' = IF stage = "types" THEN Seen ELSE types
    /\ reports' = IF stage = "reports" THEN Seen ELSE reports
    /\ subjects' = (subjects \ swap.out) \cup swap.in
    /\ stage' = After[stage]
    /\ staged' = Empty /\ swap' = NoSwap /\ lookup' = NoLookup
    /\ IF stage = "reports" THEN outcome' = "done" /\ serving' = TRUE ELSE UNCHANGED <<outcome, serving>>
    /\ UNCHANGED <<categories, todo, found, revision, files, touched, edits, draft, exports>>

\* Seeded fault: insert the types that are missing, leave those that are there.
SeedMissingTypes ==
    /\ stage = "categories"
    /\ categories' = TRUE
    /\ stage' = "types" /\ todo' = {t \in SeedTypes : ~\E u \in DOMAIN types : types[u].code = t.code}
    /\ UNCHANGED <<users, types, reports, subjects, found, staged, swap, lookup, outcome, others>>

\* Nothing but a seed run writes incident_categories.
SeedCategories ==
    /\ stage = "categories"
    /\ categories' = TRUE
    /\ stage' = "types" /\ todo' = SeedTypes
    /\ UNCHANGED <<users, types, reports, subjects, found, staged, swap, lookup, outcome, others>>

\* {u.email: u.uid for u in users}, {t.code: t.uid for t in types}: of two
\* accounts with one address the later overwrites the earlier.
ReadLookups ==
    /\ stage = "lookups"
    /\ stage' = "reports" /\ todo' = files.reports
    /\ \E f \in [{users[u].email : u \in DOMAIN users} -> DOMAIN users],
          g \in [{types[t].code : t \in DOMAIN types} -> DOMAIN types] :
            /\ \A e \in DOMAIN f : users[f[e]].email = e
            /\ \A c \in DOMAIN g : types[g[c]].code = c
            /\ lookup' = [user |-> f, type |-> g]
    /\ UNCHANGED <<tables, found, staged, swap, outcome, others>>

\* The run or its container is killed, or the database breaks off its transaction.
Kill == stage # "off" /\ Leave("none")

SeedStep == (\E record \in todo : Find(record)) \/ Write \/ Commit \/ SeedCategories \/ ReadLookups

-----------------------------------------------------------------------------
(* What others commit meanwhile *)

Edit ==
    /\ serving /\ edits < MaxEdits
    /\ edits' = edits + 1
    /\ touched' = TRUE
    /\ UNCHANGED <<run, categories, revision, files, serving, draft, exports>>

\* users.email is not unique: POST and PUT /users take any address but a .local one.
PutUser(u, row) ==
    /\ Edit
    /\ row.email # Legacy
    /\ u \in (DOMAIN users \ Locked) \cup NewId(UserIds)
    /\ users' = Put(u, row, users)
    /\ UNCHANGED <<types, reports, subjects>>

DeleteUser(u) ==
    /\ Edit
    /\ u \in DOMAIN users \ Pinned
    /\ u \notin {reports[r].by : r \in DOMAIN reports} \cup {s[2] : s \in subjects}
    /\ users' = Restrict(users, DOMAIN users \ {u})
    /\ UNCHANGED <<types, reports, subjects>>

\* incident_types.code is unique; a foreign key names the category.
PutType(t, row) ==
    /\ Edit
    /\ categories
    /\ t \in (DOMAIN types \ Pinned) \cup NewId(TypeIds)
    /\ \A other \in DOMAIN types \ {t} : types[other].code # row.code
    /\ ~\E other \in Locked \cap TypeIds : other \notin DOMAIN types /\ staged[other].code = row.code
    /\ types' = Put(t, row, types)
    /\ UNCHANGED <<users, reports, subjects>>

PutReport(r, row, about) ==
    /\ Edit
    /\ r \in (DOMAIN reports \ Pinned) \cup NewId(ReportIds)
    /\ row.type \in DOMAIN types /\ about \cup {row.by} \subseteq DOMAIN users
    /\ reports' = Put(r, row, reports)
    /\ subjects' = (subjects \ SubjectsOf(r)) \cup Pairs(r, about)
    /\ UNCHANGED <<users, types>>

\* Seeded fault: the foreign key of subjects does not cascade.
DeleteReportAlone(r) ==
    /\ Edit
    /\ r \in DOMAIN reports \ Pinned
    /\ reports' = Restrict(reports, DOMAIN reports \ {r})
    /\ UNCHANGED <<users, types, subjects>>

DeleteReport(r) ==
    /\ Edit
    /\ r \in DOMAIN reports \ Pinned
    /\ reports' = Restrict(reports, DOMAIN reports \ {r})
    /\ subjects' = subjects \ SubjectsOf(r)
    /\ UNCHANGED <<users, types>>

\* The emitter, in the simulator's own container: no second open report of a type.
FileAutoReport(t) ==
    /\ edits < MaxEdits
    /\ edits' = edits + 1
    /\ t \in DOMAIN types
    /\ ~\E r \in DOMAIN reports : reports[r].type = t /\ reports[r].text = Automatic /\ reports[r].status = Open
    /\ \E u \in DOMAIN users, r \in NewId(ReportIds) :
         /\ users[u].email = System
         /\ reports' = Put(r, [type |-> t, text |-> Automatic, status |-> Open, by |-> u], reports)
    /\ UNCHANGED <<users, types, subjects, categories, run, revision, files, serving, touched, draft, exports>>

\* docker-reset.sh removes the database's volume; the containers go with it.
Reset ==
    /\ stage = "off" /\ draft = Nothing /\ users # Empty
    /\ users' = Empty /\ types' = Empty /\ reports' = Empty /\ subjects' = {} /\ categories' = FALSE
    /\ revision' = "b0" /\ serving' = FALSE /\ outcome' = "none"
    /\ UNCHANGED <<stage, todo, found, staged, swap, lookup, files, touched, edits, draft, exports>>

-----------------------------------------------------------------------------
(* The export, and pasting its output into src/seeds/data *)

EmailsOf(records) == {record.email : record \in records}

\* export_new_users; the script imports the list of users, and only that one.
ExportNewUsers ==
    /\ serving /\ draft = Nothing /\ exports < MaxExports
    /\ "users" \notin files.broken
    /\ draft' = {users[u] : u \in {x \in DOMAIN users : users[x].email \notin EmailsOf(files.users)}}
    /\ UNCHANGED <<tables, run, revision, files, serving, touched, edits, exports>>

\* A report as a record of the seeds.
RecordOf(r) ==
    [code |-> types[reports[r].type].code, text |-> reports[r].text, status |-> reports[r].status,
     by |-> users[reports[r].by].email, about |-> {users[s[2]].email : s \in SubjectsOf(r)}]

\* The export escapes the quotes of a description, nothing else of it and nothing
\* of a code: a line break stays one, and a backslash begins an escape sequence.
Printable(r) == TextRead[RecordOf(r).text] # Nothing /\ CodeRead[RecordOf(r).code] # Nothing

\* A report as Python reads it in the printed list.
Exported(r) == [RecordOf(r) EXCEPT !.text = TextRead[@], !.code = CodeRead[@]]

\* export_incident_reports, and both outputs pasted: the new users are appended;
\* the reports, if there are any, replace the list.  Names are left out of the rows:
\* the migrations' account is called System, that of a new user may have a quote in it.
ExportReports ==
    /\ draft # Nothing /\ stage = "off"
    /\ \E broken \in SUBSET {"users", "reports"} :
         /\ "users" \in broken => \E row \in draft : row.email # System
         /\ "reports" \in broken <=> IF reports = Empty THEN "reports" \in files.broken
                                     ELSE \E r \in DOMAIN reports : ~Printable(r)
         /\ files' = [users |-> files.users \cup draft,
                      reports |-> IF reports = Empty THEN files.reports
                                  ELSE {Exported(r) : r \in {x \in DOMAIN reports : Printable(x)}},
                      broken |-> broken]
    /\ draft' = Nothing
    /\ exports' = exports + 1
    /\ touched' = TRUE
    /\ UNCHANGED <<tables, run, revision, serving, edits>>

Uid0 == CHOOSE u \in UserIds : TRUE

Init ==
    /\ \/ users = Empty /\ revision = "b0"
       \/ revision = "c1" /\ \E e \in {System, Legacy}, r \in Roles : users = Put(Uid0, [email |-> e, role |-> r], Empty)
       \/ revision = "d2" /\ \E r \in Roles : users = Put(Uid0, [email |-> System, role |-> r], Empty)
    /\ types = Empty /\ reports = Empty /\ subjects = {} /\ categories = FALSE
    /\ files = [users |-> SeedUsers, reports |-> SeedReports, broken |-> {}]
    /\ serving = FALSE /\ touched = FALSE /\ edits = 0 /\ draft = Nothing /\ exports = 0
    /\ stage = "off" /\ outcome = "none"
    /\ todo = {} /\ found = NoFind /\ staged = Empty /\ swap = NoSwap /\ lookup = NoLookup

Administrate ==
    \/ \E u \in UserIds, row \in UserRow : PutUser(u, row)
    \/ \E u \in UserIds : DeleteUser(u)
    \/ \E t \in TypeIds, row \in TypeRow : PutType(t, row)
    \/ \E r \in ReportIds, row \in ReportRow, about \in {{}} \cup {{u} : u \in UserIds} : PutReport(r, row, about)
    \/ \E r \in ReportIds : DeleteReport(r)

Next ==
    \/ ComposeUp \/ Migrate \/ Reseed \/ SeedStep \/ Kill
    \/ Administrate
    \/ \E t \in TypeIds : FileAutoReport(t)
    \/ Reset
    \/ ExportNewUsers \/ ExportReports

Spec == Init /\ [][Next]_vars

-----------------------------------------------------------------------------
(* Properties *)

TypeOK ==
    /\ \E D \in SUBSET UserIds : users \in [D -> UserRow]
    /\ \E D \in SUBSET TypeIds : types \in [D -> TypeRow]
    /\ \E D \in SUBSET ReportIds : reports \in [D -> ReportRow]
    /\ \A r \in DOMAIN reports : reports[r].type \in DOMAIN types /\ reports[r].by \in DOMAIN users
    /\ subjects \subseteq (DOMAIN reports) \X (DOMAIN users)
    /\ categories \in BOOLEAN /\ serving \in BOOLEAN /\ touched \in BOOLEAN
    /\ revision \in {"b0", "c1", "d2", "e3"}
    /\ files.users \subseteq UserRow /\ files.reports \subseteq SeedReport
    /\ files.broken \subseteq {"users", "reports"}
    /\ stage \in Upserting \cup {"off", "migrate", "categories", "lookups"}
    /\ outcome \in {"none", "done", "failed"}
    /\ found = NoFind \/ found.uid \in UserIds \cup TypeIds \cup ReportIds
    /\ swap.out \cup swap.in \subseteq ReportIds \X UserIds
    /\ edits \in Nat /\ exports \in Nat

SameKey(a, b) == a.code = b.code /\ a.text = b.text

Present(record) == \E r \in DOMAIN reports : RecordOf(r) = record

\* Every record of the files is in the database with the file's values.
\* Records that share a key share a row, and one of them has it.
Seeded ==
    /\ categories
    /\ \A record \in files.users : \E u \in DOMAIN users : users[u].email = record.email /\ users[u] \in files.users
    /\ \A record \in SeedTypes : \E t \in DOMAIN types : types[t] = record
    /\ \A record \in files.reports : \E other \in files.reports : SameKey(record, other) /\ Present(other)

\* The types and accounts that the reports of the files name are in the files.
SelfContained ==
    \A record \in files.reports :
        /\ record.code \in {t.code : t \in SeedTypes}
        /\ record.about \cup {record.by} \subseteq EmailsOf(files.users)

\* A run that no administrator interferes with ends with the database seeded,
\* whatever edits, twins, killed runs and failed runs came before it, and while
\* the emitter files reports beside it.
FinishedRunSeeds == outcome = "done" /\ ~touched => Seeded

\* A run fails for no other reason than an edit under way, or seed files that are
\* no Python or name what they do not have: what an earlier run, a kill or an edit
\* left in the database never stops the container.
OnlyEditsStopARun == outcome = "failed" => touched \/ ~SelfContained \/ files.broken # {}

\* "Export dev DB data to seed-friendly format" (export_seed_data.py:1): files that
\* name nothing they do not have can be seeded once the export is pasted into them.
ExportCanBeSeeded == exports > 0 /\ ~touched /\ SelfContained => outcome # "failed"

\* No two rows or records answer to one key, and none is an automatic report's.
KeysAreUnique ==
    /\ \A u, v \in DOMAIN users : users[u].email = users[v].email => u = v
    /\ \A r, s \in DOMAIN reports :
         reports[r].text # Automatic /\ reports[r].text = reports[s].text /\ reports[r].type = reports[s].type => r = s
    /\ \A a, b \in files.users : a.email = b.email => a = b
    /\ \A a, b \in files.reports : a.text # Automatic /\ (SameKey(a, b) => a = b)

\* "Seed database (idempotent, development only)" (start-dev.sh:12): in a seeded
\* database a run changes nothing that the rows here have, not even the subjects it
\* deletes and adds again.  (occurred_at is not among them: three reports of the
\* committed list are dated so many days ago, and a run on a later day moves them.)
RerunChangesNothing == [][~touched /\ Seeded /\ KeysAreUnique /\ SeedStep => UNCHANGED tables]_vars

\* A run beside a live system keeps its hands off reports that its files do not
\* describe, the emitter's above all, and no account loses the address or uid it signs in with.
RunSparesOthers ==
    [][~touched /\ SeedStep =>
        /\ \A u \in DOMAIN users : u \in DOMAIN users' /\ users'[u].email = users[u].email
        /\ \A r \in DOMAIN reports :
             reports[r].text \notin {record.text : record \in files.reports} =>
                r \in DOMAIN reports' /\ reports'[r] = reports[r] /\ SubjectsOf(r) = {s \in subjects' : s[1] = r}]_vars

\* After the migrations there is one account for the emitter, without rights
\* over the plant, whichever of them an older database had seen.
OneSystemAccount ==
    revision = "e3" /\ edits = 0 =>
        \E u \in DOMAIN users :
            /\ users[u] = [email |-> System, role |-> "CREATOR"]
            /\ \A v \in DOMAIN users : users[v].email \in {System, Legacy} => v = u
=============================================================================
