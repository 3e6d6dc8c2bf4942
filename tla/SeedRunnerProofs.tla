--------------------------- MODULE SeedRunnerProofs ---------------------------
(***************************************************************************)
(* Proofs about SeedRunner for any accounts, types, reports, seed files    *)
(* and numbers of edits and exports.                                       *)
(***************************************************************************)
EXTENDS SeedRunner, TLAPS

-----------------------------------------------------------------------------
(* Rows and the columns written over them *)

\* Some columns of a row.
IsPart(c, Rows) == \E row \in Rows : DOMAIN c \subseteq DOMAIN row /\ c = Restrict(row, DOMAIN c)

\* Columns of one row written over another make a row.
Mixes(Rows) == \A c, row : IsPart(c, Rows) /\ row \in Rows => Over(c, row) \in Rows

IsTable(table, ids, Rows) == table \in [DOMAIN table -> Rows] /\ DOMAIN table \subseteq ids

PairsOf(S, A, B) == S \subseteq A \X B

\* Columns for rows of a table, and whole rows for those it does not have.
Fits(columns, table, ids, Rows) ==
    \A u \in DOMAIN columns :
        /\ u \in ids /\ IsPart(columns[u], Rows)
        /\ u \notin DOMAIN table => columns[u] \in Rows

LEMMA UserColumns ==
    ASSUME NEW row, DOMAIN row = {"email", "role"}, row = [x \in DOMAIN row |-> row[x]],
           row["email"] \in Emails, row["role"] \in Roles
    PROVE  row \in UserRow
BY DEF UserRow

LEMMA TypeColumns ==
    ASSUME NEW row, DOMAIN row = {"code", "name"}, row = [x \in DOMAIN row |-> row[x]],
           row["code"] \in Codes, row["name"] \in Names
    PROVE  row \in TypeRow
BY DEF TypeRow

LEMMA ReportColumns ==
    ASSUME NEW row, DOMAIN row = {"type", "text", "status", "by"}, row = [x \in DOMAIN row |-> row[x]],
           row["type"] \in TypeIds, row["text"] \in Texts, row["status"] \in Statuses, row["by"] \in UserIds
    PROVE  row \in ReportRow
BY DEF ReportRow

LEMMA OverPart ==
    ASSUME NEW c, NEW row, NEW other, DOMAIN other = DOMAIN row,
           DOMAIN c \subseteq DOMAIN other, c = Restrict(other, DOMAIN c)
    PROVE  /\ DOMAIN Over(c, row) = DOMAIN row
           /\ Over(c, row) = [x \in DOMAIN Over(c, row) |-> Over(c, row)[x]]
           /\ \A x \in DOMAIN row : Over(c, row)[x] = other[x] \/ Over(c, row)[x] = row[x]
BY DEF Over, Restrict

LEMMA RowsMix == Mixes(UserRow) /\ Mixes(TypeRow) /\ Mixes(ReportRow)
<1>1. ASSUME NEW c, NEW row \in UserRow, NEW other \in UserRow,
             DOMAIN c \subseteq DOMAIN other, c = Restrict(other, DOMAIN c)
      PROVE  Over(c, row) \in UserRow
  <2> DEFINE new == Over(c, row)
  <2>1. DOMAIN row = {"email", "role"} /\ DOMAIN other = DOMAIN row
    BY DEF UserRow
  <2>2. /\ row["email"] \in Emails /\ row["role"] \in Roles
        /\ other["email"] \in Emails /\ other["role"] \in Roles
    BY DEF UserRow
  <2>3. /\ DOMAIN new = DOMAIN row /\ new = [x \in DOMAIN new |-> new[x]]
        /\ \A x \in DOMAIN row : new[x] = other[x] \/ new[x] = row[x]
    BY <1>1, <2>1, OverPart
  <2> HIDE DEF new
  <2>4. new["email"] \in Emails /\ new["role"] \in Roles
    BY <2>1, <2>2, <2>3
  <2> QED
    BY <2>1, <2>3, <2>4, UserColumns DEF new
<1>2. ASSUME NEW c, NEW row \in TypeRow, NEW other \in TypeRow,
             DOMAIN c \subseteq DOMAIN other, c = Restrict(other, DOMAIN c)
      PROVE  Over(c, row) \in TypeRow
  <2> DEFINE new == Over(c, row)
  <2>1. DOMAIN row = {"code", "name"} /\ DOMAIN other = DOMAIN row
    BY DEF TypeRow
  <2>2. /\ row["code"] \in Codes /\ row["name"] \in Names
        /\ other["code"] \in Codes /\ other["name"] \in Names
    BY DEF TypeRow
  <2>3. /\ DOMAIN new = DOMAIN row /\ new = [x \in DOMAIN new |-> new[x]]
        /\ \A x \in DOMAIN row : new[x] = other[x] \/ new[x] = row[x]
    BY <1>2, <2>1, OverPart
  <2> HIDE DEF new
  <2>4. new["code"] \in Codes /\ new["name"] \in Names
    BY <2>1, <2>2, <2>3
  <2> QED
    BY <2>1, <2>3, <2>4, TypeColumns DEF new
<1>3. ASSUME NEW c, NEW row \in ReportRow, NEW other \in ReportRow,
             DOMAIN c \subseteq DOMAIN other, c = Restrict(other, DOMAIN c)
      PROVE  Over(c, row) \in ReportRow
  <2> DEFINE new == Over(c, row)
  <2>1. DOMAIN row = {"type", "text", "status", "by"} /\ DOMAIN other = DOMAIN row
    BY DEF ReportRow
  <2>2. /\ row["type"] \in TypeIds /\ row["text"] \in Texts /\ row["status"] \in Statuses /\ row["by"] \in UserIds
        /\ other["type"] \in TypeIds /\ other["text"] \in Texts /\ other["status"] \in Statuses /\ other["by"] \in UserIds
    BY DEF ReportRow
  <2>3. /\ DOMAIN new = DOMAIN row /\ new = [x \in DOMAIN new |-> new[x]]
        /\ \A x \in DOMAIN row : new[x] = other[x] \/ new[x] = row[x]
    BY <1>3, <2>1, OverPart
  <2> HIDE DEF new
  <2>4. new["type"] \in TypeIds /\ new["text"] \in Texts /\ new["status"] \in Statuses /\ new["by"] \in UserIds
    BY <2>1, <2>2, <2>3
  <2> QED
    BY <2>1, <2>3, <2>4, ReportColumns DEF new
<1> QED
  BY <1>1, <1>2, <1>3 DEF Mixes, IsPart

LEMMA AppliedTyped ==
    ASSUME NEW table, NEW columns, NEW ids, NEW Rows, Mixes(Rows),
           table \in [DOMAIN table -> Rows], Fits(columns, table, ids, Rows)
    PROVE  /\ Apply(table, columns) \in [DOMAIN table \cup DOMAIN columns -> Rows]
           /\ DOMAIN Apply(table, columns) = DOMAIN table \cup DOMAIN columns
<1>1. ASSUME NEW u \in DOMAIN table \cup DOMAIN columns
      PROVE  Apply(table, columns)[u] \in Rows
  <2>1. CASE u \notin DOMAIN table
    BY <2>1 DEF Apply, Fits
  <2>2. CASE u \in DOMAIN table /\ u \in DOMAIN columns
    <3>1. Over(columns[u], table[u]) \in Rows
      BY <2>2 DEF Fits, Mixes
    <3> QED
      BY <2>2, <3>1 DEF Apply
  <2>3. CASE u \in DOMAIN table /\ u \notin DOMAIN columns
    BY <2>3 DEF Apply
  <2> QED
    BY <2>1, <2>2, <2>3
<1> QED
  BY <1>1 DEF Apply

\* Columns of two rows, one written over the other.
LEMMA PartsMix ==
    ASSUME NEW Rows, Mixes(Rows), NEW c, NEW d, IsPart(c, Rows), IsPart(d, Rows)
    PROVE  IsPart(Over(c, d), Rows)
<1>1. PICK row \in Rows : DOMAIN d \subseteq DOMAIN row /\ d = Restrict(row, DOMAIN d)
  BY DEF IsPart
<1>2. Over(c, row) \in Rows
  BY DEF Mixes
<1>3. /\ DOMAIN Over(c, d) \subseteq DOMAIN Over(c, row)
      /\ Over(c, d) = Restrict(Over(c, row), DOMAIN Over(c, d))
  BY <1>1 DEF Over, Restrict
<1> QED
  BY <1>2, <1>3 DEF IsPart

LEMMA WholeIsPart ==
    ASSUME NEW Rows, NEW row \in Rows, row = [x \in DOMAIN row |-> row[x]]
    PROVE  IsPart(row, Rows)
BY DEF IsPart, Restrict

\* One more row found is written to what was staged.
LEMMA WriteFits ==
    ASSUME NEW table, NEW columns, NEW ids, NEW Rows, Mixes(Rows), Fits(columns, table, ids, Rows),
           NEW u \in ids, NEW one, DOMAIN one = {u}, IsPart(one[u], Rows),
           u \notin DOMAIN table \cup DOMAIN columns => one[u] \in Rows
    PROVE  Fits(Apply(columns, one), table, ids, Rows)
<1> DEFINE row == one[u]
           new == Apply(columns, one)
<1>1. DOMAIN new = DOMAIN columns \cup {u}
  BY DEF Apply
<1>2. ASSUME NEW v \in DOMAIN new
      PROVE  v \in ids /\ IsPart(new[v], Rows) /\ (v \notin DOMAIN table => new[v] \in Rows)
  <2>1. CASE v = u /\ u \notin DOMAIN columns
    <3>1. new[v] = row
      BY <2>1 DEF Apply
    <3> QED
      BY <2>1, <3>1
  <2>2. CASE v = u /\ u \in DOMAIN columns
    <3>1. new[v] = Over(row, columns[u])
      BY <2>2 DEF Apply
    <3>2. IsPart(columns[u], Rows) /\ (u \notin DOMAIN table => columns[u] \in Rows)
      BY <2>2 DEF Fits
    <3>3. IsPart(Over(row, columns[u]), Rows)
      BY <3>2, PartsMix
    <3>4. u \notin DOMAIN table => Over(row, columns[u]) \in Rows
      BY <3>2 DEF Mixes
    <3> QED
      BY <2>2, <3>1, <3>3, <3>4
  <2>3. CASE v # u
    <3>1. v \in DOMAIN columns /\ new[v] = columns[v]
      BY <2>3 DEF Apply
    <3> QED
      BY <3>1 DEF Fits
  <2> QED
    BY <2>1, <2>2, <2>3
<1> QED
  BY <1>1, <1>2 DEF Fits

-----------------------------------------------------------------------------
(* The inductive invariant *)

StageRow == IF stage = "users" THEN UserRow ELSE IF stage = "types" THEN TypeRow ELSE ReportRow

\* What the open transaction has staged fits its table, and nothing is staged outside of one.
StagedTyped ==
    /\ stage \in Upserting => Fits(staged, Table, StageIds, StageRow)
    /\ stage \notin Upserting => staged = Empty /\ found = NoFind
    /\ stage # "reports" => swap = NoSwap

FoundTyped ==
    found # NoFind =>
        /\ found.uid \in StageIds
        /\ IsPart(found.row, StageRow)
        /\ found.new => found.row \in StageRow
        /\ stage = "reports" => found.about \subseteq UserIds

TodoTyped ==
    /\ stage = "users" => todo \subseteq UserRow
    /\ stage = "types" => todo \subseteq TypeRow
    /\ stage = "reports" => todo \subseteq SeedReport
    /\ draft = Nothing \/ draft \subseteq UserRow

\* Staged reports name types and accounts that are there: types are never
\* deleted, and the foreign keys of the transaction hold the accounts.
References ==
    stage = "reports" =>
        /\ \A c \in DOMAIN lookup.type : lookup.type[c] \in DOMAIN types
        /\ \A e \in DOMAIN lookup.user : lookup.user[e] \in UserIds
        /\ found # NoFind => ("type" \in DOMAIN found.row => found.row["type"] \in DOMAIN types)
        /\ \A r \in DOMAIN staged :
             /\ "type" \in DOMAIN staged[r] => staged[r]["type"] \in DOMAIN types
             /\ "by" \in DOMAIN staged[r] => staged[r]["by"] \in DOMAIN users
        /\ swap.in \subseteq (DOMAIN reports \cup DOMAIN staged) \X DOMAIN users

SeedInv == TypeOK /\ StagedTyped /\ FoundTyped /\ TodoTyped /\ References

LEMMA TableForm ==
    ASSUME NEW table, NEW ids, NEW Rows
    PROVE  (\E D \in SUBSET ids : table \in [D -> Rows]) <=> IsTable(table, ids, Rows)
BY DEF IsTable

LEMMA PutForm ==
    ASSUME NEW table, NEW u, NEW row
    PROVE  /\ DOMAIN Put(u, row, table) = DOMAIN table \cup {u}
           /\ Put(u, row, table)[u] = row
           /\ \A v \in DOMAIN table : v # u => Put(u, row, table)[v] = table[v]
BY DEF Put, Over

LEMMA PutTyped ==
    ASSUME NEW table, NEW ids, NEW Rows, IsTable(table, ids, Rows), NEW u \in ids, NEW row \in Rows
    PROVE  IsTable(Put(u, row, table), ids, Rows)
BY DEF IsTable, Put, Over

LEMMA RestrictForm ==
    ASSUME NEW table, NEW D
    PROVE  DOMAIN Restrict(table, D) = D /\ \A v \in D : Restrict(table, D)[v] = table[v]
BY DEF Restrict

LEMMA RestrictTyped ==
    ASSUME NEW table, NEW ids, NEW Rows, IsTable(table, ids, Rows), NEW D, D \subseteq DOMAIN table
    PROVE  IsTable(Restrict(table, D), ids, Rows)
BY DEF IsTable, Restrict

\* The three tables and their foreign keys.
TablesTyped ==
    /\ IsTable(users, UserIds, UserRow)
    /\ IsTable(types, TypeIds, TypeRow)
    /\ IsTable(reports, ReportIds, ReportRow)
    /\ \A r \in DOMAIN reports : reports[r].type \in DOMAIN types /\ reports[r].by \in DOMAIN users
    /\ PairsOf(subjects, DOMAIN reports, DOMAIN users)

\* The rest of the type invariant.
RestTyped ==
    /\ categories \in BOOLEAN /\ serving \in BOOLEAN /\ touched \in BOOLEAN
    /\ revision \in {"b0", "c1", "d2", "e3"}
    /\ files.users \subseteq UserRow /\ files.reports \subseteq SeedReport
    /\ files.broken \subseteq {"users", "reports"}
    /\ stage \in Upserting \cup {"off", "migrate", "categories", "lookups"}
    /\ outcome \in {"none", "done", "failed"}
    /\ found = NoFind \/ found.uid \in UserIds \cup TypeIds \cup ReportIds
    /\ PairsOf(swap.out \cup swap.in, ReportIds, UserIds)
    /\ edits \in Nat /\ exports \in Nat

LEMMA PairsOfForm ==
    ASSUME NEW S, NEW A, NEW B
    PROVE  /\ PairsOf(S, A, B) <=> \A s \in S : s = <<s[1], s[2]>> /\ s[1] \in A /\ s[2] \in B
           /\ S \subseteq A \X B <=> PairsOf(S, A, B)
BY DEF PairsOf

LEMMA TypeOKForm ==
    /\ TypeOK <=> TablesTyped /\ RestTyped
    /\ TypeOK' <=> TablesTyped' /\ RestTyped'
BY TableForm, PairsOfForm DEF TypeOK, TablesTyped, RestTyped

\* Commits of others leave what a run has staged in order, if they spare the rows it holds.
LEMMA OthersCommit ==
    ASSUME SeedInv, UNCHANGED run,
           DOMAIN types \subseteq DOMAIN types',
           DOMAIN users \cap Pinned \subseteq DOMAIN users',
           DOMAIN reports \cap Pinned \subseteq DOMAIN reports'
    PROVE  StagedTyped' /\ FoundTyped' /\ References'
<1> USE DEF run
<1>1. DOMAIN Table \cap DOMAIN staged \subseteq DOMAIN Table'
  BY DEF Table, Pinned, Locked
<1>2. StageIds' = StageIds /\ StageRow' = StageRow
  BY DEF StageIds, StageRow
<1>3. StagedTyped'
  <2>1. StagedTyped
    BY DEF SeedInv
  <2>2. Fits(staged, Table, StageIds, StageRow) => Fits(staged, Table', StageIds, StageRow)
    BY <1>1 DEF Fits
  <2> QED
    BY <1>2, <2>1, <2>2 DEF StagedTyped
<1>4. FoundTyped'
  BY <1>2 DEF SeedInv, FoundTyped
<1>5. References'
  <2> SUFFICES ASSUME stage = "reports" PROVE References'
    BY DEF References
  <2>1. References /\ stage = "reports"
    BY DEF SeedInv
  <2>2. ASSUME NEW r \in DOMAIN staged, "by" \in DOMAIN staged[r]
        PROVE  staged[r]["by"] \in Pinned
    <3>1. r \in DOMAIN Seen /\ Seen[r]["by"] = staged[r]["by"]
      BY <2>2 DEF Seen, Apply, Over
    <3> QED
      BY <2>1, <3>1 DEF Pinned
  <2>3. \A r \in DOMAIN staged : "by" \in DOMAIN staged[r] => staged[r]["by"] \in DOMAIN users'
    BY <2>1, <2>2 DEF References
  <2>4. swap.in \subseteq (DOMAIN reports' \cup DOMAIN staged) \X DOMAIN users'
    <3>1. ASSUME NEW s \in swap.in
          PROVE  s \in (DOMAIN reports' \cup DOMAIN staged) \X DOMAIN users'
      <4>1. s \in (DOMAIN reports \cup DOMAIN staged) \X DOMAIN users
        BY <2>1 DEF References
      <4>2. s[1] \in Pinned /\ s[2] \in Pinned
        BY DEF Pinned
      <4> QED
        BY <4>1, <4>2
    <3> QED
      BY <3>1
  <2> QED
    BY <2>1, <2>3, <2>4 DEF References
<1> QED
  BY <1>3, <1>4, <1>5

\* Columns that nobody edits keep the parts of the invariant about them.
LEMMA EditForm ==
    ASSUME SeedInv, UNCHANGED <<run, categories, revision, files, serving, draft>>,
           touched' \in BOOLEAN, edits' \in Nat, exports' \in Nat
    PROVE  RestTyped' /\ TodoTyped'
BY TypeOKForm DEF SeedInv, RestTyped, TodoTyped, run

LEMMA NewIdUnused == ASSUME NEW ids, NEW u \in NewId(ids) PROVE u \in ids /\ u \notin UsedIds
BY DEF NewId

\* Administrators and the emitter.
LEMMA OthersKeep ==
    ASSUME SeedInv, Administrate \/ \E t \in TypeIds : FileAutoReport(t)
    PROVE  SeedInv'
<1>1. TablesTyped /\ RestTyped
  BY TypeOKForm DEF SeedInv
<1>2. edits + 1 \in Nat
  BY <1>1 DEF RestTyped
<1>a. IsTable(users, UserIds, UserRow) /\ IsTable(types, TypeIds, TypeRow) /\ IsTable(reports, ReportIds, ReportRow)
  BY <1>1 DEF TablesTyped
<1>b. \A r \in DOMAIN reports : reports[r].type \in DOMAIN types /\ reports[r].by \in DOMAIN users
  BY <1>1 DEF TablesTyped
<1>c. PairsOf(subjects, DOMAIN reports, DOMAIN users)
  BY <1>1 DEF TablesTyped
<1>3. ASSUME NEW u \in UserIds, NEW row \in UserRow, PutUser(u, row)
      PROVE  SeedInv'
  <2>1. RestTyped' /\ TodoTyped'
    BY <1>1, <1>2, <1>3, EditForm DEF PutUser, Edit, RestTyped
  <2>2. /\ IsTable(users', UserIds, UserRow)
        /\ DOMAIN users \subseteq DOMAIN users'
    <3>1. users' = Put(u, row, users)
      BY <1>3 DEF PutUser
    <3>2. IsTable(Put(u, row, users), UserIds, UserRow) /\ DOMAIN Put(u, row, users) = DOMAIN users \cup {u}
      BY <1>a, PutTyped, PutForm
    <3> QED
      BY <3>1, <3>2
  <2>3. TablesTyped'
    BY <1>a, <1>b, <1>c, <1>3, <2>2, PairsOfForm DEF PutUser, TablesTyped
  <2>4. StagedTyped' /\ FoundTyped' /\ References'
    BY <1>3, <2>2, OthersCommit DEF PutUser, Edit
  <2> QED
    BY <2>1, <2>3, <2>4, TypeOKForm DEF SeedInv
<1>4. ASSUME NEW u \in UserIds, DeleteUser(u)
      PROVE  SeedInv'
  <2>1. RestTyped' /\ TodoTyped'
    BY <1>1, <1>2, <1>4, EditForm DEF DeleteUser, Edit, RestTyped
  <2>2. /\ IsTable(users', UserIds, UserRow)
        /\ DOMAIN users' = DOMAIN users \ {u}
    BY <1>1, <1>4, RestrictTyped, RestrictForm DEF DeleteUser, TablesTyped
  <2>3. TablesTyped'
    <3>1. \A r \in DOMAIN reports : reports[r].by # u
      BY <1>4 DEF DeleteUser
    <3>2. \A s \in subjects : s[2] # u
      BY <1>4 DEF DeleteUser
    <3>3. PairsOf(subjects, DOMAIN reports, DOMAIN users')
      BY <1>c, <2>2, <3>2, PairsOfForm
    <3> QED
      BY <1>1, <1>4, <2>2, <3>1, <3>3 DEF DeleteUser, TablesTyped
  <2>4. StagedTyped' /\ FoundTyped' /\ References'
    BY <1>4, <2>2, OthersCommit DEF DeleteUser, Edit
  <2> QED
    BY <2>1, <2>3, <2>4, TypeOKForm DEF SeedInv
<1>5. ASSUME NEW t \in TypeIds, NEW row \in TypeRow, PutType(t, row)
      PROVE  SeedInv'
  <2>1. RestTyped' /\ TodoTyped'
    BY <1>1, <1>2, <1>5, EditForm DEF PutType, Edit, RestTyped
  <2>2. /\ IsTable(types', TypeIds, TypeRow)
        /\ DOMAIN types \subseteq DOMAIN types'
    <3>1. types' = Put(t, row, types)
      BY <1>5 DEF PutType
    <3>2. IsTable(Put(t, row, types), TypeIds, TypeRow) /\ DOMAIN Put(t, row, types) = DOMAIN types \cup {t}
      BY <1>a, PutTyped, PutForm
    <3> QED
      BY <3>1, <3>2
  <2>3. TablesTyped'
    BY <1>1, <1>5, <2>2 DEF PutType, TablesTyped
  <2>4. StagedTyped' /\ FoundTyped' /\ References'
    BY <1>5, <2>2, OthersCommit DEF PutType, Edit
  <2> QED
    BY <2>1, <2>3, <2>4, TypeOKForm DEF SeedInv
<1>6. ASSUME NEW r \in ReportIds, NEW row \in ReportRow, NEW about \in {{}} \cup {{u} : u \in UserIds}, PutReport(r, row, about)
      PROVE  SeedInv'
  <2>1. RestTyped' /\ TodoTyped'
    BY <1>1, <1>2, <1>6, EditForm DEF PutReport, Edit, RestTyped
  <2>2. /\ IsTable(reports', ReportIds, ReportRow)
        /\ DOMAIN reports' = DOMAIN reports \cup {r} /\ reports'[r] = row
        /\ \A v \in DOMAIN reports : v # r => reports'[v] = reports[v]
    <3>1. reports' = Put(r, row, reports)
      BY <1>6 DEF PutReport
    <3>2. IsTable(Put(r, row, reports), ReportIds, ReportRow)
      BY <1>a, PutTyped
    <3>3. DOMAIN Put(r, row, reports) = DOMAIN reports \cup {r} /\ Put(r, row, reports)[r] = row
      BY DEF Put, Over
    <3>4. \A v \in DOMAIN reports : v # r => Put(r, row, reports)[v] = reports[v]
      BY DEF Put, Over
    <3> QED
      BY <3>1, <3>2, <3>3, <3>4
  <2>3. TablesTyped'
    <3>1. PairsOf(subjects', DOMAIN reports', DOMAIN users)
      BY <1>c, <1>6, <2>2 DEF PutReport, Pairs, SubjectsOf, PairsOf
    <3>2. \A v \in DOMAIN reports' : reports'[v].type \in DOMAIN types /\ reports'[v].by \in DOMAIN users
      BY <1>1, <1>6, <2>2 DEF PutReport, TablesTyped
    <3> QED
      BY <1>1, <1>6, <2>2, <3>1, <3>2 DEF PutReport, TablesTyped
  <2>4. StagedTyped' /\ FoundTyped' /\ References'
    BY <1>6, <2>2, OthersCommit DEF PutReport, Edit
  <2> QED
    BY <2>1, <2>3, <2>4, TypeOKForm DEF SeedInv
<1>7. ASSUME NEW r \in ReportIds, DeleteReport(r)
      PROVE  SeedInv'
  <2>1. RestTyped' /\ TodoTyped'
    BY <1>1, <1>2, <1>7, EditForm DEF DeleteReport, Edit, RestTyped
  <2>2. /\ IsTable(reports', ReportIds, ReportRow)
        /\ DOMAIN reports' = DOMAIN reports \ {r}
        /\ \A v \in DOMAIN reports' : reports'[v] = reports[v]
    BY <1>1, <1>7, RestrictTyped, RestrictForm DEF DeleteReport, TablesTyped
  <2>3. TablesTyped'
    <3>1. PairsOf(subjects', DOMAIN reports', DOMAIN users)
      BY <1>c, <1>7, <2>2 DEF DeleteReport, SubjectsOf, PairsOf
    <3> QED
      BY <1>1, <1>7, <2>2, <3>1 DEF DeleteReport, TablesTyped
  <2>4. StagedTyped' /\ FoundTyped' /\ References'
    BY <1>7, <2>2, OthersCommit DEF DeleteReport, Edit
  <2> QED
    BY <2>1, <2>3, <2>4, TypeOKForm DEF SeedInv
<1>8. ASSUME NEW t \in TypeIds, FileAutoReport(t)
      PROVE  SeedInv'
  <2>1. RestTyped' /\ TodoTyped'
    BY <1>1, <1>2, <1>8, EditForm DEF FileAutoReport, RestTyped
  <2>2. PICK u \in DOMAIN users, r \in NewId(ReportIds) :
          reports' = Put(r, [type |-> t, text |-> Automatic, status |-> Open, by |-> u], reports)
    BY <1>8 DEF FileAutoReport
  <2> DEFINE row == [type |-> t, text |-> Automatic, status |-> Open, by |-> u]
  <2>3. row \in ReportRow /\ row.type = t /\ row.by = u
    BY <1>a, ReportsAssumption DEF ReportRow, IsTable
  <2> HIDE DEF row
  <2>4. r \in ReportIds /\ reports' = Put(r, row, reports)
    BY <2>2, NewIdUnused DEF row
  <2>5. /\ IsTable(reports', ReportIds, ReportRow)
        /\ DOMAIN reports' = DOMAIN reports \cup {r} /\ reports'[r] = row
        /\ \A v \in DOMAIN reports : v # r => reports'[v] = reports[v]
    <3>1. IsTable(Put(r, row, reports), ReportIds, ReportRow)
      BY <1>a, <2>3, <2>4, PutTyped
    <3>3. DOMAIN Put(r, row, reports) = DOMAIN reports \cup {r} /\ Put(r, row, reports)[r] = row
      BY DEF Put, Over
    <3>4. \A v \in DOMAIN reports : v # r => Put(r, row, reports)[v] = reports[v]
      BY DEF Put, Over
    <3> QED
      BY <2>4, <3>1, <3>3, <3>4
  <2>6. TablesTyped'
    <3>1. \A v \in DOMAIN reports' : reports'[v].type \in DOMAIN types /\ reports'[v].by \in DOMAIN users
      BY <1>1, <1>8, <2>3, <2>5 DEF FileAutoReport, TablesTyped
    <3> QED
      BY <1>a, <1>b, <1>c, <1>8, <2>5, <3>1, PairsOfForm DEF FileAutoReport, TablesTyped
  <2>7. StagedTyped' /\ FoundTyped' /\ References'
    BY <1>8, <2>5, OthersCommit DEF FileAutoReport
  <2> QED
    BY <2>1, <2>6, <2>7, TypeOKForm DEF SeedInv
<1> QED
  BY <1>3, <1>4, <1>5, <1>6, <1>7, <1>8 DEF Administrate

LEMMA EmptyFits ==
    /\ DOMAIN Empty = {} /\ NoSwap.in = {} /\ NoSwap.out = {}
    /\ \A table, ids, Rows : IsTable(Empty, ids, Rows) /\ Fits(Empty, table, ids, Rows)
    /\ \A A, B : PairsOf({}, A, B)
BY DEF Empty, NoSwap, IsTable, Fits, PairsOf

\* A stage that nothing has been found or staged in.
LEMMA Fresh ==
    ASSUME TypeOK', staged' = Empty, found' = NoFind, swap' = NoSwap, TodoTyped',
           stage' = "reports" =>
             /\ \A c \in DOMAIN lookup'.type : lookup'.type[c] \in DOMAIN types'
             /\ \A e \in DOMAIN lookup'.user : lookup'.user[e] \in UserIds
    PROVE  SeedInv'
<1>1. StagedTyped'
  BY EmptyFits DEF StagedTyped
<1>2. FoundTyped'
  BY DEF FoundTyped
<1>3. References'
  BY EmptyFits DEF References
<1> QED
  BY <1>1, <1>2, <1>3 DEF SeedInv

\* A run that is broken off, or fails.
LEMMA LeaveKeeps ==
    ASSUME SeedInv, NEW how \in {"none", "failed"}, Leave(how)
    PROVE  SeedInv'
<1>1. TablesTyped /\ RestTyped
  BY TypeOKForm DEF SeedInv
<1>2. TablesTyped'
  BY <1>1 DEF Leave, tables, TablesTyped
<1>3. RestTyped'
  <2>1. PairsOf(swap'.out \cup swap'.in, ReportIds, UserIds)
    <3>1. swap'.out \cup swap'.in = {}
      BY EmptyFits DEF Leave
    <3> QED
      BY <3>1, EmptyFits
  <2> QED
    <3>1. UNCHANGED <<tables, others>> /\ stage' = "off" /\ outcome' = how /\ found' = NoFind
      BY DEF Leave
    <3> QED
      BY <1>1, <2>1, <3>1 DEF tables, others, RestTyped
<1>4. TodoTyped'
  BY DEF Leave, others, TodoTyped, SeedInv
<1> QED
  BY <1>2, <1>3, <1>4, TypeOKForm, Fresh DEF Leave

\* The system account is put in the table, renamed and demoted: never lost.
LEMMA UpgradeTyped ==
    ASSUME NEW rows \in Upgrade(users), IsTable(users, UserIds, UserRow), revision \in {"b0", "c1", "d2", "e3"}
    PROVE  IsTable(rows, UserIds, UserRow) /\ DOMAIN users \subseteq DOMAIN rows
<1>1. ASSUME NEW t, IsTable(t, UserIds, UserRow)
      PROVE  IsTable(Demote(t), UserIds, UserRow) /\ DOMAIN Demote(t) = DOMAIN t
  <2>1. ASSUME NEW u \in DOMAIN t PROVE [t[u] EXCEPT !.role = "CREATOR"] \in UserRow
    BY <1>1 DEF IsTable, UserRow, Roles
  <2> QED
    BY <1>1, <2>1 DEF IsTable, Demote
<1>2. ASSUME NEW t, IsTable(t, UserIds, UserRow)
      PROVE  IsTable(Rename(t), UserIds, UserRow) /\ DOMAIN Rename(t) = DOMAIN t
  <2> DEFINE renamed == [u \in DOMAIN t |-> IF t[u].email = Legacy THEN [t[u] EXCEPT !.email = System] ELSE t[u]]
  <2>1. ASSUME NEW u \in DOMAIN t PROVE [t[u] EXCEPT !.email = System] \in UserRow
    BY <1>2, EmailsAssumption DEF IsTable, UserRow
  <2>2. IsTable(renamed, UserIds, UserRow) /\ DOMAIN renamed = DOMAIN t
    BY <1>2, <2>1 DEF IsTable
  <2> HIDE DEF renamed
  <2>3. IsTable(Demote(renamed), UserIds, UserRow) /\ DOMAIN Demote(renamed) = DOMAIN t
    BY <1>1, <2>2
  <2> QED
    BY <2>3 DEF Rename, renamed
<1>3. ASSUME NEW t \in SeedSystemUser(users)
      PROVE  IsTable(t, UserIds, UserRow) /\ DOMAIN users \subseteq DOMAIN t
  <2>1. CASE t = users
    BY <2>1
  <2>2. CASE t # users
    <3> DEFINE account == [email |-> System, role |-> "CREATOR"]
    <3>1. account \in UserRow
      BY EmailsAssumption DEF UserRow, Roles
    <3> HIDE DEF account
    <3>2. PICK u \in NewId(UserIds) : t = Put(u, account, users)
      BY <1>3, <2>2 DEF SeedSystemUser, account
    <3>3. u \in UserIds
      BY <3>2, NewIdUnused
    <3>4. IsTable(Put(u, account, users), UserIds, UserRow)
      BY <3>1, <3>3, PutTyped
    <3>5. DOMAIN users \subseteq DOMAIN Put(u, account, users)
      BY DEF Put, Over
    <3> QED
      BY <3>2, <3>4, <3>5
  <2> QED
    BY <2>1, <2>2
<1>4. CASE revision = "b0"
  <2>1. PICK t \in SeedSystemUser(users) : rows = Demote(Rename(t))
    BY <1>4 DEF Upgrade
  <2>2. IsTable(t, UserIds, UserRow) /\ DOMAIN users \subseteq DOMAIN t
    BY <1>3
  <2>3. IsTable(Rename(t), UserIds, UserRow) /\ DOMAIN Rename(t) = DOMAIN t
    BY <1>2, <2>2
  <2> QED
    BY <1>1, <2>1, <2>2, <2>3
<1>5. CASE revision = "c1"
  <2>1. rows = Demote(Rename(users))
    BY <1>5 DEF Upgrade
  <2>2. IsTable(Rename(users), UserIds, UserRow) /\ DOMAIN Rename(users) = DOMAIN users
    BY <1>2
  <2> QED
    BY <1>1, <2>1, <2>2
<1>6. CASE revision = "d2"
  BY <1>1, <1>6 DEF Upgrade
<1>7. CASE revision = "e3"
  BY <1>7 DEF Upgrade
<1> QED
  BY <1>4, <1>5, <1>6, <1>7

\* A run begins with the accounts of the files, or fails over a file that is no Python.
LEMMA BeginForm ==
    ASSUME Begin
    PROVE  /\ touched' = FALSE /\ UNCHANGED <<found, staged, swap, lookup>>
           /\ \/ stage' = "users" /\ todo' = files.users /\ outcome' = "none"
              \/ stage' = "off" /\ todo' = {} /\ outcome' = "failed" /\ files.broken # {}
BY DEF Begin

LEMMA MigrateKeeps == ASSUME SeedInv, Migrate PROVE SeedInv'
<1>1. TablesTyped /\ RestTyped
  BY TypeOKForm DEF SeedInv
<1>2. IsTable(users', UserIds, UserRow) /\ DOMAIN users \subseteq DOMAIN users'
  BY <1>1, UpgradeTyped DEF Migrate, TablesTyped, RestTyped
<1>3. TablesTyped'
  <2>1. PairsOf(subjects, DOMAIN reports, DOMAIN users')
    BY <1>1, <1>2 DEF TablesTyped, PairsOf
  <2> QED
    BY <1>1, <1>2, <2>1 DEF Migrate, TablesTyped
<1>4. RestTyped' /\ TodoTyped'
  BY <1>1, BeginForm DEF Migrate, RestTyped, TodoTyped, SeedInv, Upserting
<1>5. staged' = Empty /\ found' = NoFind /\ swap' = NoSwap /\ stage' # "reports"
  BY BeginForm DEF Migrate, SeedInv, StagedTyped, Upserting
<1> QED
  BY <1>3, <1>4, <1>5, TypeOKForm, Fresh

\* The steps that begin a stage or a run, or change nothing of one.
LEMMA StartsKeep ==
    ASSUME SeedInv, ComposeUp \/ Reseed \/ SeedCategories \/ ReadLookups
    PROVE  SeedInv'
<1>1. TablesTyped /\ RestTyped
  BY TypeOKForm DEF SeedInv
<1>2. TablesTyped'
  BY <1>1 DEF ComposeUp, Reseed, SeedCategories, ReadLookups, tables, TablesTyped
<1>3. staged' = Empty /\ found' = NoFind /\ swap' = NoSwap
  BY BeginForm DEF ComposeUp, Reseed, SeedCategories, ReadLookups, SeedInv, StagedTyped, Upserting
<1>4. RestTyped' /\ TodoTyped'
  <2>1. CASE ComposeUp
    BY <1>1, <2>1 DEF ComposeUp, tables, others, RestTyped, TodoTyped, SeedInv
  <2>2. CASE Reseed
    BY <1>1, <2>2, BeginForm DEF Reseed, tables, RestTyped, TodoTyped, SeedInv, Upserting
  <2>3. CASE SeedCategories
    BY <1>1, <2>3, SeedsAssumption DEF SeedCategories, others, RestTyped, TodoTyped, SeedInv, Upserting
  <2>4. CASE ReadLookups
    BY <1>1, <2>4 DEF ReadLookups, tables, others, RestTyped, TodoTyped, SeedInv, Upserting
  <2> QED
    BY <2>1, <2>2, <2>3, <2>4
<1>5. CASE ReadLookups
  <2>1. PICK f \in [{users[u].email : u \in DOMAIN users} -> DOMAIN users],
             g \in [{types[t].code : t \in DOMAIN types} -> DOMAIN types] : lookup' = [user |-> f, type |-> g]
    BY <1>5 DEF ReadLookups
  <2>2. /\ \A c \in DOMAIN lookup'.type : lookup'.type[c] \in DOMAIN types
        /\ \A e \in DOMAIN lookup'.user : lookup'.user[e] \in DOMAIN users
    BY <2>1
  <2>3. types' = types /\ DOMAIN users \subseteq UserIds
    BY <1>1, <1>5 DEF ReadLookups, tables, TablesTyped, IsTable
  <2> QED
    BY <1>2, <1>3, <1>4, <2>2, <2>3, TypeOKForm, Fresh
<1>6. CASE ComposeUp \/ Reseed \/ SeedCategories
  <2>1. stage' # "reports"
    BY <1>6, BeginForm DEF ComposeUp, Reseed, SeedCategories
  <2> QED
    BY <1>2, <1>3, <1>4, <2>1, TypeOKForm, Fresh
<1> QED
  BY <1>5, <1>6

\* A new database, and the export of the old one into the files.
LEMMA FilesKeep ==
    ASSUME SeedInv, Reset \/ ExportNewUsers \/ ExportReports
    PROVE  SeedInv'
<1>1. TablesTyped /\ RestTyped
  BY TypeOKForm DEF SeedInv
<1>2. CASE Reset
  <2>1. TablesTyped'
    BY <1>2, EmptyFits DEF Reset, TablesTyped
  <2>2. RestTyped' /\ TodoTyped'
    BY <1>1, <1>2 DEF Reset, RestTyped, TodoTyped, SeedInv
  <2>3. staged' = Empty /\ found' = NoFind /\ swap' = NoSwap /\ stage' = "off"
    BY <1>2 DEF Reset, SeedInv, StagedTyped, Upserting
  <2> QED
    BY <2>1, <2>2, <2>3, TypeOKForm, Fresh
<1>3. CASE ExportNewUsers
  <2>1. TablesTyped' /\ RestTyped'
    BY <1>1, <1>3 DEF ExportNewUsers, tables, run, TablesTyped, RestTyped
  <2>2. draft' \subseteq UserRow
    BY <1>1, <1>3 DEF ExportNewUsers, TablesTyped, IsTable
  <2>3. TodoTyped'
    BY <1>3, <2>2 DEF ExportNewUsers, run, TodoTyped, SeedInv
  <2>4. StagedTyped' /\ FoundTyped' /\ References'
    BY <1>3, OthersCommit DEF ExportNewUsers, tables
  <2> QED
    BY <2>1, <2>3, <2>4, TypeOKForm DEF SeedInv
<1>4. CASE ExportReports
  <2>1. TablesTyped'
    BY <1>1, <1>4 DEF ExportReports, tables, TablesTyped
  <2>2. ASSUME NEW r \in DOMAIN reports
        PROVE  RecordOf(r) \in SeedReport
    <3>1. reports[r] \in ReportRow /\ types[reports[r].type] \in TypeRow /\ users[reports[r].by] \in UserRow
      BY <1>1 DEF TablesTyped, IsTable
    <3>2. \A s \in SubjectsOf(r) : users[s[2]] \in UserRow
      BY <1>1 DEF TablesTyped, IsTable, PairsOf, SubjectsOf
    <3>3. {users[s[2]].email : s \in SubjectsOf(r)} \subseteq Emails
      BY <3>2 DEF UserRow
    <3> QED
      BY <3>1, <3>3 DEF RecordOf, SeedReport, ReportRow, TypeRow, UserRow
  <2>3. ASSUME NEW r \in DOMAIN reports, Printable(r)
        PROVE  Exported(r) \in SeedReport
    <3>1. TextRead[RecordOf(r).text] \in Texts /\ CodeRead[RecordOf(r).code] \in Codes
      BY <2>2, <2>3, LiteralsAssumption DEF Printable, SeedReport
    <3> QED
      BY <2>2, <3>1 DEF Exported, SeedReport
  <2>4. /\ files'.users = files.users \cup draft /\ files'.broken \subseteq {"users", "reports"}
        /\ files'.reports \subseteq SeedReport
    <3>1. PICK broken \in SUBSET {"users", "reports"} :
            files' = [users |-> files.users \cup draft,
                      reports |-> IF reports = Empty THEN files.reports
                                  ELSE {Exported(r) : r \in {x \in DOMAIN reports : Printable(x)}},
                      broken |-> broken]
      BY <1>4 DEF ExportReports
    <3>2. {Exported(r) : r \in {x \in DOMAIN reports : Printable(x)}} \subseteq SeedReport
      BY <2>3
    <3>3. files.reports \subseteq SeedReport
      BY <1>1 DEF RestTyped
    <3> QED
      BY <3>1, <3>2, <3>3
  <2>5. draft \subseteq UserRow
    BY <1>4 DEF ExportReports, SeedInv, TodoTyped
  <2>6. RestTyped'
    <3>1. /\ files'.users \subseteq UserRow /\ files'.reports \subseteq SeedReport
          /\ files'.broken \subseteq {"users", "reports"}
      BY <1>1, <2>5, <2>4 DEF RestTyped
    <3>2. exports' \in Nat /\ touched' \in BOOLEAN
      BY <1>1, <1>4 DEF ExportReports, RestTyped
    <3> QED
      BY <1>1, <1>4, <3>1, <3>2 DEF ExportReports, run, tables, RestTyped
  <2>7. TodoTyped'
    BY <1>4 DEF ExportReports, run, TodoTyped, SeedInv
  <2>8. StagedTyped' /\ FoundTyped' /\ References'
    BY <1>4, OthersCommit DEF ExportReports, tables
  <2> QED
    BY <2>1, <2>6, <2>7, <2>8, TypeOKForm DEF SeedInv
<1> QED
  BY <1>2, <1>3, <1>4

\* The table of the stage, and what the session sees of it.
LEMMA SeenTyped ==
    ASSUME SeedInv, stage \in Upserting
    PROVE  /\ Mixes(StageRow) /\ Fits(staged, Table, StageIds, StageRow)
           /\ IsTable(Table, StageIds, StageRow)
           /\ DOMAIN Seen = DOMAIN Table \cup DOMAIN staged
           /\ IsTable(Seen, StageIds, StageRow)
<1>1. Mixes(StageRow)
  BY RowsMix DEF StageRow
<1>2. Fits(staged, Table, StageIds, StageRow)
  BY DEF SeedInv, StagedTyped
<1>3. IsTable(Table, StageIds, StageRow)
  <2>1. TablesTyped
    BY TypeOKForm DEF SeedInv
  <2>2. CASE stage = "users"
    BY <2>1, <2>2 DEF TablesTyped, Table, StageIds, StageRow
  <2>3. CASE stage = "types"
    BY <2>1, <2>3 DEF TablesTyped, Table, StageIds, StageRow
  <2>4. CASE stage = "reports"
    BY <2>1, <2>4 DEF TablesTyped, Table, StageIds, StageRow
  <2> QED
    BY <2>2, <2>3, <2>4 DEF Upserting
<1>4. Seen \in [DOMAIN Table \cup DOMAIN staged -> StageRow] /\ DOMAIN Seen = DOMAIN Table \cup DOMAIN staged
  BY <1>1, <1>2, <1>3, AppliedTyped DEF Seen, IsTable
<1>5. DOMAIN staged \subseteq StageIds
  BY <1>2 DEF Fits
<1> QED
  BY <1>1, <1>2, <1>3, <1>4, <1>5 DEF IsTable

LEMMA RowIsFunction ==
    ASSUME NEW row, row \in UserRow \/ row \in TypeRow \/ row \in ReportRow
    PROVE  row = [x \in DOMAIN row |-> row[x]] /\ DOMAIN row # {}
<1>1. CASE row \in UserRow
  BY <1>1 DEF UserRow
<1>2. CASE row \in TypeRow
  BY <1>2 DEF TypeRow
<1>3. CASE row \in ReportRow
  BY <1>3 DEF ReportRow
<1> QED
  BY <1>1, <1>2, <1>3

LEMMA ChangesPart ==
    ASSUME NEW row \in StageRow, NEW u
    PROVE  /\ IsPart(Changes(u, row), StageRow)
           /\ u \notin DOMAIN Seen => Changes(u, row) \in StageRow
           /\ DOMAIN Changes(u, row) \subseteq DOMAIN row
           /\ \A c \in DOMAIN Changes(u, row) : Changes(u, row)[c] = row[c]
<1>1. row = [x \in DOMAIN row |-> row[x]]
  BY RowIsFunction DEF StageRow
<1>2. CASE u \in DOMAIN Seen
  <2> DEFINE D == {c \in DOMAIN row : Seen[u][c] # row[c]}
  <2>1. Changes(u, row) = Restrict(row, D)
    BY <1>2 DEF Changes
  <2>2. DOMAIN Restrict(row, D) = D /\ \A c \in D : Restrict(row, D)[c] = row[c]
    BY DEF Restrict
  <2>3. D \subseteq DOMAIN row
    OBVIOUS
  <2> HIDE DEF D
  <2> QED
    BY <1>2, <2>1, <2>2, <2>3 DEF IsPart
<1>3. CASE u \notin DOMAIN Seen
  <2>1. Changes(u, row) = row
    BY <1>3 DEF Changes
  <2> QED
    BY <1>1, <2>1, WholeIsPart
<1> QED
  BY <1>2, <1>3

\* A record that resolves becomes a row of the stage's table.
LEMMA ColumnsTyped ==
    ASSUME SeedInv, stage \in Upserting, NEW record \in todo, Resolves(record)
    PROVE  /\ Columns(record) \in StageRow
           /\ stage = "reports" =>
                /\ Columns(record)["type"] \in DOMAIN types
                /\ {lookup.user[e] : e \in record.about} \subseteq UserIds
<1>1. CASE stage = "users"
  BY <1>1 DEF Columns, StageRow, SeedInv, TodoTyped
<1>2. CASE stage = "types"
  BY <1>2 DEF Columns, StageRow, SeedInv, TodoTyped
<1>3. CASE stage = "reports"
  <2>1. record \in SeedReport
    BY <1>3 DEF SeedInv, TodoTyped
  <2>2. record.code \in DOMAIN lookup.type /\ record.about \cup {record.by} \subseteq DOMAIN lookup.user
    BY <1>3 DEF Resolves
  <2>3. lookup.type[record.code] \in DOMAIN types /\ \A e \in record.about \cup {record.by} : lookup.user[e] \in UserIds
    BY <1>3, <2>2 DEF SeedInv, References
  <2>4. DOMAIN types \subseteq TypeIds
    BY TypeOKForm DEF SeedInv, TablesTyped, IsTable
  <2>5. Columns(record) = [type |-> lookup.type[record.code], text |-> record.text, status |-> record.status,
                           by |-> lookup.user[record.by]]
    BY <1>3 DEF Columns
  <2>6. Columns(record) \in ReportRow
    BY <2>1, <2>3, <2>4, <2>5 DEF SeedReport, ReportRow
  <2> QED
    BY <1>3, <2>3, <2>5, <2>6 DEF StageRow
<1> QED
  BY <1>1, <1>2, <1>3 DEF Upserting

LEMMA FindKeeps ==
    ASSUME SeedInv, NEW record \in todo, Find(record)
    PROVE  SeedInv'
<1>1. CASE ~Resolves(record)
  BY <1>1, LeaveKeeps DEF Find
<1>2. CASE Resolves(record)
  <2> DEFINE row == Columns(record)
             about == IF stage = "reports" THEN {lookup.user[e] : e \in record.about} ELSE {}
  <2>1. PICK u \in Targets(record) : found' = [uid |-> u, new |-> u \notin DOMAIN Seen, row |-> Changes(u, row), about |-> about]
    BY <1>2 DEF Find
  <2>2. stage \in Upserting /\ UNCHANGED <<tables, stage, staged, swap, lookup, outcome, others>> /\ todo' = todo \ {record}
    BY <1>2 DEF Find
  <2>3. row \in StageRow
    BY <1>2, <2>2, ColumnsTyped
  <2>4. stage = "reports" => row["type"] \in DOMAIN types /\ about \subseteq UserIds
    BY <1>2, <2>2, ColumnsTyped
  <2> HIDE DEF row, about
  <2>5. u \in StageIds
    <3>1. Matching(row) \subseteq DOMAIN Seen
      BY DEF Matching
    <3>2. DOMAIN Seen \subseteq StageIds
      BY <2>2, SeenTyped DEF IsTable
    <3>3. u \in Matching(row) \/ u \in NewId(StageIds)
      BY <2>1 DEF Targets, row
    <3> QED
      BY <3>1, <3>2, <3>3, NewIdUnused
  <2>6. /\ found'.uid = u /\ found'.new = (u \notin DOMAIN Seen)
        /\ found'.row = Changes(u, row) /\ found'.about = about
    BY <2>1
  <2>7. StageIds' = StageIds /\ StageRow' = StageRow /\ Table' = Table
    BY <2>2 DEF StageIds, StageRow, Table, tables
  <2>8. TypeOK'
    <3>1. TablesTyped /\ RestTyped
      BY TypeOKForm DEF SeedInv
    <3>2. TablesTyped'
      BY <3>1, <2>2 DEF TablesTyped, tables
    <3>3. found'.uid \in UserIds \cup TypeIds \cup ReportIds
      BY <2>5, <2>6 DEF StageIds
    <3>4. RestTyped'
      BY <3>1, <3>3, <2>2 DEF RestTyped, tables, others
    <3> QED
      BY <3>2, <3>4, TypeOKForm
  <2>9. StagedTyped'
    BY <2>2, <2>7 DEF SeedInv, StagedTyped
  <2>10. FoundTyped'
    <3>1. IsPart(found'.row, StageRow) /\ (found'.new => found'.row \in StageRow)
      <4>1. IsPart(Changes(u, row), StageRow)
        BY <2>3, ChangesPart
      <4>2. u \notin DOMAIN Seen => Changes(u, row) \in StageRow
        BY <2>3, ChangesPart
      <4>3. found'.new => Changes(u, row) \in StageRow
        BY <2>6, <4>2, Zenon
      <4> QED
        BY <2>6, <4>1, <4>3
    <3>2. found'.uid \in StageIds /\ (stage' = "reports" => found'.about \subseteq UserIds)
      BY <2>2, <2>4, <2>5, <2>6
    <3> QED
      BY <2>7, <3>1, <3>2 DEF FoundTyped
  <2>11. TodoTyped'
    BY <2>2 DEF SeedInv, TodoTyped, others
  <2>12. References'
    <3>1. stage = "reports" => ("type" \in DOMAIN found'.row => found'.row["type"] \in DOMAIN types)
      BY <2>3, <2>4, <2>6, ChangesPart
    <3> QED
      BY <3>1, <2>2 DEF SeedInv, References, tables
  <2> QED
    BY <2>8, <2>9, <2>10, <2>11, <2>12 DEF SeedInv
<1> QED
  BY <1>1, <1>2

LEMMA WriteKeeps == ASSUME SeedInv, Write PROVE SeedInv'
<1>1. CASE Refused
  BY <1>1, LeaveKeeps DEF Write
<1>2. CASE ~Refused
  <2> DEFINE one == [x \in {found.uid} |-> found.row]
  <2>1. /\ found # NoFind /\ found' = NoFind /\ UNCHANGED <<tables, stage, todo, lookup, outcome, others>>
        /\ staged' = IF found.row = Empty THEN staged ELSE Apply(staged, one)
        /\ swap' = IF stage # "reports" THEN swap
                   ELSE [out |-> swap.out \cup SubjectsOf(found.uid),
                         in |-> {s \in swap.in : s[1] # found.uid} \cup Pairs(found.uid, found.about)]
    BY <1>2 DEF Write
  <2> HIDE DEF one
  <2>2. stage \in Upserting
    BY <2>1 DEF SeedInv, StagedTyped
  <2>3. /\ found.uid \in StageIds /\ IsPart(found.row, StageRow)
        /\ found.new => found.row \in StageRow
        /\ stage = "reports" => found.about \subseteq UserIds
    BY <2>1 DEF SeedInv, FoundTyped
  <2>4. /\ Mixes(StageRow) /\ Fits(staged, Table, StageIds, StageRow)
        /\ DOMAIN Seen = DOMAIN Table \cup DOMAIN staged
    BY <2>2, SeenTyped
  <2>5. found.new => found.row # Empty
    BY <2>3, RowIsFunction, EmptyFits DEF StageRow
  <2>6. found.uid \notin DOMAIN Seen => found.row \in StageRow \/ (found.row = Empty /\ found.about = {})
    BY <1>2, <2>3 DEF Refused
  <2>7. /\ Fits(staged', Table, StageIds, StageRow) /\ DOMAIN staged \subseteq DOMAIN staged'
        /\ found.row # Empty => DOMAIN staged' = DOMAIN staged \cup {found.uid}
    <3>1. CASE found.row = Empty
      BY <2>1, <2>4, <3>1
    <3>2. CASE found.row # Empty
      <4>1. found.uid \notin DOMAIN Table \cup DOMAIN staged => found.row \in StageRow
        BY <2>4, <2>6, <3>2
      <4>2. Fits(Apply(staged, one), Table, StageIds, StageRow)
        <5>1. DOMAIN one = {found.uid} /\ one[found.uid] = found.row
          BY DEF one
        <5> QED
          BY <2>3, <2>4, <4>1, <5>1, WriteFits
      <4>3. DOMAIN Apply(staged, one) = DOMAIN staged \cup {found.uid}
        BY DEF Apply, one
      <4> QED
        BY <2>1, <3>2, <4>2, <4>3
    <3> QED
      BY <3>1, <3>2
  <2>8. StageIds' = StageIds /\ StageRow' = StageRow /\ Table' = Table
    BY <2>1 DEF StageIds, StageRow, Table, tables
  <2>9. StagedTyped'
    BY <2>1, <2>2, <2>7, <2>8 DEF SeedInv, StagedTyped
  <2>10. FoundTyped' /\ TodoTyped'
    BY <2>1 DEF FoundTyped, TodoTyped, SeedInv, others
  <2>11. TablesTyped /\ RestTyped
    BY TypeOKForm DEF SeedInv
  <2>12. TablesTyped'
    BY <2>1, <2>11 DEF TablesTyped, tables
  <2>13. PairsOf(swap'.out \cup swap'.in, ReportIds, UserIds)
    <3>1. PairsOf(swap.out \cup swap.in, ReportIds, UserIds)
      BY <2>11 DEF RestTyped
    <3>2. CASE stage # "reports"
      BY <2>1, <3>1, <3>2
    <3>3. CASE stage = "reports"
      <4>1. /\ swap'.out = swap.out \cup SubjectsOf(found.uid)
            /\ swap'.in = {s \in swap.in : s[1] # found.uid} \cup Pairs(found.uid, found.about)
        BY <2>1, <3>3
      <4>2. PairsOf(SubjectsOf(found.uid), ReportIds, UserIds)
        BY <2>11 DEF SubjectsOf, PairsOf, TablesTyped, IsTable
      <4>3. PairsOf(Pairs(found.uid, found.about), ReportIds, UserIds)
        BY <2>3, <3>3 DEF Pairs, PairsOf, StageIds
      <4> QED
        BY <3>1, <4>1, <4>2, <4>3 DEF PairsOf
    <3> QED
      BY <3>2, <3>3
  <2>14. RestTyped'
    BY <2>1, <2>11, <2>13 DEF RestTyped, tables, others
  <2>15. References'
    <3> SUFFICES ASSUME stage = "reports" PROVE References'
      BY <2>1 DEF References
    <3>1. References /\ stage = "reports"
      BY DEF SeedInv
    <3>2. Table = reports
      BY DEF Table
    <3>3. found.about \subseteq DOMAIN users /\ ("by" \in DOMAIN found.row => found.row["by"] \in DOMAIN users)
      BY <1>2 DEF Refused
    <3>4. "type" \in DOMAIN found.row => found.row["type"] \in DOMAIN types
      BY <2>1, <3>1 DEF References
    <3>5. ASSUME NEW r \in DOMAIN staged'
          PROVE  /\ "type" \in DOMAIN staged'[r] => staged'[r]["type"] \in DOMAIN types
                 /\ "by" \in DOMAIN staged'[r] => staged'[r]["by"] \in DOMAIN users
      <4>1. CASE found.row = Empty \/ r # found.uid
        <5>1. r \in DOMAIN staged /\ staged'[r] = staged[r]
          BY <2>1, <2>7, <3>5, <4>1 DEF Apply, one
        <5> QED
          BY <3>1, <5>1 DEF References
      <4>2. CASE found.row # Empty /\ r = found.uid /\ r \notin DOMAIN staged
        <5>1. staged'[r] = found.row
          BY <2>1, <4>2 DEF Apply, one
        <5> QED
          BY <3>3, <3>4, <5>1
      <4>3. CASE found.row # Empty /\ r = found.uid /\ r \in DOMAIN staged
        <5>1. staged'[r] = Over(found.row, staged[r])
          BY <2>1, <4>3 DEF Apply, one
        <5>2. /\ "type" \in DOMAIN staged[r] => staged[r]["type"] \in DOMAIN types
              /\ "by" \in DOMAIN staged[r] => staged[r]["by"] \in DOMAIN users
          BY <3>1, <4>3 DEF References
        <5> QED
          BY <3>3, <3>4, <5>1, <5>2 DEF Over
      <4> QED
        BY <4>1, <4>2, <4>3
    <3>6. swap'.in \subseteq (DOMAIN reports \cup DOMAIN staged') \X DOMAIN users
      <4>1. swap'.in = {s \in swap.in : s[1] # found.uid} \cup Pairs(found.uid, found.about)
        BY <2>1, <3>1
      <4>2. swap.in \subseteq (DOMAIN reports \cup DOMAIN staged) \X DOMAIN users
        BY <3>1 DEF References
      <4>3. found.about # {} => found.uid \in DOMAIN reports \cup DOMAIN staged'
        <5>1. CASE found.row # Empty
          BY <2>7, <5>1
        <5>2. CASE found.row = Empty
          <6>1. found.about # {} => found.uid \in DOMAIN Seen
            BY <2>3, <2>5, <2>6, <5>2, RowIsFunction, EmptyFits DEF StageRow
          <6> QED
            BY <2>4, <2>7, <3>2, <6>1
        <5> QED
          BY <5>1, <5>2
      <4>4. Pairs(found.uid, found.about) \subseteq (DOMAIN reports \cup DOMAIN staged') \X DOMAIN users
        BY <3>3, <4>3 DEF Pairs
      <4>5. PairsOf(swap.in, DOMAIN reports \cup DOMAIN staged', DOMAIN users)
        BY <2>7, <4>2 DEF PairsOf
      <4> QED
        BY <4>1, <4>4, <4>5 DEF PairsOf
    <3> QED
      BY <2>1, <3>1, <3>5, <3>6 DEF References, tables
  <2> QED
    BY <2>9, <2>10, <2>12, <2>14, <2>15, TypeOKForm DEF SeedInv
<1> QED
  BY <1>1, <1>2

\* What a report names as the session sees it is there.
LEMMA SeenReferences ==
    ASSUME SeedInv, stage = "reports", NEW r \in DOMAIN Seen
    PROVE  Seen[r].type \in DOMAIN types /\ Seen[r].by \in DOMAIN users
<1>1. TablesTyped /\ References /\ Table = reports
  BY TypeOKForm DEF SeedInv, Table
<1>2. Fits(staged, reports, ReportIds, ReportRow) /\ DOMAIN Seen = DOMAIN reports \cup DOMAIN staged
  BY <1>1, SeenTyped DEF StageRow, StageIds, Upserting
<1>3. CASE r \notin DOMAIN staged
  <2>1. Seen[r] = reports[r] /\ r \in DOMAIN reports
    BY <1>1, <1>2, <1>3 DEF Seen, Apply
  <2> QED
    BY <1>1, <2>1 DEF TablesTyped
<1>4. CASE r \in DOMAIN staged /\ r \notin DOMAIN reports
  <2>1. Seen[r] = staged[r] /\ staged[r] \in ReportRow
    BY <1>1, <1>2, <1>4 DEF Seen, Apply, Fits
  <2>2. "type" \in DOMAIN staged[r] /\ "by" \in DOMAIN staged[r]
    BY <2>1 DEF ReportRow
  <2> QED
    BY <1>1, <1>4, <2>1, <2>2 DEF References
<1>5. CASE r \in DOMAIN staged /\ r \in DOMAIN reports
  <2>1. Seen[r] = Over(staged[r], reports[r])
    BY <1>1, <1>5 DEF Seen, Apply
  <2>2. reports[r] \in ReportRow /\ reports[r]["type"] \in DOMAIN types /\ reports[r]["by"] \in DOMAIN users
    BY <1>1, <1>5 DEF TablesTyped, IsTable
  <2>3. "type" \in DOMAIN reports[r] /\ "by" \in DOMAIN reports[r]
    BY <2>2 DEF ReportRow
  <2>4. /\ "type" \in DOMAIN staged[r] => staged[r]["type"] \in DOMAIN types
        /\ "by" \in DOMAIN staged[r] => staged[r]["by"] \in DOMAIN users
    BY <1>1, <1>5 DEF References
  <2>5. Seen[r]["type"] \in DOMAIN types /\ Seen[r]["by"] \in DOMAIN users
    BY <2>1, <2>2, <2>3, <2>4 DEF Over
  <2> QED
    BY <2>5
<1> QED
  BY <1>2, <1>3, <1>4, <1>5

LEMMA CommitKeeps == ASSUME SeedInv, Commit PROVE SeedInv'
<1>1. TablesTyped /\ RestTyped
  BY TypeOKForm DEF SeedInv
<1>2. /\ stage \in Upserting /\ stage' = After[stage] /\ found = NoFind
      /\ subjects' = (subjects \ swap.out) \cup swap.in
      /\ staged' = Empty /\ swap' = NoSwap /\ lookup' = NoLookup
      /\ UNCHANGED <<categories, todo, found, revision, files, touched, edits, draft, exports>>
  BY DEF Commit
<1>3. stage' \in {"categories", "lookups", "off"}
  BY <1>2 DEF After, Upserting
<1>4. DOMAIN Seen = DOMAIN Table \cup DOMAIN staged /\ IsTable(Seen, StageIds, StageRow)
  BY <1>2, SeenTyped
<1>5. stage # "reports" => subjects' = subjects
  BY <1>2, EmptyFits DEF SeedInv, StagedTyped
<1>6. TablesTyped'
  <2>1. CASE stage = "users"
    <3>1. users' = Seen /\ types' = types /\ reports' = reports
      BY <2>1 DEF Commit
    <3>2. IsTable(users', UserIds, UserRow) /\ DOMAIN users \subseteq DOMAIN users'
      BY <1>4, <2>1, <3>1 DEF StageIds, StageRow, Table
    <3>3. PairsOf(subjects, DOMAIN reports, DOMAIN users')
      BY <1>1, <3>2 DEF TablesTyped, PairsOf
    <3> QED
      BY <1>1, <1>5, <2>1, <3>1, <3>2, <3>3 DEF TablesTyped
  <2>2. CASE stage = "types"
    <3>1. users' = users /\ types' = Seen /\ reports' = reports
      BY <2>2 DEF Commit
    <3>2. IsTable(types', TypeIds, TypeRow) /\ DOMAIN types \subseteq DOMAIN types'
      BY <1>4, <2>2, <3>1 DEF StageIds, StageRow, Table
    <3> QED
      BY <1>1, <1>5, <2>2, <3>1, <3>2 DEF TablesTyped
  <2>3. CASE stage = "reports"
    <3>1. users' = users /\ types' = types /\ reports' = Seen
      BY <2>3 DEF Commit
    <3>2. IsTable(reports', ReportIds, ReportRow) /\ DOMAIN reports' = DOMAIN reports \cup DOMAIN staged
      BY <1>4, <2>3, <3>1 DEF StageIds, StageRow, Table
    <3>3. \A r \in DOMAIN reports' : reports'[r].type \in DOMAIN types' /\ reports'[r].by \in DOMAIN users'
      BY <2>3, <3>1, SeenReferences
    <3>4. PairsOf(subjects, DOMAIN reports, DOMAIN users) /\ PairsOf(swap.in, DOMAIN reports', DOMAIN users)
      BY <1>1, <2>3, <3>2 DEF TablesTyped, SeedInv, References, PairsOf
    <3>5. PairsOf(subjects', DOMAIN reports', DOMAIN users')
      BY <1>2, <3>1, <3>2, <3>4 DEF PairsOf
    <3> QED
      BY <1>1, <3>1, <3>2, <3>3, <3>5 DEF TablesTyped
  <2> QED
    BY <1>2, <2>1, <2>2, <2>3 DEF Upserting
<1>7. RestTyped'
  <2>1. PairsOf(swap'.out \cup swap'.in, ReportIds, UserIds)
    <3>1. swap'.out \cup swap'.in = {}
      BY <1>2, EmptyFits
    <3> QED
      BY <3>1, EmptyFits
  <2>2. outcome' \in {"none", "done", "failed"} /\ serving' \in BOOLEAN
    BY <1>1 DEF Commit, RestTyped
  <2> QED
    BY <1>1, <1>2, <1>3, <2>1, <2>2 DEF RestTyped
<1>8. TodoTyped'
  BY <1>2, <1>3 DEF SeedInv, TodoTyped
<1> QED
  BY <1>2, <1>3, <1>6, <1>7, <1>8, TypeOKForm, Fresh

LEMMA InitTyped == Init => SeedInv
<1> SUFFICES ASSUME Init PROVE SeedInv
  OBVIOUS
<1>1. IsTable(users, UserIds, UserRow)
  <2>1. CASE users = Empty
    BY <2>1, EmptyFits
  <2>2. CASE \E e \in {System, Legacy}, r \in Roles : users = Put(Uid0, [email |-> e, role |-> r], Empty)
    <3>1. PICK e \in {System, Legacy}, r \in Roles : users = Put(Uid0, [email |-> e, role |-> r], Empty)
      BY <2>2
    <3> DEFINE account == [email |-> e, role |-> r]
    <3>2. account \in UserRow
      BY EmailsAssumption DEF UserRow
    <3> HIDE DEF account
    <3>3. Uid0 \in UserIds
      BY UidsAssumption DEF Uid0
    <3>4. IsTable(Put(Uid0, account, Empty), UserIds, UserRow)
      BY <3>2, <3>3, PutTyped, EmptyFits
    <3> QED
      BY <3>1, <3>4 DEF account
  <2> QED
    BY <2>1, <2>2 DEF Init
<1>2. TablesTyped
  BY <1>1, EmptyFits DEF Init, TablesTyped
<1>3. RestTyped
  <2>1. PairsOf(swap.out \cup swap.in, ReportIds, UserIds)
    <3>1. swap.out \cup swap.in = {}
      BY EmptyFits DEF Init
    <3> QED
      BY <3>1, EmptyFits
  <2>2. files.users \subseteq UserRow /\ files.reports \subseteq SeedReport
    BY SeedsAssumption DEF Init
  <2> QED
    BY <2>1, <2>2 DEF Init, RestTyped
<1>4. StagedTyped /\ FoundTyped /\ TodoTyped /\ References
  BY DEF Init, StagedTyped, FoundTyped, TodoTyped, References, Upserting
<1> QED
  BY <1>2, <1>3, <1>4, TypeOKForm DEF SeedInv

LEMMA SeedStepKeeps == ASSUME SeedInv, SeedStep PROVE SeedInv'
<1>1. ASSUME NEW record \in todo, Find(record) PROVE SeedInv'
  BY <1>1, FindKeeps
<1>2. ReadLookups \/ SeedCategories => SeedInv'
  BY StartsKeep
<1> QED
  BY <1>1, <1>2, WriteKeeps, CommitKeeps DEF SeedStep

LEMMA SeedInvariant == Spec => []SeedInv
<1>1. SeedInv /\ [Next]_vars => SeedInv'
  <2> SUFFICES ASSUME SeedInv, [Next]_vars PROVE SeedInv'
    OBVIOUS
  <2>1. CASE ComposeUp \/ Reseed
    BY <2>1, StartsKeep
  <2>2. CASE Migrate
    BY <2>2, MigrateKeeps
  <2>3. CASE SeedStep
    BY <2>3, SeedStepKeeps
  <2>4. CASE Kill
    BY <2>4, LeaveKeeps DEF Kill
  <2>5. CASE Administrate \/ \E t \in TypeIds : FileAutoReport(t)
    BY <2>5, OthersKeep
  <2>6. CASE Reset \/ ExportNewUsers \/ ExportReports
    BY <2>6, FilesKeep
  <2>7. CASE UNCHANGED vars
    <3> USE <2>7 DEF vars, tables, run, others
    <3>1. TypeOK'
      BY DEF SeedInv, TypeOK
    <3>2. StagedTyped' /\ FoundTyped'
      BY DEF SeedInv, StagedTyped, FoundTyped, Table, StageIds, StageRow
    <3>3. TodoTyped' /\ References'
      BY DEF SeedInv, TodoTyped, References
    <3> QED
      BY <3>1, <3>2, <3>3 DEF SeedInv
  <2> QED
    BY <2>1, <2>2, <2>3, <2>4, <2>5, <2>6, <2>7 DEF Next
<1> QED
  BY InitTyped, <1>1, PTL DEF Spec

\* Tables, foreign keys and the run's own state keep their types, whoever else
\* commits between the run's statements and wherever it fails or is killed.
THEOREM TypeCorrect == Spec => []TypeOK
<1>1. SeedInv => TypeOK
  BY DEF SeedInv
<1> QED
  BY <1>1, SeedInvariant, PTL

-----------------------------------------------------------------------------
(* A run keeps its hands off what the files do not describe *)

Described(r) == reports[r].text \in {record.text : record \in files.reports}

\* An account that was there is not given another address.
AddressesStay ==
    /\ \A u \in DOMAIN staged : u \in DOMAIN users => "email" \notin DOMAIN staged[u]
    /\ found # NoFind => (found.uid \in DOMAIN users => "email" \notin DOMAIN found.row)

\* A report that was there is only written to, and only loses or gains subjects, if described.
OnlyDescribed ==
    /\ todo \subseteq files.reports
    /\ \A r \in DOMAIN staged : r \in DOMAIN reports => Described(r)
    /\ found # NoFind => (found.uid \in DOMAIN reports => Described(found.uid))
    /\ \A s \in swap.in : s[1] \in DOMAIN reports => Described(s[1])
    /\ \A s \in swap.out : s[1] \in DOMAIN reports /\ Described(s[1])

SpareInv ==
    ~touched =>
        /\ stage = "users" => AddressesStay
        /\ stage = "reports" => OnlyDescribed

LEMMA SpareElsewhere == ASSUME stage' # "users", stage' # "reports" PROVE SpareInv'
BY DEF SpareInv

LEMMA SpareOthers ==
    ASSUME SeedInv, SpareInv, Administrate \/ (\E t \in TypeIds : FileAutoReport(t)) \/ ExportNewUsers \/ ExportReports
    PROVE  SpareInv'
<1>1. CASE Administrate \/ ExportReports
  <2>1. touched'
    BY <1>1 DEF Administrate, PutUser, DeleteUser, PutType, PutReport, DeleteReport, Edit, ExportReports
  <2> QED
    BY <2>1 DEF SpareInv
<1>2. CASE ExportNewUsers
  BY <1>2 DEF ExportNewUsers, tables, run, SpareInv, AddressesStay, OnlyDescribed, Described
<1>3. ASSUME NEW t \in TypeIds, FileAutoReport(t)
      PROVE  SpareInv'
  <2>1. UNCHANGED <<users, run, files, touched>>
    BY <1>3 DEF FileAutoReport
  <2>2. stage = "users" /\ ~touched => AddressesStay'
    BY <2>1 DEF SpareInv, AddressesStay, run
  <2>3. ASSUME stage = "reports", ~touched PROVE OnlyDescribed'
    <3>1. PICK u \in DOMAIN users, r \in NewId(ReportIds) :
            reports' = Put(r, [type |-> t, text |-> Automatic, status |-> Open, by |-> u], reports)
      BY <1>3 DEF FileAutoReport
    <3>2. DOMAIN reports' = DOMAIN reports \cup {r} /\ \A v \in DOMAIN reports : v # r => reports'[v] = reports[v]
      BY <3>1 DEF Put, Over
    <3>3. r \notin DOMAIN reports /\ r \notin DOMAIN staged /\ (found # NoFind => r # found.uid)
      BY NewIdUnused DEF UsedIds
    <3>4. OnlyDescribed /\ swap.in \subseteq (DOMAIN reports \cup DOMAIN staged) \X DOMAIN users
      BY <2>3 DEF SpareInv, SeedInv, References
    <3>5. \A s \in swap.in : s[1] # r
      BY <3>3, <3>4
    <3>6. \A v \in DOMAIN reports : Described(v) => Described(v)'
      BY <2>1, <3>2, <3>3 DEF Described
    <3> QED
      BY <2>1, <3>2, <3>3, <3>4, <3>5, <3>6 DEF OnlyDescribed, run
  <2> QED
    BY <2>1, <2>2, <2>3 DEF SpareInv, run
<1> QED
  BY <1>1, <1>2, <1>3

\* The row a record goes to has the record's key, or is new.
LEMMA TargetsForm ==
    ASSUME SeedInv, stage \in Upserting, NEW record \in todo, NEW u \in Targets(record)
    PROVE  \/ u \notin DOMAIN Table /\ u \notin DOMAIN staged
           \/ u \in DOMAIN Seen /\ \A c \in Key : Seen[u][c] = Columns(record)[c]
<1>1. CASE u \in Matching(Columns(record))
  BY <1>1 DEF Matching
<1>2. CASE u \in NewId(StageIds)
  BY <1>2, NewIdUnused DEF UsedIds, Table
<1> QED
  BY <1>1, <1>2 DEF Targets

LEMMA SpareFind ==
    ASSUME SeedInv, SpareInv, NEW record \in todo, Find(record)
    PROVE  SpareInv'
<1>1. CASE ~Resolves(record)
  BY <1>1, SpareElsewhere DEF Find, Leave
<1>2. CASE Resolves(record)
  <2>1. stage \in Upserting /\ UNCHANGED <<tables, stage, staged, swap, lookup, outcome, others>> /\ todo' = todo \ {record}
    BY <1>2 DEF Find
  <2>2. PICK u \in Targets(record) : found'.uid = u /\ found'.row = Changes(u, Columns(record))
    BY <1>2 DEF Find
  <2>3. \/ u \notin DOMAIN Table /\ u \notin DOMAIN staged
        \/ u \in DOMAIN Seen /\ \A c \in Key : Seen[u][c] = Columns(record)[c]
    BY <2>1, TargetsForm
  <2>4. ASSUME ~touched, stage = "users" PROVE AddressesStay'
    <3>1. AddressesStay /\ Table = users /\ "email" \in Key
      BY <2>4 DEF SpareInv, Table, Key
    <3>2. u \in DOMAIN users => u \in DOMAIN Seen /\ Seen[u]["email"] = Columns(record)["email"]
      BY <2>3, <3>1
    <3>3. u \in DOMAIN users => "email" \notin DOMAIN Changes(u, Columns(record))
      BY <3>2 DEF Changes, Restrict
    <3> QED
      BY <2>1, <2>2, <3>1, <3>3 DEF AddressesStay, tables
  <2>5. ASSUME ~touched, stage = "reports" PROVE OnlyDescribed'
    <3>1. OnlyDescribed /\ Table = reports /\ "text" \in Key
      BY <2>5 DEF SpareInv, Table, Key
    <3>2. u \in DOMAIN reports => u \in DOMAIN Seen /\ Seen[u]["text"] = Columns(record)["text"]
      BY <2>3, <3>1
    <3>3. Columns(record)["text"] = record.text
      BY <2>5 DEF Columns
    <3>4. u \in DOMAIN reports /\ u \notin DOMAIN staged => Seen[u] = reports[u]
      BY <3>1 DEF Seen, Apply
    <3>5. u \in DOMAIN reports => Described(u)
      BY <3>1, <3>2, <3>3, <3>4 DEF OnlyDescribed, Described
    <3>6. \A r : Described(r) <=> Described(r)'
      BY <2>1 DEF Described, tables, others
    <3> QED
      BY <2>1, <2>2, <3>1, <3>5, <3>6 DEF OnlyDescribed, tables, others
  <2> QED
    BY <2>1, <2>4, <2>5 DEF SpareInv, others
<1> QED
  BY <1>1, <1>2

LEMMA SpareWrite == ASSUME SeedInv, SpareInv, Write PROVE SpareInv'
<1>1. CASE Refused
  BY <1>1, SpareElsewhere DEF Write, Leave
<1>2. CASE ~Refused
  <2> DEFINE one == [x \in {found.uid} |-> found.row]
  <2>1. /\ found # NoFind /\ found' = NoFind /\ UNCHANGED <<tables, stage, todo, lookup, outcome, others>>
        /\ staged' = IF found.row = Empty THEN staged ELSE Apply(staged, one)
        /\ swap' = IF stage # "reports" THEN swap
                   ELSE [out |-> swap.out \cup SubjectsOf(found.uid),
                         in |-> {s \in swap.in : s[1] # found.uid} \cup Pairs(found.uid, found.about)]
    BY <1>2 DEF Write
  <2>2. DOMAIN Apply(staged, one) = DOMAIN staged \cup {found.uid}
    BY DEF Apply
  <2>3. DOMAIN staged' \subseteq DOMAIN staged \cup {found.uid}
    BY <2>1, <2>2
  <2>4. ASSUME ~touched, stage = "users" PROVE AddressesStay'
    <3>1. AddressesStay
      BY <2>4 DEF SpareInv
    <3>2. ASSUME NEW u \in DOMAIN staged', u \in DOMAIN users PROVE "email" \notin DOMAIN staged'[u]
      <4>1. CASE found.row = Empty \/ u # found.uid
        <5>1. u \in DOMAIN staged /\ staged'[u] = staged[u]
          BY <2>1, <2>3, <3>2, <4>1 DEF Apply
        <5> QED
          BY <3>1, <3>2, <5>1 DEF AddressesStay
      <4>2. CASE found.row # Empty /\ u = found.uid /\ u \notin DOMAIN staged
        <5>1. staged'[u] = found.row
          BY <2>1, <4>2 DEF Apply
        <5> QED
          BY <2>1, <3>1, <3>2, <4>2, <5>1 DEF AddressesStay
      <4>3. CASE found.row # Empty /\ u = found.uid /\ u \in DOMAIN staged
        <5>1. staged'[u] = Over(found.row, staged[u])
          BY <2>1, <4>3 DEF Apply
        <5>2. "email" \notin DOMAIN found.row /\ "email" \notin DOMAIN staged[u]
          BY <2>1, <3>1, <3>2, <4>3 DEF AddressesStay
        <5> QED
          BY <5>1, <5>2 DEF Over
      <4> QED
        BY <4>1, <4>2, <4>3
    <3> QED
      BY <2>1, <3>2 DEF AddressesStay, tables
  <2>5. ASSUME ~touched, stage = "reports" PROVE OnlyDescribed'
    <3>1. OnlyDescribed /\ (found.uid \in DOMAIN reports => Described(found.uid))
      BY <2>1, <2>5 DEF SpareInv, OnlyDescribed
    <3>2. \A r : Described(r) <=> Described(r)'
      BY <2>1 DEF Described, tables, others
    <3>3. /\ swap'.out = swap.out \cup SubjectsOf(found.uid)
          /\ swap'.in = {s \in swap.in : s[1] # found.uid} \cup Pairs(found.uid, found.about)
      BY <2>1, <2>5
    <3>4. \A s \in SubjectsOf(found.uid) : s[1] = found.uid /\ s[1] \in DOMAIN reports
      BY TypeOKForm DEF SeedInv, TablesTyped, PairsOf, SubjectsOf
    <3>5. \A s \in Pairs(found.uid, found.about) : s[1] = found.uid
      BY DEF Pairs
    <3>6. \A s \in swap'.out : s[1] \in DOMAIN reports /\ Described(s[1])
      BY <3>1, <3>3, <3>4 DEF OnlyDescribed
    <3>7. \A s \in swap'.in : s[1] \in DOMAIN reports => Described(s[1])
      BY <3>1, <3>3, <3>5 DEF OnlyDescribed
    <3>8. \A r \in DOMAIN staged' : r \in DOMAIN reports => Described(r)
      BY <2>3, <3>1 DEF OnlyDescribed
    <3> QED
      BY <2>1, <3>1, <3>2, <3>6, <3>7, <3>8 DEF OnlyDescribed, tables, others
  <2> QED
    BY <2>1, <2>4, <2>5 DEF SpareInv, others
<1> QED
  BY <1>1, <1>2

LEMMA SpareStarts ==
    ASSUME SeedInv, SpareInv, ComposeUp \/ Migrate \/ Reseed \/ SeedCategories \/ ReadLookups \/ Commit \/ Kill \/ Reset
    PROVE  SpareInv'
<1>1. CASE ComposeUp \/ SeedCategories \/ Commit \/ Kill \/ Reset
  <2>1. stage' # "users" /\ stage' # "reports"
    BY <1>1 DEF ComposeUp, SeedCategories, Commit, After, Upserting, Kill, Leave, Reset
  <2> QED
    BY <2>1, SpareElsewhere
<1>2. CASE Migrate \/ Reseed
  <2>1. stage' \in {"users", "off"} /\ staged' = Empty /\ found' = NoFind
    BY <1>2, BeginForm DEF Migrate, Reseed, SeedInv, StagedTyped, Upserting
  <2> QED
    BY <2>1, EmptyFits DEF SpareInv, AddressesStay
<1>3. CASE ReadLookups
  <2>1. /\ stage' = "reports" /\ staged' = Empty /\ found' = NoFind /\ swap' = NoSwap
        /\ todo' = files.reports /\ files' = files
    BY <1>3 DEF ReadLookups, others, SeedInv, StagedTyped, Upserting
  <2> QED
    BY <2>1, EmptyFits DEF SpareInv, OnlyDescribed
<1> QED
  BY <1>1, <1>2, <1>3

\* The commit of a stage, from what was staged for it.
LEMMA CommitSpares ==
    ASSUME SeedInv, SpareInv, ~touched, Commit
    PROVE  /\ \A u \in DOMAIN users : u \in DOMAIN users' /\ users'[u].email = users[u].email
           /\ \A r \in DOMAIN reports :
                ~Described(r) =>
                    /\ r \in DOMAIN reports' /\ reports'[r] = reports[r]
                    /\ SubjectsOf(r) = {s \in subjects' : s[1] = r}
<1>1. /\ stage \in Upserting /\ subjects' = (subjects \ swap.out) \cup swap.in
      /\ DOMAIN Seen = DOMAIN Table \cup DOMAIN staged
  BY SeenTyped DEF Commit
<1>2. stage # "reports" => subjects' = subjects
  BY <1>1, EmptyFits DEF SeedInv, StagedTyped
<1>3. CASE stage = "users"
  <2>1. users' = Seen /\ reports' = reports /\ Table = users /\ AddressesStay
    BY <1>3 DEF Commit, Table, SpareInv
  <2>2. ASSUME NEW u \in DOMAIN users PROVE users'[u]["email"] = users[u]["email"]
    <3>1. CASE u \in DOMAIN staged
      <4>1. "email" \notin DOMAIN staged[u]
        BY <2>1, <3>1 DEF AddressesStay
      <4>2. users[u] \in UserRow
        BY TypeOKForm DEF SeedInv, TablesTyped, IsTable
      <4>3. "email" \in DOMAIN users[u]
        BY <4>2 DEF UserRow
      <4>4. users'[u] = Over(staged[u], users[u])
        BY <2>1, <3>1 DEF Seen, Apply
      <4> QED
        BY <4>1, <4>3, <4>4 DEF Over
    <3>2. CASE u \notin DOMAIN staged
      BY <2>1, <3>2 DEF Seen, Apply
    <3> QED
      BY <3>1, <3>2
  <2> QED
    BY <1>1, <1>2, <1>3, <2>1, <2>2 DEF SubjectsOf
<1>4. CASE stage = "types"
  <2>1. users' = users /\ reports' = reports
    BY <1>4 DEF Commit
  <2> QED
    BY <1>2, <1>4, <2>1 DEF SubjectsOf
<1>5. CASE stage = "reports"
  <2>1. users' = users /\ reports' = Seen /\ Table = reports /\ OnlyDescribed
    BY <1>5 DEF Commit, Table, SpareInv
  <2>2. ASSUME NEW r \in DOMAIN reports, ~Described(r)
        PROVE  /\ r \in DOMAIN reports' /\ reports'[r] = reports[r]
               /\ SubjectsOf(r) = {s \in subjects' : s[1] = r}
    <3>1. r \notin DOMAIN staged
      BY <2>1, <2>2 DEF OnlyDescribed
    <3>2. r \in DOMAIN Seen /\ Seen[r] = reports[r]
      BY <2>1, <3>1 DEF Seen, Apply
    <3>3. \A s \in swap.out \cup swap.in : s[1] # r
      BY <2>1, <2>2 DEF OnlyDescribed
    <3>4. SubjectsOf(r) = {s \in subjects' : s[1] = r}
      BY <1>1, <3>3 DEF SubjectsOf
    <3> QED
      BY <2>1, <3>2, <3>4
  <2> QED
    BY <2>1, <2>2
<1> QED
  BY <1>1, <1>3, <1>4, <1>5 DEF Upserting

\* A run beside a live system rewrites no report that its files do not describe,
\* nor the subjects of one, and takes no account's row or address away.
THEOREM Spares == Spec => RunSparesOthers
<1> DEFINE Sparing ==
      ~touched /\ SeedStep =>
        /\ \A u \in DOMAIN users : u \in DOMAIN users' /\ users'[u].email = users[u].email
        /\ \A r \in DOMAIN reports :
             reports[r].text \notin {record.text : record \in files.reports} =>
                r \in DOMAIN reports' /\ reports'[r] = reports[r] /\ SubjectsOf(r) = {s \in subjects' : s[1] = r}
<1>1. Init => SpareInv
  BY DEF Init, SpareInv
<1>2. SeedInv /\ SpareInv /\ [Next]_vars => SpareInv'
  <2> SUFFICES ASSUME SeedInv, SpareInv, [Next]_vars PROVE SpareInv'
    OBVIOUS
  <2>1. CASE ComposeUp \/ Migrate \/ Reseed \/ Kill \/ Reset
    BY <2>1, SpareStarts
  <2>2. CASE SeedStep
    <3>1. ASSUME NEW record \in todo, Find(record) PROVE SpareInv'
      BY <3>1, SpareFind
    <3>2. Commit \/ SeedCategories \/ ReadLookups => SpareInv'
      BY SpareStarts
    <3> QED
      BY <2>2, <3>1, <3>2, SpareWrite DEF SeedStep
  <2>3. CASE Administrate \/ (\E t \in TypeIds : FileAutoReport(t)) \/ ExportNewUsers \/ ExportReports
    BY <2>3, SpareOthers
  <2>4. CASE UNCHANGED vars
    BY <2>4 DEF vars, tables, run, others, SpareInv, AddressesStay, OnlyDescribed, Described
  <2> QED
    BY <2>1, <2>2, <2>3, <2>4 DEF Next
<1>3. SeedInv /\ SpareInv /\ [Next]_vars => [Sparing]_vars
  <2> SUFFICES ASSUME SeedInv, SpareInv, ~touched, SeedStep PROVE Sparing
    OBVIOUS
  <2>1. CASE Commit
    BY <2>1, CommitSpares DEF Described
  <2>2. CASE UNCHANGED <<users, reports, subjects>>
    BY <2>2 DEF SubjectsOf
  <2>3. SeedStep => Commit \/ UNCHANGED <<users, reports, subjects>>
    BY DEF SeedStep, Find, Write, Leave, SeedCategories, ReadLookups, tables
  <2> QED
    BY <2>1, <2>2, <2>3
<1>4. [][Sparing]_vars => RunSparesOthers
  BY DEF RunSparesOthers
<1> QED
  BY <1>1, <1>2, <1>3, <1>4, SeedInvariant, PTL DEF Spec

-----------------------------------------------------------------------------
(* The system account, in a database no administrator has edited *)

SystemRow == [email |-> System, role |-> "CREATOR"]
IsSystem(row) == row.email \in {System, Legacy}

\* The former databases, before the migrations of this version.
OlderDatabase ==
    /\ revision # "e3" => ~serving /\ stage \in {"off", "migrate"}
    /\ revision = "b0" => users = Empty
    /\ revision = "c1" => \E u \in UserIds : DOMAIN users = {u} /\ IsSystem(users[u])
    /\ revision = "d2" => \E u \in UserIds : DOMAIN users = {u} /\ users[u].email = System

OneAccount(table) ==
    \E u \in DOMAIN table : table[u] = SystemRow /\ \A v \in DOMAIN table : IsSystem(table[v]) => v = u

\* The files, exported or not, know the account as the migrations leave it.
FilesAgree ==
    /\ \A row \in files.users : IsSystem(row) => row = SystemRow
    /\ draft # Nothing => \A row \in draft : IsSystem(row) => row = SystemRow

\* A change to a row that neither is the account nor becomes another.
Harmless(u, columns) ==
    /\ "email" \in DOMAIN columns => columns["email"] \notin {System, Legacy}
    /\ u \in DOMAIN users => ~IsSystem(users[u])

UsersHarmless ==
    /\ todo \subseteq files.users
    /\ \A u \in DOMAIN staged : Harmless(u, staged[u])
    /\ found # NoFind => found.row = Empty \/ Harmless(found.uid, found.row)

AccountInv ==
    /\ OlderDatabase
    /\ edits = 0 => FilesAgree
    /\ edits = 0 /\ revision = "e3" => OneAccount(users) /\ (stage = "users" => UsersHarmless)

LEMMA SystemRowForm == SystemRow \in UserRow /\ IsSystem(SystemRow) /\ SystemRow.email = System
BY EmailsAssumption DEF SystemRow, UserRow, IsSystem, Roles

\* Each migration path ends with one account, of the lower role.
LEMMA UpgradeAccount ==
    ASSUME SeedInv, OlderDatabase, edits = 0, revision = "e3" => OneAccount(users), NEW rows \in Upgrade(users)
    PROVE  OneAccount(rows)
<1> USE EmailsAssumption
<1>1. IsTable(users, UserIds, UserRow) /\ revision \in {"b0", "c1", "d2", "e3"}
  BY TypeOKForm DEF SeedInv, TablesTyped, RestTyped
<1>2. ASSUME NEW t, NEW u, DOMAIN t = {u}, t[u] \in UserRow, t[u].email = System
      PROVE  OneAccount(Demote(t))
  <2>1. DOMAIN Demote(t) = {u} /\ Demote(t)[u] = [t[u] EXCEPT !.role = "CREATOR"]
    BY <1>2 DEF Demote
  <2>2. Demote(t)[u] = SystemRow
    BY <1>2, <2>1 DEF UserRow, SystemRow
  <2> QED
    BY <2>1, <2>2 DEF OneAccount
<1>3. ASSUME NEW t, NEW u, DOMAIN t = {u}, t[u] \in UserRow, IsSystem(t[u])
      PROVE  DOMAIN Rename(t) = {u} /\ Rename(t)[u] \in UserRow /\ Rename(t)[u].email = System
  <2> DEFINE renamed == [v \in DOMAIN t |-> IF t[v].email = Legacy THEN [t[v] EXCEPT !.email = System] ELSE t[v]]
  <2>1. DOMAIN renamed = {u}
    BY <1>3
  <2>2. renamed[u] \in UserRow /\ renamed[u].email = System
    BY <1>3 DEF UserRow, IsSystem
  <2> HIDE DEF renamed
  <2>3. DOMAIN Demote(renamed) = {u} /\ Demote(renamed)[u] = [renamed[u] EXCEPT !.role = "CREATOR"]
    BY <2>1, <2>2 DEF Demote
  <2>4. Demote(renamed)[u] \in UserRow /\ Demote(renamed)[u].email = System
    BY <2>2, <2>3 DEF UserRow, Roles
  <2> QED
    BY <2>3, <2>4 DEF Rename, renamed
<1>4. CASE revision = "b0"
  <2>1. users = Empty
    BY <1>4 DEF OlderDatabase
  <2>2. PICK t \in SeedSystemUser(users) : rows = Demote(Rename(t))
    BY <1>4 DEF Upgrade
  <2>3. PICK u \in NewId(UserIds) : t = Put(u, SystemRow, Empty)
    BY <2>1, <2>2, EmptyFits DEF SeedSystemUser, SystemRow
  <2>4. DOMAIN t = {u} /\ t[u] = SystemRow
    BY <2>3, EmptyFits DEF Put, Over
  <2>5. DOMAIN Rename(t) = {u} /\ Rename(t)[u] \in UserRow /\ Rename(t)[u].email = System
    BY <1>3, <2>4, SystemRowForm
  <2> QED
    BY <1>2, <2>2, <2>5
<1>5. CASE revision = "c1"
  <2>1. PICK u \in UserIds : DOMAIN users = {u} /\ IsSystem(users[u])
    BY <1>5 DEF OlderDatabase
  <2>2. rows = Demote(Rename(users)) /\ users[u] \in UserRow
    BY <1>1, <1>5, <2>1 DEF Upgrade, IsTable
  <2>3. DOMAIN Rename(users) = {u} /\ Rename(users)[u] \in UserRow /\ Rename(users)[u].email = System
    BY <1>3, <2>1, <2>2
  <2> QED
    BY <1>2, <2>2, <2>3
<1>6. CASE revision = "d2"
  <2>1. PICK u \in UserIds : DOMAIN users = {u} /\ users[u].email = System
    BY <1>6 DEF OlderDatabase
  <2>2. rows = Demote(users) /\ users[u] \in UserRow
    BY <1>1, <1>6, <2>1 DEF Upgrade, IsTable
  <2> QED
    BY <1>2, <2>1, <2>2
<1>7. CASE revision = "e3"
  BY <1>7 DEF Upgrade
<1> QED
  BY <1>1, <1>4, <1>5, <1>6, <1>7

\* The invariant after a step that leaves the accounts and the revision alone.
LEMMA AccountElsewhere ==
    ASSUME AccountInv, UNCHANGED <<users, revision, serving>>, edits' = 0 => edits = 0,
           revision # "e3" => stage' \in {"off", "migrate"},
           edits' = 0 => FilesAgree',
           edits' = 0 /\ revision = "e3" /\ stage' = "users" => UsersHarmless'
    PROVE  AccountInv'
BY DEF AccountInv, OlderDatabase, OneAccount

LEMMA AccountMigrate == ASSUME SeedInv, AccountInv, Migrate PROVE AccountInv'
<1>1. /\ todo' \in {files.users, {}} /\ staged' = Empty /\ found' = NoFind
      /\ stage' # "users" \/ todo' = files.users
      /\ revision' = "e3" /\ users' \in Upgrade(users) /\ UNCHANGED <<files, serving, edits, draft>>
  BY BeginForm DEF Migrate, SeedInv, StagedTyped, Upserting
<1>2. OlderDatabase'
  BY <1>1 DEF OlderDatabase
<1>3. edits = 0 => FilesAgree'
  BY <1>1 DEF AccountInv, FilesAgree
<1>4. edits = 0 => OneAccount(users')
  BY <1>1, UpgradeAccount DEF AccountInv
<1>5. stage' = "users" => UsersHarmless'
  BY <1>1, EmptyFits DEF UsersHarmless
<1> QED
  BY <1>1, <1>2, <1>3, <1>4, <1>5 DEF AccountInv

\* As the session sees it, no row that the run writes is the account.
LEMMA SeenHarmless ==
    ASSUME SeedInv, stage = "users", UsersHarmless, NEW v \in DOMAIN staged
    PROVE  ~IsSystem(Seen[v])
<1>1. Table = users /\ Fits(staged, users, UserIds, UserRow) /\ Harmless(v, staged[v])
  BY SeenTyped DEF Table, StageIds, StageRow, Upserting, UsersHarmless
<1>2. CASE v \in DOMAIN users
  <2>1. Seen[v] = Over(staged[v], users[v]) /\ users[v] \in UserRow
    BY <1>1, <1>2, TypeOKForm DEF Seen, Apply, SeedInv, TablesTyped, IsTable
  <2>2. "email" \in DOMAIN users[v]
    BY <2>1 DEF UserRow
  <2>3. Seen[v]["email"] \notin {System, Legacy}
    BY <1>1, <1>2, <2>1, <2>2 DEF Over, Harmless, IsSystem
  <2> QED
    BY <2>3 DEF IsSystem
<1>3. CASE v \notin DOMAIN users
  <2>1. Seen[v] = staged[v] /\ staged[v] \in UserRow
    BY <1>1, <1>3 DEF Seen, Apply, Fits
  <2>2. "email" \in DOMAIN staged[v]
    BY <2>1 DEF UserRow
  <2>3. Seen[v]["email"] \notin {System, Legacy}
    BY <1>1, <2>1, <2>2 DEF Harmless
  <2> QED
    BY <2>3 DEF IsSystem
<1> QED
  BY <1>2, <1>3

LEMMA AccountFind ==
    ASSUME SeedInv, AccountInv, NEW record \in todo, Find(record)
    PROVE  AccountInv'
<1>1. stage \in Upserting /\ UNCHANGED <<tables, others>>
  BY DEF Find, Leave
<1>2. FilesAgree => FilesAgree'
  BY <1>1 DEF FilesAgree, others
<1>3. stage' = "off" \/ (stage' = stage /\ revision = "e3")
  BY <1>1 DEF Find, Leave, AccountInv, OlderDatabase, Upserting
<1>4. ASSUME edits = 0, revision = "e3", stage' = "users" PROVE UsersHarmless'
  <2>1. /\ Resolves(record) /\ stage = "users" /\ UNCHANGED <<staged, users, files>> /\ todo' = todo \ {record}
    BY <1>4 DEF Find, Leave, tables, others
  <2>2. PICK u \in Targets(record) : found'.uid = u /\ found'.row = Changes(u, Columns(record))
    BY <1>4 DEF Find, Leave
  <2>3. UsersHarmless /\ OneAccount(users) /\ FilesAgree
    BY <1>4, <2>1 DEF AccountInv
  <2>4. Columns(record) = record /\ Table = users /\ Key = {"email"} /\ DOMAIN Seen = DOMAIN users \cup DOMAIN staged
    BY <1>1, <2>1, SeenTyped DEF Columns, Table, Key
  <2>5. record \in UserRow /\ (IsSystem(record) => record = SystemRow)
    BY <2>1, <2>3 DEF SeedInv, TodoTyped, UsersHarmless, FilesAgree
  <2>6. \A v \in DOMAIN users : v \notin DOMAIN staged => Seen[v] = users[v]
    BY <2>4 DEF Seen, Apply
  <2>7. \A v \in DOMAIN staged : ~IsSystem(Seen[v])
    BY <2>1, <2>3, SeenHarmless
  <2>8. PICK account \in DOMAIN users : /\ users[account] = SystemRow
                                       /\ \A v \in DOMAIN users : IsSystem(users[v]) => v = account
    BY <2>3 DEF OneAccount
  <2>9. account \notin DOMAIN staged /\ Seen[account] = SystemRow
    BY <2>3, <2>6, <2>8, SystemRowForm DEF UsersHarmless, Harmless
  <2>10. CASE IsSystem(record)
    <3>1. record = SystemRow /\ account \in Matching(record)
      BY <2>4, <2>5, <2>9, <2>10 DEF Matching
    <3>2. u \in DOMAIN Seen /\ Seen[u]["email"] = record["email"]
      BY <2>2, <2>4, <3>1 DEF Targets, Matching
    <3>3. u \in DOMAIN users /\ Seen[u] = users[u]
      BY <2>4, <2>6, <2>7, <2>10, <3>2 DEF IsSystem
    <3>4. u = account
      BY <2>8, <2>10, <3>2, <3>3 DEF IsSystem
    <3>5. Changes(u, record) = Empty
      BY <2>9, <3>1, <3>2, <3>4 DEF Changes, Restrict, Empty
    <3> QED
      BY <2>1, <2>2, <2>3, <2>4, <3>5 DEF UsersHarmless, Harmless
  <2>11. CASE ~IsSystem(record)
    <3>1. u \in DOMAIN users => u \in DOMAIN Seen /\ Seen[u]["email"] = record["email"]
      BY <1>1, <2>2, <2>4, TargetsForm
    <3>2. u \in DOMAIN users => ~IsSystem(users[u])
      BY <2>3, <2>6, <2>11, <3>1 DEF UsersHarmless, Harmless, IsSystem
    <3>3. "email" \in DOMAIN Changes(u, record) => Changes(u, record)["email"] = record["email"]
      BY <2>1, <2>5, ChangesPart DEF StageRow
    <3>4. Harmless(u, Changes(u, record))
      BY <2>11, <3>2, <3>3 DEF Harmless, IsSystem
    <3> QED
      BY <2>1, <2>2, <2>3, <2>4, <3>4 DEF UsersHarmless, Harmless
  <2> QED
    BY <2>10, <2>11
<1> QED
  BY <1>1, <1>2, <1>3, <1>4, AccountElsewhere DEF AccountInv, tables, others

LEMMA AccountWrite == ASSUME SeedInv, AccountInv, Write PROVE AccountInv'
<1>1. stage \in Upserting /\ UNCHANGED <<tables, others>>
  BY DEF Write, Leave, SeedInv, StagedTyped
<1>2. FilesAgree => FilesAgree'
  BY <1>1 DEF FilesAgree, others
<1>3. stage' = "off" \/ (stage' = stage /\ revision = "e3")
  BY <1>1 DEF Write, Leave, AccountInv, OlderDatabase, Upserting
<1>4. ASSUME edits = 0, revision = "e3", stage' = "users" PROVE UsersHarmless'
  <2> DEFINE one == [x \in {found.uid} |-> found.row]
  <2>1. /\ found # NoFind /\ found' = NoFind /\ stage = "users" /\ UNCHANGED <<todo, users, files>>
        /\ staged' = IF found.row = Empty THEN staged ELSE Apply(staged, one)
    BY <1>4 DEF Write, Leave, tables, others
  <2>2. UsersHarmless
    BY <1>4, <2>1 DEF AccountInv
  <2>3. ASSUME NEW u \in DOMAIN staged' PROVE Harmless(u, staged'[u])
    <3>1. CASE found.row = Empty \/ u # found.uid
      <4>1. u \in DOMAIN staged /\ staged'[u] = staged[u]
        BY <2>1, <2>3, <3>1 DEF Apply
      <4> QED
        BY <2>2, <4>1 DEF UsersHarmless
    <3>2. CASE found.row # Empty /\ u = found.uid /\ u \notin DOMAIN staged
      <4>1. staged'[u] = found.row
        BY <2>1, <3>2 DEF Apply
      <4> QED
        BY <2>1, <2>2, <3>2, <4>1 DEF UsersHarmless
    <3>3. CASE found.row # Empty /\ u = found.uid /\ u \in DOMAIN staged
      <4>1. staged'[u] = Over(found.row, staged[u])
        BY <2>1, <3>3 DEF Apply
      <4>2. Harmless(u, found.row) /\ Harmless(u, staged[u])
        BY <2>1, <2>2, <3>3 DEF UsersHarmless
      <4> QED
        BY <4>1, <4>2 DEF Over, Harmless
    <3> QED
      BY <3>1, <3>2, <3>3
  <2> QED
    BY <2>1, <2>2, <2>3 DEF UsersHarmless, Harmless
<1> QED
  BY <1>1, <1>2, <1>3, <1>4, AccountElsewhere DEF AccountInv, tables, others

LEMMA AccountCommit == ASSUME SeedInv, AccountInv, Commit PROVE AccountInv'
<1>1. /\ stage \in Upserting /\ stage' = After[stage] /\ UNCHANGED <<revision, files, edits, draft>>
      /\ users' = IF stage = "users" THEN Seen ELSE users
  BY DEF Commit
<1>2. stage' # "users" /\ revision = "e3"
  BY <1>1 DEF After, Upserting, AccountInv, OlderDatabase
<1>3. OlderDatabase' /\ (FilesAgree => FilesAgree')
  BY <1>1, <1>2 DEF OlderDatabase, FilesAgree
<1>4. ASSUME edits = 0, stage = "users" PROVE OneAccount(Seen)
  <2>1. UsersHarmless /\ OneAccount(users)
    BY <1>2, <1>4 DEF AccountInv
  <2>2. /\ Table = users /\ DOMAIN Seen = DOMAIN users \cup DOMAIN staged
        /\ Fits(staged, users, UserIds, UserRow)
    BY <1>1, <1>4, SeenTyped DEF Table, StageIds, StageRow
  <2>3. PICK account \in DOMAIN users : /\ users[account] = SystemRow
                                       /\ \A v \in DOMAIN users : IsSystem(users[v]) => v = account
    BY <2>1 DEF OneAccount
  <2>4. \A v \in DOMAIN users : v \notin DOMAIN staged => Seen[v] = users[v]
    BY <2>2 DEF Seen, Apply
  <2>5. Seen[account] = SystemRow
    BY <2>1, <2>3, <2>4, SystemRowForm DEF UsersHarmless, Harmless
  <2>6. \A v \in DOMAIN staged : ~IsSystem(Seen[v])
    BY <1>4, <2>1, SeenHarmless
  <2>7. \A v \in DOMAIN Seen : IsSystem(Seen[v]) => v = account
    BY <2>2, <2>3, <2>4, <2>6 DEF IsSystem
  <2> QED
    BY <2>2, <2>3, <2>5, <2>7 DEF OneAccount
<1>5. edits = 0 => OneAccount(users')
  BY <1>1, <1>2, <1>4 DEF AccountInv
<1> QED
  BY <1>1, <1>2, <1>3, <1>5 DEF AccountInv

LEMMA AccountOthers ==
    ASSUME SeedInv, AccountInv, Administrate \/ \E t \in TypeIds : FileAutoReport(t)
    PROVE  AccountInv'
<1>1. edits' = edits + 1 /\ edits \in Nat /\ UNCHANGED <<revision, serving, stage>>
  BY TypeOKForm
     DEF Administrate, PutUser, DeleteUser, PutType, PutReport, DeleteReport, Edit, FileAutoReport, run, SeedInv, RestTyped
<1>2. edits' # 0
  BY <1>1
<1>3. serving \/ UNCHANGED users
  BY DEF Administrate, PutUser, DeleteUser, PutType, PutReport, DeleteReport, Edit, FileAutoReport
<1>4. OlderDatabase'
  BY <1>1, <1>3 DEF AccountInv, OlderDatabase
<1> QED
  BY <1>2, <1>4 DEF AccountInv

LEMMA AccountFiles ==
    ASSUME SeedInv, AccountInv, Reset \/ ExportNewUsers \/ ExportReports
    PROVE  AccountInv'
<1>1. CASE Reset
  <2>1. /\ users' = Empty /\ revision' = "b0" /\ ~serving' /\ stage' = "off"
        /\ UNCHANGED <<files, draft, edits>>
    BY <1>1 DEF Reset
  <2> QED
    BY <2>1 DEF AccountInv, OlderDatabase, FilesAgree
<1>2. CASE ExportNewUsers
  <2>1. UNCHANGED <<users, revision, serving, stage, todo, staged, found, files, edits>> /\ revision = "e3"
    BY <1>2 DEF ExportNewUsers, tables, run, AccountInv, OlderDatabase
  <2>2. edits = 0 => FilesAgree'
    <3>1. draft' \subseteq {users[u] : u \in DOMAIN users}
      BY <1>2 DEF ExportNewUsers
    <3>2. edits = 0 => \A u \in DOMAIN users : IsSystem(users[u]) => users[u] = SystemRow
      BY <2>1 DEF AccountInv, OneAccount
    <3> QED
      BY <2>1, <3>1, <3>2 DEF AccountInv, FilesAgree
  <2>3. UsersHarmless => UsersHarmless'
    BY <2>1 DEF UsersHarmless, Harmless
  <2> QED
    BY <2>1, <2>2, <2>3, AccountElsewhere DEF AccountInv
<1>3. CASE ExportReports
  <2>1. UNCHANGED <<users, revision, serving, stage, edits>> /\ stage = "off"
    BY <1>3 DEF ExportReports, tables, run
  <2>2. draft # Nothing /\ draft' = Nothing /\ files'.users = files.users \cup draft
    BY <1>3 DEF ExportReports
  <2>3. FilesAgree => FilesAgree'
    BY <2>2 DEF FilesAgree
  <2> QED
    BY <2>1, <2>3, AccountElsewhere DEF AccountInv
<1> QED
  BY <1>1, <1>2, <1>3

LEMMA AccountStarts ==
    ASSUME SeedInv, AccountInv, ComposeUp \/ Reseed \/ Kill \/ SeedCategories \/ ReadLookups
    PROVE  AccountInv'
<1>1. UNCHANGED <<users, revision, serving, files, draft, edits>>
  BY DEF ComposeUp, Reseed, Kill, Leave, SeedCategories, ReadLookups, tables, others
<1>2. FilesAgree => FilesAgree'
  BY <1>1 DEF FilesAgree
<1>3. revision # "e3" => stage' \in {"off", "migrate"}
  BY DEF ComposeUp, Reseed, Kill, Leave, SeedCategories, ReadLookups, AccountInv, OlderDatabase
<1>4. stage' = "users" => UsersHarmless'
  <2>1. stage' = "users" => todo' = files.users /\ staged' = Empty /\ found' = NoFind
    BY DEF ComposeUp, Reseed, Begin, Kill, Leave, SeedCategories, ReadLookups, SeedInv, StagedTyped, Upserting
  <2> QED
    BY <1>1, <2>1, EmptyFits DEF UsersHarmless
<1> QED
  BY <1>1, <1>2, <1>3, <1>4, AccountElsewhere DEF AccountInv

LEMMA InitAccount == Init => AccountInv
<1> SUFFICES ASSUME Init PROVE AccountInv
  OBVIOUS
<1>1. OlderDatabase
  <2>1. ASSUME NEW e \in {System, Legacy}, NEW r \in Roles, users = Put(Uid0, [email |-> e, role |-> r], Empty)
        PROVE  DOMAIN users = {Uid0} /\ users[Uid0].email = e
    BY <2>1, EmptyFits DEF Put, Over
  <2>2. Uid0 \in UserIds
    BY UidsAssumption DEF Uid0
  <2>3. CASE revision = "b0"
    BY <2>3 DEF Init, OlderDatabase
  <2>4. CASE revision = "c1"
    <3>1. PICK e \in {System, Legacy}, r \in Roles : users = Put(Uid0, [email |-> e, role |-> r], Empty)
      BY <2>4 DEF Init
    <3>2. DOMAIN users = {Uid0} /\ IsSystem(users[Uid0])
      BY <2>1, <3>1 DEF IsSystem
    <3> QED
      BY <2>2, <2>4, <3>2 DEF Init, OlderDatabase
  <2>5. CASE revision = "d2"
    <3>1. PICK r \in Roles : users = Put(Uid0, [email |-> System, role |-> r], Empty)
      BY <2>5 DEF Init
    <3>2. DOMAIN users = {Uid0} /\ users[Uid0].email = System
      BY <2>1, <3>1
    <3> QED
      BY <2>2, <2>5, <3>2 DEF Init, OlderDatabase
  <2> QED
    BY <2>3, <2>4, <2>5 DEF Init
<1>2. FilesAgree
  BY AccountAssumption DEF Init, FilesAgree, IsSystem
<1> QED
  BY <1>1, <1>2 DEF Init, AccountInv

\* Whichever migrations an older database had seen, and however often it is seeded,
\* exported and reset after them, one account answers to the emitter's address or
\* the former one until somebody edits the tables, and it has no rights over the plant.
THEOREM OneAccountStays == Spec => []OneSystemAccount
<1>1. SeedInv /\ AccountInv /\ [Next]_vars => AccountInv'
  <2> SUFFICES ASSUME SeedInv, AccountInv, [Next]_vars PROVE AccountInv'
    OBVIOUS
  <2>1. CASE ComposeUp \/ Reseed \/ Kill
    BY <2>1, AccountStarts
  <2>2. CASE Migrate
    BY <2>2, AccountMigrate
  <2>3. CASE SeedStep
    <3>1. ASSUME NEW record \in todo, Find(record) PROVE AccountInv'
      BY <3>1, AccountFind
    <3>2. SeedCategories \/ ReadLookups => AccountInv'
      BY AccountStarts
    <3> QED
      BY <2>3, <3>1, <3>2, AccountWrite, AccountCommit DEF SeedStep
  <2>4. CASE Administrate \/ \E t \in TypeIds : FileAutoReport(t)
    BY <2>4, AccountOthers
  <2>5. CASE Reset \/ ExportNewUsers \/ ExportReports
    BY <2>5, AccountFiles
  <2>6. CASE UNCHANGED vars
    BY <2>6 DEF vars, tables, run, others, AccountInv, OlderDatabase, FilesAgree, OneAccount, UsersHarmless, Harmless
  <2> QED
    BY <2>1, <2>2, <2>3, <2>4, <2>5, <2>6 DEF Next
<1>2. AccountInv => OneSystemAccount
  BY DEF AccountInv, OneSystemAccount, OneAccount, SystemRow, IsSystem
<1> QED
  BY InitAccount, <1>1, <1>2, SeedInvariant, PTL DEF Spec

-----------------------------------------------------------------------------
(* What a run has still to do, and what it has done *)

SeededUsers ==
    \A record \in files.users : \E u \in DOMAIN users : users[u].email = record.email /\ users[u] \in files.users

SeededTypes == \A record \in SeedTypes : \E t \in DOMAIN types : types[t] = record

Records == IF stage = "users" THEN files.users ELSE IF stage = "types" THEN SeedTypes ELSE files.reports

SameColumns(a, b) == \A c \in Key : a[c] = b[c]

\* The row that the UPDATE or INSERT under way leaves behind.
Result == IF found.uid \in DOMAIN Seen THEN Over(found.row, Seen[found.uid]) ELSE found.row

\* The subjects of a report once the open transaction commits.
SwappedSubjects(r) == {s \in (subjects \ swap.out) \cup swap.in : s[1] = r}

AboutOf(record) == {lookup.user[e] : e \in record.about}

\* The record that has been found.
Pending(p) ==
    /\ p \in Records /\ Resolves(p) /\ Result = Columns(p)
    /\ stage = "reports" => found.about = AboutOf(p)

\* The row u is as record p has it.
DoneAs(u, p) ==
    /\ p \in Records /\ Resolves(p) /\ u \in DOMAIN Seen /\ Seen[u] = Columns(p)
    /\ stage = "reports" => SwappedSubjects(u) = Pairs(u, AboutOf(p))

\* What has been found is still so when it is written.
FoundHolds ==
    found # NoFind =>
        /\ \E p \in Records : Pending(p)
        /\ found.new => found.uid \notin DOMAIN Seen
        /\ ~found.new => found.uid \in DOMAIN Seen
        /\ found.uid \in DOMAIN Seen => SameColumns(Seen[found.uid], Result)
        /\ stage = "types" /\ found.new => \A t \in DOMAIN Seen : ~SameColumns(Seen[t], Result)

Handled(record) ==
    /\ Resolves(record)
    /\ \/ found # NoFind /\ SameColumns(Columns(record), Result)
       \/ \E u \in DOMAIN Seen, p \in Records : DoneAs(u, p) /\ SameColumns(Columns(record), Seen[u])

\* No record is forgotten: it is still to come, or a row with its key is as a record has it.
Progress ==
    stage \in Upserting =>
        /\ todo \subseteq Records
        /\ FoundHolds
        /\ \A record \in Records : record \in todo \/ Handled(record)

\* The lookups name the rows they were read from.
LookupsHold ==
    stage = "reports" =>
        /\ DOMAIN lookup.user = {users[u].email : u \in DOMAIN users}
        /\ \A e \in DOMAIN lookup.user : lookup.user[e] \in DOMAIN users /\ users[lookup.user[e]].email = e
        /\ DOMAIN lookup.type = {types[t].code : t \in DOMAIN types}
        /\ \A c \in DOMAIN lookup.type : lookup.type[c] \in DOMAIN types /\ types[lookup.type[c]].code = c

\* What the stages before have seeded.
SeededSoFar ==
    /\ stage \in {"categories", "types", "lookups", "reports"} => SeededUsers
    /\ stage \in {"types", "lookups", "reports"} => categories
    /\ stage \in {"lookups", "reports"} => SeededTypes

RunInv ==
    /\ FinishedRunSeeds /\ OnlyEditsStopARun
    /\ stage # "off" => outcome = "none"
    /\ ~touched => Progress /\ LookupsHold /\ SeededSoFar

-----------------------------------------------------------------------------
(* A run over a seeded database *)

DistinctCodes(table) == \A t, u \in DOMAIN table : table[t].code = table[u].code => t = u

\* incident_types.code is unique, as the open transaction sees it too.
CodesInv ==
    /\ DistinctCodes(types)
    /\ stage = "types" =>
        /\ DistinctCodes(Seen)
        /\ \A t \in DOMAIN staged : t \in DOMAIN types => "code" \notin DOMAIN staged[t]
        /\ found # NoFind => (found.uid \in DOMAIN Seen => "code" \notin DOMAIN found.row)

\* What RerunChangesNothing assumes, as far as it matters to the stage.
UsersAsSeeded ==
    /\ SeededUsers
    /\ \A u, v \in DOMAIN users : users[u].email = users[v].email => u = v
    /\ \A a, b \in files.users : a.email = b.email => a = b

ReportsAsSeeded ==
    /\ \A record \in files.reports : record.text # Automatic /\ Present(record)
    /\ \A u, v \in DOMAIN users : users[u].email = users[v].email => u = v
    /\ \A r, s \in DOMAIN reports :
         reports[r].text # Automatic /\ reports[r].text = reports[s].text /\ reports[r].type = reports[s].type => r = s

NothingStaged ==
    /\ staged = Empty
    /\ found # NoFind => found.row = Empty
    /\ stage = "reports" =>
        /\ swap.in = swap.out /\ swap.out \subseteq subjects
        /\ found # NoFind => Pairs(found.uid, found.about) = SubjectsOf(found.uid)

RerunInv ==
    ~touched =>
        /\ stage = "users" /\ UsersAsSeeded => NothingStaged
        /\ stage = "types" /\ SeededTypes => NothingStaged
        /\ stage = "reports" /\ ReportsAsSeeded => NothingStaged

LEMMA OverAssociates ==
    ASSUME NEW a, NEW b, NEW c
    PROVE  Over(Over(a, b), c) = Over(a, Over(b, c))
BY DEF Over

\* An UPDATE of the columns that differ leaves the record's row.
LEMMA OverChanges ==
    ASSUME NEW u \in DOMAIN Seen, NEW row, DOMAIN Seen[u] = DOMAIN row, row = [x \in DOMAIN row |-> row[x]]
    PROVE  Over(Changes(u, row), Seen[u]) = row
<1> DEFINE D == {c \in DOMAIN row : Seen[u][c] # row[c]}
           new == Changes(u, row)
<1>1. DOMAIN new = D /\ \A c \in D : new[c] = row[c]
  BY DEF Changes, Restrict
<1>2. DOMAIN Over(new, Seen[u]) = DOMAIN row
  BY <1>1 DEF Over
<1>3. ASSUME NEW x \in DOMAIN row PROVE Over(new, Seen[u])[x] = row[x]
  BY <1>1 DEF Over
<1>4. Over(new, Seen[u]) = [x \in DOMAIN Over(new, Seen[u]) |-> Over(new, Seen[u])[x]]
  BY DEF Over
<1> QED
  BY <1>2, <1>3, <1>4

LEMMA StageRowDomain ==
    ASSUME NEW a \in StageRow, NEW b \in StageRow
    PROVE  DOMAIN a = DOMAIN b
<1>1. CASE stage = "users"
  BY <1>1 DEF StageRow, UserRow
<1>2. CASE stage = "types"
  BY <1>2 DEF StageRow, TypeRow
<1>3. CASE stage \notin {"users", "types"}
  BY <1>3 DEF StageRow, ReportRow
<1> QED
  BY <1>1, <1>2, <1>3

\* What the session sees, and what the files say, while nobody commits.
LEMMA SameSession ==
    ASSUME UNCHANGED <<tables, stage, staged, lookup, files>>
    PROVE  /\ Table' = Table /\ Seen' = Seen /\ Key' = Key /\ Records' = Records
           /\ \A p : (Resolves(p)' <=> Resolves(p)) /\ Columns(p)' = Columns(p) /\ AboutOf(p)' = AboutOf(p)
           /\ \A a, b : SameColumns(a, b)' <=> SameColumns(a, b)
<1>1. Table' = Table /\ Key' = Key /\ Records' = Records
  BY DEF Table, Key, Records, tables
<1>2. Seen' = Seen
  BY <1>1 DEF Seen
<1>3. \A p : (Resolves(p)' <=> Resolves(p)) /\ Columns(p)' = Columns(p) /\ AboutOf(p)' = AboutOf(p)
  BY DEF Resolves, Columns, AboutOf
<1>4. \A a, b : SameColumns(a, b)' <=> SameColumns(a, b)
  BY <1>1 DEF SameColumns
<1> QED
  BY <1>1, <1>2, <1>3, <1>4

\* What a record that resolves is looked up as.
LEMMA FindForm ==
    ASSUME SeedInv, NEW record \in todo, Find(record), Resolves(record)
    PROVE  /\ stage \in Upserting /\ found = NoFind /\ todo' = todo \ {record}
           /\ UNCHANGED <<tables, stage, staged, swap, lookup, outcome, others>>
           /\ found' # NoFind
           /\ found'.new => found'.uid \notin DOMAIN Seen /\ \A u \in DOMAIN Seen : ~SameColumns(Seen[u], Columns(record))
           /\ ~found'.new => found'.uid \in DOMAIN Seen
           /\ found'.uid \in DOMAIN Seen => SameColumns(Seen[found'.uid], Columns(record))
           /\ found'.row = Changes(found'.uid, Columns(record))
           /\ Result' = Columns(record)
           /\ stage = "reports" => found'.about = AboutOf(record)
<1> DEFINE row == Columns(record)
           about == IF stage = "reports" THEN {lookup.user[e] : e \in record.about} ELSE {}
<1>1. PICK u \in Targets(record) : found' = [uid |-> u, new |-> u \notin DOMAIN Seen, row |-> Changes(u, row), about |-> about]
  BY DEF Find
<1>2. /\ stage \in Upserting /\ found = NoFind /\ todo' = todo \ {record}
      /\ UNCHANGED <<tables, stage, staged, swap, lookup, outcome, others>>
  BY DEF Find
<1>3. row \in StageRow
  BY <1>2, ColumnsTyped
<1>4. stage = "reports" => about = AboutOf(record)
  BY DEF AboutOf
<1>5. u \in StageIds
  <2>1. Matching(row) \subseteq DOMAIN Seen /\ DOMAIN Seen \subseteq StageIds
    BY <1>2, SeenTyped DEF IsTable, Matching
  <2> QED
    BY <1>1, <2>1, NewIdUnused DEF Targets
<1>6. \/ u \in DOMAIN Seen /\ SameColumns(Seen[u], row)
      \/ u \notin DOMAIN Seen /\ \A v \in DOMAIN Seen : ~SameColumns(Seen[v], row)
  <2>1. CASE Matching(row) # {}
    <3>1. u \in Matching(row)
      BY <1>1, <2>1 DEF Targets
    <3> QED
      BY <3>1 DEF Matching, SameColumns
  <2>2. CASE Matching(row) = {}
    <3>1. u \in NewId(StageIds)
      BY <1>1, <2>2 DEF Targets
    <3>2. u \notin DOMAIN Seen
      BY <1>2, <3>1, NewIdUnused, SeenTyped DEF UsedIds, Table
    <3>3. \A v \in DOMAIN Seen : ~SameColumns(Seen[v], row)
      BY <2>2 DEF Matching, SameColumns
    <3> QED
      BY <3>2, <3>3
  <2> QED
    BY <2>1, <2>2
<1> HIDE DEF row, about
<1>7. /\ found'.uid = u /\ found'.new = (u \notin DOMAIN Seen)
      /\ found'.row = Changes(u, row) /\ found'.about = about
  BY <1>1
<1>8. found' # NoFind
  BY <1>5, <1>7, UidsAssumption DEF NoFind, StageIds
<1>9. Seen' = Seen
  BY <1>2, SameSession DEF others
<1>10. Result' = row
  <2>1. CASE u \in DOMAIN Seen
    <3>1. Seen[u] \in StageRow
      BY <1>2, <2>1, SeenTyped DEF IsTable
    <3>2. DOMAIN Seen[u] = DOMAIN row /\ row = [x \in DOMAIN row |-> row[x]]
      BY <1>3, <3>1, StageRowDomain, RowIsFunction DEF StageRow
    <3> QED
      BY <1>7, <1>9, <2>1, <3>2, OverChanges DEF Result
  <2>2. CASE u \notin DOMAIN Seen
    BY <1>7, <1>9, <2>2 DEF Result, Changes
  <2> QED
    BY <2>1, <2>2
<1>11. /\ found'.new => found'.uid \notin DOMAIN Seen /\ \A v \in DOMAIN Seen : ~SameColumns(Seen[v], row)
       /\ ~found'.new => found'.uid \in DOMAIN Seen
  BY <1>6, <1>7, Zenon
<1>12. found'.uid \in DOMAIN Seen => SameColumns(Seen[found'.uid], row)
  BY <1>6, <1>7
<1> QED
  BY <1>2, <1>4, <1>7, <1>8, <1>10, <1>11, <1>12 DEF row

\* The flush of columns writes the result over the row, or inserts it.
LEMMA WriteColumns ==
    ASSUME SeedInv, Write, ~Refused, found.row # Empty
    PROVE  /\ DOMAIN Seen' = DOMAIN Seen \cup {found.uid} /\ Seen'[found.uid] = Result
           /\ \A u \in DOMAIN Seen : u # found.uid => Seen'[u] = Seen[u]
           /\ DOMAIN staged' = DOMAIN staged \cup {found.uid}
           /\ \A u \in DOMAIN staged : u # found.uid => staged'[u] = staged[u]
           /\ staged'[found.uid] = IF found.uid \in DOMAIN staged THEN Over(found.row, staged[found.uid]) ELSE found.row
<1> DEFINE one == [x \in {found.uid} |-> found.row]
<1>1. stage \in Upserting /\ UNCHANGED <<tables, stage>> /\ staged' = Apply(staged, one)
  BY DEF Write, SeedInv, StagedTyped
<1>2. PICK uid : uid = found.uid
  OBVIOUS
<1>3. one = [x \in {uid} |-> found.row]
  BY <1>2
<1> HIDE DEF one
<1>4. Table' = Table
  BY <1>1 DEF Table, tables
<1>5. DOMAIN Seen = DOMAIN Table \cup DOMAIN staged
  BY <1>1, SeenTyped
<1>6. DOMAIN one = {uid} /\ one[uid] = found.row
  BY <1>3
<1>7. /\ DOMAIN staged' = DOMAIN staged \cup {uid}
      /\ \A v \in DOMAIN staged : v # uid => staged'[v] = staged[v]
      /\ staged'[uid] = IF uid \in DOMAIN staged THEN Over(found.row, staged[uid]) ELSE found.row
  BY <1>1, <1>6 DEF Apply
<1>8. DOMAIN Seen' = DOMAIN Seen \cup {uid}
  BY <1>4, <1>5, <1>7 DEF Seen, Apply
<1>9. ASSUME NEW v \in DOMAIN Seen, v # uid PROVE Seen'[v] = Seen[v]
  BY <1>4, <1>5, <1>7, <1>9 DEF Seen, Apply
<1>10. Seen'[uid] = IF uid \notin DOMAIN Table THEN staged'[uid] ELSE Over(staged'[uid], Table[uid])
  BY <1>4, <1>7 DEF Seen, Apply
<1>11. uid \in DOMAIN Seen =>
         Seen[uid] = IF uid \notin DOMAIN Table THEN staged[uid]
                     ELSE IF uid \in DOMAIN staged THEN Over(staged[uid], Table[uid]) ELSE Table[uid]
  BY <1>5 DEF Seen, Apply
<1>12. Result = IF uid \in DOMAIN Seen THEN Over(found.row, Seen[uid]) ELSE found.row
  BY <1>2 DEF Result
<1>13. Over(Over(found.row, staged[uid]), Table[uid]) = Over(found.row, Over(staged[uid], Table[uid]))
  BY OverAssociates
<1>14. Seen'[uid] = Result
  BY <1>5, <1>7, <1>10, <1>11, <1>12, <1>13
<1> QED
  BY <1>2, <1>7, <1>8, <1>9, <1>14

\* The flush leaves behind what was found.
LEMMA WriteForm ==
    ASSUME SeedInv, FoundHolds, Write, ~Refused
    PROVE  /\ stage \in Upserting /\ found # NoFind /\ found' = NoFind
           /\ UNCHANGED <<tables, stage, todo, lookup, outcome, others>>
           /\ DOMAIN Seen' = DOMAIN Seen \cup {found.uid} /\ Seen'[found.uid] = Result
           /\ \A u \in DOMAIN Seen : u # found.uid => Seen'[u] = Seen[u]
<1>1. /\ found # NoFind /\ found' = NoFind /\ UNCHANGED <<tables, stage, todo, lookup, outcome, others>>
      /\ found.row = Empty => staged' = staged
  BY DEF Write
<1>2. stage \in Upserting
  BY <1>1 DEF SeedInv, StagedTyped
<1>3. CASE found.row = Empty
  <2>1. Seen' = Seen
    BY <1>1, <1>3 DEF Seen, Table, tables
  <2>2. found.uid \in DOMAIN Seen
    <3>1. found.new => FALSE
      BY <1>1, <1>3, RowIsFunction, EmptyFits DEF SeedInv, FoundTyped, StageRow
    <3> QED
      BY <1>1, <3>1 DEF FoundHolds
  <2>3. Seen[found.uid] = [x \in DOMAIN Seen[found.uid] |-> Seen[found.uid][x]]
    BY <1>2, <2>2, SeenTyped, RowIsFunction DEF IsTable, StageRow
  <2>4. Result = Seen[found.uid]
    BY <1>3, <2>2, <2>3, EmptyFits DEF Result, Over
  <2> QED
    BY <1>1, <1>2, <2>1, <2>2, <2>4
<1>4. CASE found.row # Empty
  BY <1>1, <1>2, <1>4, WriteColumns
<1> QED
  BY <1>3, <1>4

LEMMA ProgressFind ==
    ASSUME SeedInv, Progress, NEW record \in todo, Find(record), Resolves(record)
    PROVE  Progress'
<1>1. /\ stage \in Upserting /\ found = NoFind /\ todo' = todo \ {record} /\ found' # NoFind
      /\ UNCHANGED <<tables, stage, staged, swap, lookup, outcome, others>>
      /\ Result' = Columns(record)
      /\ stage = "reports" => found'.about = AboutOf(record)
  BY FindForm
<1>2. /\ Seen' = Seen /\ Records' = Records
      /\ \A p : (Resolves(p)' <=> Resolves(p)) /\ Columns(p)' = Columns(p) /\ AboutOf(p)' = AboutOf(p)
      /\ \A a, b : SameColumns(a, b)' <=> SameColumns(a, b)
  BY <1>1, SameSession DEF others
<1>3. todo \subseteq Records /\ \A r \in Records : r \in todo \/ Handled(r)
  BY <1>1 DEF Progress
<1>4. Pending(record)'
  BY <1>1, <1>2, <1>3 DEF Pending
<1>5. FoundHolds'
  <2>1. found'.new => found'.uid \notin DOMAIN Seen /\ \A u \in DOMAIN Seen : ~SameColumns(Seen[u], Columns(record))
    BY FindForm
  <2>2. ~found'.new => found'.uid \in DOMAIN Seen
    BY FindForm
  <2>3. found'.uid \in DOMAIN Seen => SameColumns(Seen[found'.uid], Columns(record))
    BY FindForm
  <2>4. \E p \in Records' : Pending(p)'
    BY <1>2, <1>3, <1>4
  <2>5. found'.new => found'.uid \notin DOMAIN Seen'
    BY <1>2, <2>1, Zenon
  <2>6. ~found'.new => found'.uid \in DOMAIN Seen'
    BY <1>2, <2>2, Zenon
  <2>7. found'.uid \in DOMAIN Seen' => SameColumns(Seen[found.uid], Result)'
    <3>1. Key' = Key /\ Seen' = Seen /\ Result' = Columns(record)
      BY <1>1, <1>2, SameSession DEF others
    <3> QED
      BY <2>3, <3>1 DEF SameColumns
  <2>8. found'.new => \A t \in DOMAIN Seen' : ~SameColumns(Seen[t], Result)'
    <3>1. ASSUME \A u \in DOMAIN Seen : ~SameColumns(Seen[u], Columns(record)), NEW t \in DOMAIN Seen
          PROVE  ~SameColumns(Seen[t], Result)'
      BY <1>1, <1>2, <3>1 DEF SameColumns
    <3> QED
      BY <1>2, <2>1, <3>1, Zenon
  <2> QED
    BY <2>4, <2>5, <2>6, <2>7, <2>8, Zenon DEF FoundHolds
<1>6. ASSUME NEW r \in Records PROVE r \in todo' \/ Handled(r)'
  <2>1. CASE r \in todo /\ r # record
    BY <1>1, <2>1
  <2>2. CASE r = record
    <3>1. Resolves(r)' /\ SameColumns(Columns(r), Result)'
      BY <1>1, <1>2, <2>2 DEF SameColumns
    <3> QED
      BY <1>1, <3>1 DEF Handled
  <2>3. CASE Handled(r)
    <3>1. Resolves(r) /\ \E u \in DOMAIN Seen, p \in Records : DoneAs(u, p) /\ SameColumns(Columns(r), Seen[u])
      BY <1>1, <2>3 DEF Handled
    <3>2. PICK u \in DOMAIN Seen, p \in Records : DoneAs(u, p) /\ SameColumns(Columns(r), Seen[u])
      BY <3>1
    <3>3. DoneAs(u, p)'
      BY <1>1, <1>2, <3>2 DEF DoneAs, SwappedSubjects, tables
    <3>4. Resolves(r)' /\ SameColumns(Columns(r), Seen[u])'
      BY <1>2, <3>1, <3>2 DEF SameColumns
    <3> QED
      BY <1>2, <3>3, <3>4 DEF Handled
  <2> QED
    BY <1>3, <2>1, <2>2, <2>3
<1> QED
  BY <1>1, <1>2, <1>3, <1>5, <1>6 DEF Progress

LEMMA ProgressWrite ==
    ASSUME SeedInv, Progress, Write, ~Refused
    PROVE  Progress'
<1>1. FoundHolds /\ stage \in Upserting
  BY DEF Write, Progress, SeedInv, StagedTyped
<1>2. /\ found # NoFind /\ found' = NoFind
      /\ UNCHANGED <<tables, stage, todo, lookup, outcome, others>>
      /\ DOMAIN Seen' = DOMAIN Seen \cup {found.uid} /\ Seen'[found.uid] = Result
      /\ \A u \in DOMAIN Seen : u # found.uid => Seen'[u] = Seen[u]
  BY <1>1, WriteForm
<1>3. stage = "reports" =>
        swap' = [out |-> swap.out \cup SubjectsOf(found.uid),
                 in |-> {s \in swap.in : s[1] # found.uid} \cup Pairs(found.uid, found.about)]
  BY DEF Write
<1>4. /\ Key' = Key /\ Records' = Records
      /\ \A p : (Resolves(p)' <=> Resolves(p)) /\ Columns(p)' = Columns(p) /\ AboutOf(p)' = AboutOf(p)
      /\ \A a, b : SameColumns(a, b)' <=> SameColumns(a, b)
  BY <1>2 DEF Key, Records, Resolves, Columns, AboutOf, SameColumns, others
<1>a. PICK uid : uid = found.uid
  OBVIOUS
<1>5. PICK p \in Records : Pending(p)
  BY <1>1, <1>2 DEF FoundHolds
<1>b. /\ DOMAIN Seen' = DOMAIN Seen \cup {uid} /\ Seen'[uid] = Result
      /\ \A u \in DOMAIN Seen : u # uid => Seen'[u] = Seen[u]
      /\ stage = "reports" => /\ swap'.out = swap.out \cup SubjectsOf(uid)
                              /\ swap'.in = {s \in swap.in : s[1] # uid} \cup Pairs(uid, found.about)
  BY <1>2, <1>3, <1>a
<1>6. DoneAs(uid, p)'
  <2>1. ASSUME stage = "reports" PROVE SwappedSubjects(uid)' = Pairs(uid, AboutOf(p))
    <3>1. found.about = AboutOf(p) /\ subjects' = subjects
      BY <1>2, <1>5, <2>1 DEF Pending, tables
    <3>2. SwappedSubjects(uid)' = Pairs(uid, found.about)
      <4>1. /\ swap'.out = swap.out \cup SubjectsOf(uid)
            /\ swap'.in = {s \in swap.in : s[1] # uid} \cup Pairs(uid, found.about)
        BY <1>b, <2>1
      <4>2. \A s \in Pairs(uid, found.about) : s[1] = uid
        BY DEF Pairs
      <4>3. SwappedSubjects(uid)' = {s \in (subjects \ swap'.out) \cup swap'.in : s[1] = uid}
        BY <1>2, <3>1 DEF SwappedSubjects
      <4>4. \A s : s \in SwappedSubjects(uid)' <=> s \in Pairs(uid, found.about)
        BY <4>1, <4>2, <4>3 DEF SubjectsOf
      <4> QED
        BY <4>3, <4>4
    <3> QED
      BY <3>1, <3>2
  <2> QED
    BY <1>2, <1>4, <1>5, <1>b, <2>1 DEF DoneAs, Pending, Pairs
<1>7. ASSUME NEW u \in DOMAIN Seen, u # uid, NEW q \in Records, DoneAs(u, q) PROVE DoneAs(u, q)'
  <2>1. ASSUME stage = "reports" PROVE SwappedSubjects(u)' = SwappedSubjects(u)
    <3>1. /\ swap'.out = swap.out \cup SubjectsOf(uid) /\ subjects' = subjects
          /\ swap'.in = {s \in swap.in : s[1] # uid} \cup Pairs(uid, found.about)
      BY <1>2, <1>b, <2>1 DEF tables
    <3>2. \A s \in Pairs(uid, found.about) : s[1] = uid
      BY DEF Pairs
    <3>3. SwappedSubjects(u)' = {s \in (subjects \ swap'.out) \cup swap'.in : s[1] = u}
      BY <1>2, <3>1 DEF SwappedSubjects
    <3>4. \A s : s \in SwappedSubjects(u)' <=> s \in SwappedSubjects(u)
      BY <1>7, <3>1, <3>2, <3>3 DEF SubjectsOf, SwappedSubjects
    <3> QED
      BY <3>3, <3>4 DEF SwappedSubjects
  <2> QED
    BY <1>2, <1>4, <1>7, <1>b, <2>1 DEF DoneAs, Pairs
<1>8. ASSUME NEW r \in Records PROVE r \in todo' \/ Handled(r)'
  <2>1. CASE r \in todo
    BY <1>2, <2>1
  <2>2. ASSUME Resolves(r), SameColumns(Columns(r), Result) PROVE Handled(r)'
    <3>2. Resolves(r)' /\ \A c \in Key : Columns(r)[c] = Result[c]
      BY <1>4, <2>2 DEF SameColumns
    <3>4. DoneAs(uid, p)' /\ Seen'[uid] = Result /\ uid \in DOMAIN Seen'
      BY <1>b, <1>6
    <3>5. SameColumns(Columns(r), Seen[uid])'
      BY <1>4, <3>2, <3>4 DEF SameColumns
    <3> QED
      BY <1>4, <3>2, <3>4, <3>5 DEF Handled
  <2>3. ASSUME NEW u \in DOMAIN Seen, NEW q \in Records, DoneAs(u, q), Resolves(r), SameColumns(Columns(r), Seen[u])
        PROVE  Handled(r)'
    <3>1. CASE u = uid
      <4>1. SameColumns(Seen[u], Result)
        BY <1>1, <1>2, <1>a, <3>1 DEF FoundHolds
      <4>2. SameColumns(Columns(r), Result)
        BY <2>3, <4>1 DEF SameColumns
      <4> QED
        BY <2>2, <2>3, <4>2
    <3>2. CASE u # uid
      <4>1. DoneAs(u, q)'
        BY <1>7, <2>3, <3>2
      <4>2. Resolves(r)' /\ u \in DOMAIN Seen' /\ SameColumns(Columns(r), Seen[u])'
        BY <1>b, <1>4, <2>3, <3>2 DEF SameColumns
      <4> QED
        BY <1>4, <4>1, <4>2 DEF Handled
    <3> QED
      BY <3>1, <3>2
  <2> QED
    BY <1>1, <2>1, <2>2, <2>3 DEF Progress, Handled
<1>9. FoundHolds'
  BY <1>2 DEF FoundHolds
<1> QED
  BY <1>1, <1>2, <1>4, <1>8, <1>9 DEF Progress

\* The emitter adds a report beside those a run sees, and touches nothing else.
LEMMA AutoForm ==
    ASSUME SeedInv, NEW t \in TypeIds, FileAutoReport(t)
    PROVE  /\ UNCHANGED <<users, types, subjects, categories, run, files, touched>>
           /\ \E r \in ReportIds :
                /\ r \notin DOMAIN reports /\ r \notin DOMAIN staged /\ (found # NoFind => r # found.uid)
                /\ DOMAIN reports' = DOMAIN reports \cup {r} /\ reports'[r].text = Automatic
                /\ \A v \in DOMAIN reports : reports'[v] = reports[v]
           /\ stage \in Upserting => /\ DOMAIN Seen \subseteq DOMAIN Seen'
                                     /\ \A v \in DOMAIN Seen : Seen'[v] = Seen[v]
                                     /\ found # NoFind => (found.uid \in DOMAIN Seen' => found.uid \in DOMAIN Seen)
           /\ stage \in {"users", "types"} => Seen' = Seen
<1>1. UNCHANGED <<users, types, subjects, categories, run, files, touched>>
  BY DEF FileAutoReport
<1>2. PICK u \in DOMAIN users, r \in NewId(ReportIds) :
        reports' = Put(r, [type |-> t, text |-> Automatic, status |-> Open, by |-> u], reports)
  BY DEF FileAutoReport
<1>3. r \in ReportIds /\ r \notin DOMAIN reports /\ r \notin DOMAIN staged /\ (found # NoFind => r # found.uid)
  BY NewIdUnused DEF UsedIds
<1>4. /\ DOMAIN reports' = DOMAIN reports \cup {r} /\ reports'[r].text = Automatic
      /\ \A v \in DOMAIN reports : reports'[v] = reports[v]
  BY <1>2, <1>3 DEF Put, Over
<1>5. ASSUME stage \in {"users", "types"} PROVE Seen' = Seen
  BY <1>1, <1>5 DEF Seen, Table, run
<1>6. ASSUME stage = "reports"
      PROVE  /\ DOMAIN Seen \subseteq DOMAIN Seen'
             /\ \A v \in DOMAIN Seen : Seen'[v] = Seen[v]
             /\ found # NoFind => (found.uid \in DOMAIN Seen' => found.uid \in DOMAIN Seen)
  <2>1. Seen = Apply(reports, staged) /\ Seen' = Apply(reports', staged)
    BY <1>1, <1>6 DEF Seen, Table, run
  <2>2. DOMAIN Seen = DOMAIN reports \cup DOMAIN staged /\ DOMAIN Seen' = DOMAIN reports \cup {r} \cup DOMAIN staged
    BY <1>4, <2>1 DEF Apply
  <2>3. ASSUME NEW v \in DOMAIN Seen PROVE Seen'[v] = Seen[v]
    <3>1. v # r /\ (v \in DOMAIN reports <=> v \in DOMAIN reports')
      BY <1>3, <1>4, <2>2
    <3>2. CASE v \in DOMAIN reports
      BY <1>4, <2>1, <2>2, <3>1, <3>2 DEF Apply
    <3>3. CASE v \notin DOMAIN reports
      BY <1>4, <2>1, <2>2, <3>1, <3>3 DEF Apply
    <3> QED
      BY <3>2, <3>3
  <2> QED
    BY <1>3, <2>2, <2>3
<1> QED
  BY <1>1, <1>3, <1>4, <1>5, <1>6 DEF Upserting

LEMMA ProgressAuto ==
    ASSUME SeedInv, Progress, NEW t \in TypeIds, FileAutoReport(t)
    PROVE  Progress'
<1> SUFFICES ASSUME stage \in Upserting PROVE Progress'
  BY AutoForm DEF Progress, run
<1>1. UNCHANGED <<users, types, subjects, files, touched, stage, todo, found, staged, swap, lookup>>
  BY AutoForm DEF run
<1>2. /\ DOMAIN Seen \subseteq DOMAIN Seen' /\ \A v \in DOMAIN Seen : Seen'[v] = Seen[v]
      /\ found # NoFind => (found.uid \in DOMAIN Seen' => found.uid \in DOMAIN Seen)
      /\ stage = "types" => Seen' = Seen
  BY AutoForm
<1>3. /\ Key' = Key /\ Records' = Records
      /\ \A p : (Resolves(p)' <=> Resolves(p)) /\ Columns(p)' = Columns(p) /\ AboutOf(p)' = AboutOf(p)
      /\ \A a, b : SameColumns(a, b)' <=> SameColumns(a, b)
      /\ \A r : SwappedSubjects(r)' = SwappedSubjects(r)
  BY <1>1 DEF Key, Records, Resolves, Columns, AboutOf, SameColumns, SwappedSubjects
<1>4. found # NoFind => Result' = Result
  BY <1>1, <1>2 DEF Result
<1>5. FoundHolds'
  <2> SUFFICES ASSUME found # NoFind PROVE FoundHolds'
    BY <1>1 DEF FoundHolds
  <2>1. FoundHolds
    BY DEF Progress
  <2>2. \E p \in Records' : Pending(p)'
    BY <1>1, <1>3, <1>4, <2>1 DEF FoundHolds, Pending
  <2>3. /\ found.new => found.uid \notin DOMAIN Seen'
        /\ ~found.new => found.uid \in DOMAIN Seen'
    <3>1. found.uid \in DOMAIN Seen <=> found.uid \in DOMAIN Seen'
      BY <1>2
    <3>2. found.new => found.uid \notin DOMAIN Seen
      BY <2>1, Zenon DEF FoundHolds
    <3>3. ~found.new => found.uid \in DOMAIN Seen
      BY <2>1, Zenon DEF FoundHolds
    <3> QED
      BY <3>1, <3>2, <3>3, Zenon
  <2>4. found.uid \in DOMAIN Seen' => SameColumns(Seen[found.uid], Result)'
    <3>1. found.uid \in DOMAIN Seen' => SameColumns(Seen[found.uid], Result)
      BY <1>2, <2>1 DEF FoundHolds
    <3> QED
      BY <1>1, <1>2, <1>3, <1>4, <3>1 DEF SameColumns
  <2>5. stage = "types" /\ found.new => \A v \in DOMAIN Seen' : ~SameColumns(Seen[v], Result)'
    <3>1. ASSUME stage = "types", \A v \in DOMAIN Seen : ~SameColumns(Seen[v], Result), NEW v \in DOMAIN Seen'
          PROVE  ~SameColumns(Seen[v], Result)'
      BY <1>2, <1>3, <1>4, <3>1 DEF SameColumns
    <3>2. stage = "types" /\ found.new => \A v \in DOMAIN Seen : ~SameColumns(Seen[v], Result)
      BY <2>1, Zenon DEF FoundHolds
    <3> QED
      BY <3>1, <3>2, Zenon
  <2> QED
    BY <1>1, <2>2, <2>3, <2>4, <2>5, Zenon DEF FoundHolds
<1>6. ASSUME NEW r \in Records, Handled(r) PROVE Handled(r)'
  <2>1. ASSUME found # NoFind, SameColumns(Columns(r), Result) PROVE Handled(r)'
    BY <1>1, <1>3, <1>4, <1>6, <2>1 DEF Handled, SameColumns
  <2>2. ASSUME NEW u \in DOMAIN Seen, NEW p \in Records, DoneAs(u, p), SameColumns(Columns(r), Seen[u])
        PROVE  Handled(r)'
    <3>1. DoneAs(u, p)' /\ u \in DOMAIN Seen'
      BY <1>1, <1>2, <1>3, <2>2 DEF DoneAs, Pairs
    <3>2. Resolves(r)' /\ SameColumns(Columns(r), Seen[u])'
      BY <1>2, <1>3, <1>6, <2>2 DEF SameColumns, Handled
    <3> QED
      BY <1>3, <3>1, <3>2 DEF Handled
  <2> QED
    BY <1>6, <2>1, <2>2 DEF Handled
<1> QED
  BY <1>1, <1>3, <1>5, <1>6 DEF Progress

\* The key of a report says which type and text its record has.
LEMMA KeyOfReport ==
    ASSUME stage = "reports", LookupsHold, NEW a, NEW b, Resolves(a), Resolves(b), SameColumns(Columns(a), Columns(b))
    PROVE  SameKey(a, b)
<1>1. /\ Columns(a)["type"] = lookup.type[a.code] /\ Columns(a)["text"] = a.text
      /\ Columns(b)["type"] = lookup.type[b.code] /\ Columns(b)["text"] = b.text
  BY DEF Columns
<1>2. Columns(a)["type"] = Columns(b)["type"] /\ Columns(a)["text"] = Columns(b)["text"]
  BY DEF SameColumns, Key
<1>3. types[lookup.type[a.code]].code = a.code /\ types[lookup.type[b.code]].code = b.code
  BY DEF Resolves, LookupsHold
<1> QED
  BY <1>1, <1>2, <1>3 DEF SameKey

\* Files and tables that do not change stay seeded.
LEMMA SeededElsewhere ==
    ASSUME UNCHANGED <<users, types, categories, files>>
    PROVE  (SeededUsers => SeededUsers') /\ (SeededTypes => SeededTypes')
BY DEF SeededUsers, SeededTypes

\* The commit of the accounts.
LEMMA CommitUsers ==
    ASSUME SeedInv, Progress, stage = "users", found = NoFind, todo = {}, users' = Seen, files' = files
    PROVE  SeededUsers'
<1>1. Records = files.users /\ Key = {"email"} /\ stage \in Upserting
  BY DEF Records, Key, Upserting
<1>2. ASSUME NEW record \in files.users
      PROVE  \E u \in DOMAIN Seen : Seen[u].email = record.email /\ Seen[u] \in files.users
  <2>1. Handled(record)
    BY <1>1, <1>2 DEF Progress
  <2>2. PICK u \in DOMAIN Seen, p \in Records : DoneAs(u, p) /\ SameColumns(Columns(record), Seen[u])
    BY <2>1 DEF Handled
  <2>3. Seen[u] = p /\ Columns(record) = record
    BY <2>2 DEF DoneAs, Columns
  <2>4. record["email"] = Seen[u]["email"]
    BY <1>1, <2>2, <2>3 DEF SameColumns
  <2> QED
    BY <1>1, <2>3, <2>4
<1> QED
  BY <1>2 DEF SeededUsers

\* The commit of the types.
LEMMA CommitTypes ==
    ASSUME SeedInv, Progress, stage = "types", found = NoFind, todo = {}, types' = Seen
    PROVE  SeededTypes'
<1>1. Records = SeedTypes /\ Key = {"code"} /\ stage \in Upserting
  BY DEF Records, Key, Upserting
<1>2. ASSUME NEW record \in SeedTypes
      PROVE  \E t \in DOMAIN Seen : Seen[t] = record
  <2>1. Handled(record)
    BY <1>1, <1>2 DEF Progress
  <2>2. PICK t \in DOMAIN Seen, p \in Records : DoneAs(t, p) /\ SameColumns(Columns(record), Seen[t])
    BY <2>1 DEF Handled
  <2>3. Seen[t] = p /\ Columns(record) = record
    BY <2>2 DEF DoneAs, Columns
  <2>4. record["code"] = p["code"]
    BY <1>1, <2>2, <2>3 DEF SameColumns
  <2>5. record = p
    BY <1>1, <2>4, CodesAssumption
  <2> QED
    BY <2>3, <2>5
<1> QED
  BY <1>2 DEF SeededTypes

SeededReports ==
    \A record \in files.reports : \E other \in files.reports : SameKey(record, other) /\ Present(other)

\* The commit of the reports and their subjects.
LEMMA CommitReports ==
    ASSUME SeedInv, Progress, LookupsHold, stage = "reports", found = NoFind, todo = {},
           reports' = Seen, subjects' = (subjects \ swap.out) \cup swap.in, UNCHANGED <<users, types, files>>
    PROVE  SeededReports'
<1>1. Records = files.reports /\ Key = {"type", "text"} /\ stage \in Upserting
  BY DEF Records, Key, Upserting
<1>2. files.reports \subseteq SeedReport
  BY TypeOKForm DEF SeedInv, RestTyped
<1>3. ASSUME NEW record \in files.reports
      PROVE  \E other \in files.reports : SameKey(record, other) /\ Present(other)'
  <2>1. Handled(record)
    BY <1>1, <1>3 DEF Progress
  <2>2. PICK r \in DOMAIN Seen, p \in Records : DoneAs(r, p) /\ SameColumns(Columns(record), Seen[r])
    BY <2>1 DEF Handled
  <2>3. /\ Resolves(record) /\ Resolves(p) /\ Seen[r] = Columns(p)
        /\ SwappedSubjects(r) = Pairs(r, AboutOf(p))
    BY <2>1, <2>2 DEF DoneAs, Handled
  <2>4. SameKey(record, p)
    BY <2>2, <2>3, KeyOfReport
  <2>5. Seen[r] = [type |-> lookup.type[p.code], text |-> p.text, status |-> p.status, by |-> lookup.user[p.by]]
    BY <2>3 DEF Columns
  <2>6. p.code \in DOMAIN lookup.type /\ p.by \in DOMAIN lookup.user /\ p.about \subseteq DOMAIN lookup.user
    BY <2>3 DEF Resolves
  <2>7. types[lookup.type[p.code]].code = p.code /\ \A e \in DOMAIN lookup.user : users[lookup.user[e]].email = e
    BY <2>6 DEF LookupsHold
  <2>8. {users[s[2]].email : s \in Pairs(r, AboutOf(p))} = p.about
    <3>1. ASSUME NEW e \in p.about PROVE \E s \in Pairs(r, AboutOf(p)) : users[s[2]].email = e
      <4>1. <<r, lookup.user[e]>> \in Pairs(r, AboutOf(p))
        BY DEF Pairs, AboutOf
      <4>2. users[lookup.user[e]].email = e
        BY <2>6, <2>7
      <4> QED
        BY <4>1, <4>2
    <3>2. ASSUME NEW s \in Pairs(r, AboutOf(p)) PROVE users[s[2]].email \in p.about
      <4>1. PICK e \in p.about : s[2] = lookup.user[e]
        BY DEF Pairs, AboutOf
      <4> QED
        BY <2>6, <2>7, <4>1
    <3> QED
      BY <3>1, <3>2
  <2>9. p = [code |-> p.code, text |-> p.text, status |-> p.status, by |-> p.by, about |-> p.about]
    BY <1>1, <1>2 DEF SeedReport
  <2>10. RecordOf(r)' = p
    <3>1. {s \in subjects' : s[1] = r} = Pairs(r, AboutOf(p))
      BY <2>3 DEF SwappedSubjects
    <3>2. RecordOf(r)' = [code |-> types[Seen[r].type].code, text |-> Seen[r].text, status |-> Seen[r].status,
                          by |-> users[Seen[r].by].email, about |-> {users[s[2]].email : s \in Pairs(r, AboutOf(p))}]
      BY <3>1 DEF RecordOf, SubjectsOf
    <3>3. /\ Seen[r].type = lookup.type[p.code] /\ Seen[r].text = p.text
          /\ Seen[r].status = p.status /\ Seen[r].by = lookup.user[p.by]
      BY <2>5
    <3>4. types[Seen[r].type].code = p.code /\ users[Seen[r].by].email = p.by
      BY <2>6, <2>7, <3>3
    <3>5. RecordOf(r)' = [code |-> p.code, text |-> p.text, status |-> p.status, by |-> p.by, about |-> p.about]
      BY <2>8, <3>2, <3>3, <3>4
    <3> QED
      BY <2>9, <3>5
  <2>11. Present(p)'
    BY <2>10 DEF Present
  <2> QED
    BY <1>1, <2>4, <2>11
<1> QED
  BY <1>3 DEF SeededReports, SameKey

\* A run that is going on has neither finished nor failed yet.
LEMMA RunGoesOn ==
    ASSUME stage' # "off" \/ outcome' = "none", stage' # "off" => outcome' = "none",
           ~touched' => Progress' /\ LookupsHold' /\ SeededSoFar'
    PROVE  RunInv'
BY DEF RunInv, FinishedRunSeeds, OnlyEditsStopARun

\* Before a run has begun, and after it, there is no progress to keep.
LEMMA RunOver ==
    ASSUME stage' \in {"off", "migrate"}
    PROVE  Progress' /\ LookupsHold' /\ SeededSoFar'
BY DEF Progress, LookupsHold, SeededSoFar, Upserting

\* Only a file that names what it does not have fails a lookup.
LEMMA LookupFails ==
    ASSUME SeedInv, RunInv, NEW record \in todo, stage \in Upserting, ~Resolves(record), ~touched
    PROVE  ~SelfContained
<1> SUFFICES ASSUME SelfContained PROVE FALSE
  OBVIOUS
<1>1. stage = "reports" /\ record \in files.reports
  BY DEF Resolves, RunInv, Progress, Records
<1>2. LookupsHold /\ SeededUsers /\ SeededTypes
  BY <1>1 DEF RunInv, SeededSoFar
<1>3. record.code \in {t.code : t \in SeedTypes} /\ record.about \cup {record.by} \subseteq EmailsOf(files.users)
  BY <1>1 DEF SelfContained
<1>4. record.code \in DOMAIN lookup.type
  BY <1>1, <1>2, <1>3 DEF LookupsHold, SeededTypes
<1>5. EmailsOf(files.users) \subseteq DOMAIN lookup.user
  <2>1. ASSUME NEW a \in files.users PROVE a.email \in DOMAIN lookup.user
    BY <1>1, <1>2 DEF LookupsHold, SeededUsers
  <2> QED
    BY <2>1 DEF EmailsOf
<1> QED
  BY <1>3, <1>4, <1>5 DEF Resolves

\* What was found is not refused, unless somebody has edited the tables meanwhile.
LEMMA NothingRefused ==
    ASSUME SeedInv, Progress, LookupsHold, stage \in Upserting, found # NoFind
    PROVE  ~Refused
<1>1. FoundHolds
  BY DEF Progress
<1>2. ~(~found.new /\ found.uid \notin DOMAIN Seen)
  BY <1>1, Zenon DEF FoundHolds
<1>3. ~(stage = "types" /\ found.new /\ \E t \in DOMAIN Seen : Seen[t].code = found.row.code)
  <2>1. stage = "types" /\ found.new => found.uid \notin DOMAIN Seen /\ \A t \in DOMAIN Seen : ~SameColumns(Seen[t], Result)
    BY <1>1, Zenon DEF FoundHolds
  <2>2. found.uid \notin DOMAIN Seen => Result = found.row
    BY DEF Result
  <2>3. ASSUME stage = "types", NEW t \in DOMAIN Seen, Seen[t].code = found.row.code, Result = found.row
        PROVE  SameColumns(Seen[t], Result)
    BY <2>3 DEF SameColumns, Key
  <2> QED
    BY <2>1, <2>2, <2>3, Zenon
<1>4. stage = "reports" => found.about \cup {found.row[c] : c \in DOMAIN found.row \cap {"by"}} \subseteq DOMAIN users
  <2> SUFFICES ASSUME stage = "reports"
               PROVE  found.about \cup {found.row[c] : c \in DOMAIN found.row \cap {"by"}} \subseteq DOMAIN users
    OBVIOUS
  <2>1. PICK p \in Records : Pending(p)
    BY <1>1 DEF FoundHolds
  <2>2. \A e \in DOMAIN lookup.user : lookup.user[e] \in DOMAIN users
    BY DEF LookupsHold
  <2>3. p.about \cup {p.by} \subseteq DOMAIN lookup.user
    BY <2>1 DEF Pending, Resolves
  <2>4. found.about \subseteq DOMAIN users
    BY <2>1, <2>2, <2>3 DEF Pending, AboutOf
  <2>5. Result["by"] = lookup.user[p.by]
    BY <2>1 DEF Pending, Columns
  <2>6. "by" \in DOMAIN found.row => found.row["by"] = Result["by"]
    BY DEF Result, Over
  <2> QED
    BY <2>2, <2>3, <2>4, <2>5, <2>6
<1> QED
  BY <1>2, <1>3, <1>4, Zenon DEF Refused

LEMMA RunFind ==
    ASSUME SeedInv, RunInv, NEW record \in todo, Find(record)
    PROVE  RunInv'
<1>1. CASE ~Resolves(record)
  <2>1. stage \in Upserting /\ stage' = "off" /\ outcome' = "failed" /\ UNCHANGED <<files, touched>>
    BY <1>1 DEF Find, Leave, others
  <2>2. ~touched => ~SelfContained
    BY <1>1, <2>1, LookupFails
  <2>3. OnlyEditsStopARun' /\ FinishedRunSeeds'
    BY <2>1, <2>2 DEF OnlyEditsStopARun, FinishedRunSeeds, SelfContained
  <2> QED
    BY <2>1, <2>3, RunOver DEF RunInv
<1>2. CASE Resolves(record)
  <2>1. stage \in Upserting /\ UNCHANGED <<tables, stage, lookup, outcome, others>>
    BY <1>2, FindForm
  <2>2. ~touched => Progress'
    BY <1>2, ProgressFind DEF RunInv
  <2>3. ~touched => LookupsHold' /\ SeededSoFar'
    BY <2>1, SeededElsewhere DEF RunInv, LookupsHold, SeededSoFar, tables, others
  <2> QED
    BY <2>1, <2>2, <2>3, RunGoesOn DEF RunInv, Upserting, others
<1> QED
  BY <1>1, <1>2

LEMMA RunWrite == ASSUME SeedInv, RunInv, Write PROVE RunInv'
<1>1. stage \in Upserting /\ found # NoFind /\ UNCHANGED <<tables, others>>
  BY DEF Write, Leave, SeedInv, StagedTyped
<1>2. CASE Refused
  <2>1. stage' = "off" /\ outcome' = "failed"
    BY <1>2 DEF Write, Leave
  <2>2. touched
    BY <1>1, <1>2, NothingRefused DEF RunInv
  <2> QED
    BY <1>1, <2>1, <2>2 DEF RunInv, OnlyEditsStopARun, FinishedRunSeeds, others
<1>3. CASE ~Refused
  <2>1. UNCHANGED <<stage, lookup, outcome>>
    BY <1>3 DEF Write
  <2>2. ~touched => Progress'
    BY <1>3, ProgressWrite DEF RunInv
  <2>3. ~touched => LookupsHold' /\ SeededSoFar'
    BY <1>1, <2>1, SeededElsewhere DEF RunInv, LookupsHold, SeededSoFar, tables, others
  <2> QED
    BY <1>1, <2>1, <2>2, <2>3, RunGoesOn DEF RunInv, Upserting, others
<1> QED
  BY <1>2, <1>3

LEMMA RunCommit == ASSUME SeedInv, RunInv, Commit PROVE RunInv'
<1>1. /\ stage \in Upserting /\ found = NoFind /\ todo = {} /\ stage' = After[stage]
      /\ users' = (IF stage = "users" THEN Seen ELSE users)
      /\ types' = (IF stage = "types" THEN Seen ELSE types)
      /\ reports' = (IF stage = "reports" THEN Seen ELSE reports)
      /\ subjects' = (subjects \ swap.out) \cup swap.in
      /\ UNCHANGED <<categories, files, touched>>
      /\ outcome' = IF stage = "reports" THEN "done" ELSE outcome
  BY DEF Commit
<1>2. stage' \notin Upserting /\ stage' # "migrate"
  BY <1>1 DEF After, Upserting
<1>3. Progress' /\ LookupsHold'
  BY <1>2 DEF Progress, LookupsHold, Upserting
<1>4. CASE stage = "users"
  <2>1. stage' = "categories" /\ outcome' = "none"
    BY <1>1, <1>4 DEF After, RunInv
  <2>2. ~touched => SeededUsers'
    BY <1>1, <1>4, CommitUsers DEF RunInv
  <2> QED
    BY <1>1, <1>3, <2>1, <2>2, RunGoesOn DEF SeededSoFar
<1>5. CASE stage = "types"
  <2>1. stage' = "lookups" /\ outcome' = "none"
    BY <1>1, <1>5 DEF After, RunInv
  <2>2. ~touched => SeededTypes'
    BY <1>1, <1>5, CommitTypes DEF RunInv
  <2>3. ~touched => SeededUsers' /\ categories'
    BY <1>1, <1>5 DEF RunInv, SeededSoFar, SeededUsers
  <2> QED
    BY <1>1, <1>3, <2>1, <2>2, <2>3, RunGoesOn DEF SeededSoFar
<1>6. CASE stage = "reports"
  <2>1. stage' = "off" /\ outcome' = "done"
    BY <1>1, <1>6 DEF After
  <2>2. ASSUME ~touched PROVE Seeded'
    <3>1. SeededUsers /\ SeededTypes /\ categories /\ LookupsHold /\ Progress
      BY <1>6, <2>2 DEF RunInv, SeededSoFar
    <3>2. SeededReports'
      BY <1>1, <1>6, <3>1, CommitReports
    <3>3. SeededUsers' /\ SeededTypes' /\ categories'
      BY <1>1, <1>6, <3>1, SeededElsewhere
    <3> QED
      BY <3>2, <3>3 DEF Seeded, SeededUsers, SeededTypes, SeededReports
  <2>3. FinishedRunSeeds' /\ OnlyEditsStopARun'
    BY <1>1, <2>1, <2>2 DEF FinishedRunSeeds, OnlyEditsStopARun
  <2> QED
    BY <2>1, <2>3, RunOver DEF RunInv
<1> QED
  BY <1>1, <1>4, <1>5, <1>6 DEF Upserting

\* Nothing has been done yet at the start of a stage, and every record is to come.
LEMMA RunStarts ==
    ASSUME SeedInv, RunInv, ComposeUp \/ Migrate \/ Reseed \/ Kill \/ SeedCategories \/ ReadLookups
    PROVE  RunInv'
<1>1. CASE ComposeUp \/ Kill
  <2>1. stage' \in {"off", "migrate"} /\ outcome' = "none"
    BY <1>1 DEF ComposeUp, Kill, Leave
  <2> QED
    BY <2>1, RunOver, RunGoesOn
<1>2. CASE Migrate \/ Reseed
  <2>1. files' = files /\ found' = NoFind
    BY <1>2, BeginForm DEF Migrate, Reseed, SeedInv, StagedTyped, Upserting
  <2>2. CASE files.broken = {}
    <3>1. stage' = "users" /\ outcome' = "none" /\ todo' = files.users
      BY <1>2, <2>2 DEF Migrate, Reseed, Begin
    <3>2. Progress' /\ LookupsHold' /\ SeededSoFar'
      BY <2>1, <3>1 DEF Progress, Records, FoundHolds, LookupsHold, SeededSoFar
    <3> QED
      BY <3>1, <3>2, RunGoesOn
  <2>3. CASE files.broken # {}
    <3>1. stage' = "off" /\ outcome' = "failed"
      BY <1>2, <2>3 DEF Migrate, Reseed, Begin
    <3>2. FinishedRunSeeds' /\ OnlyEditsStopARun'
      BY <2>1, <2>3, <3>1 DEF FinishedRunSeeds, OnlyEditsStopARun
    <3> QED
      BY <3>1, <3>2, RunOver DEF RunInv
  <2> QED
    BY <2>2, <2>3
<1>3. CASE SeedCategories
  <2>1. /\ stage = "categories" /\ stage' = "types" /\ outcome' = outcome /\ todo' = SeedTypes
        /\ found' = NoFind /\ categories' = TRUE /\ UNCHANGED <<users, files, touched>>
    BY <1>3 DEF SeedCategories, SeedInv, StagedTyped, Upserting, others
  <2>2. ~touched => Progress' /\ LookupsHold' /\ SeededSoFar'
    BY <2>1 DEF Progress, Records, FoundHolds, LookupsHold, SeededSoFar, RunInv, SeededUsers
  <2> QED
    BY <2>1, <2>2, RunGoesOn DEF RunInv
<1>4. CASE ReadLookups
  <2>1. /\ stage = "lookups" /\ stage' = "reports" /\ outcome' = outcome /\ todo' = files.reports
        /\ found' = NoFind /\ UNCHANGED <<tables, files, touched>>
    BY <1>4 DEF ReadLookups, SeedInv, StagedTyped, Upserting, others
  <2>2. LookupsHold'
    <3>1. PICK f \in [{users[u].email : u \in DOMAIN users} -> DOMAIN users],
               g \in [{types[t].code : t \in DOMAIN types} -> DOMAIN types] :
                 /\ \A e \in DOMAIN f : users[f[e]].email = e
                 /\ \A c \in DOMAIN g : types[g[c]].code = c
                 /\ lookup' = [user |-> f, type |-> g]
      BY <1>4 DEF ReadLookups
    <3>2. lookup'.user = f /\ lookup'.type = g /\ users' = users /\ types' = types
      BY <2>1, <3>1 DEF tables
    <3> QED
      BY <3>1, <3>2 DEF LookupsHold
  <2>3. ~touched => Progress' /\ SeededSoFar'
    BY <2>1, SeededElsewhere DEF Progress, Records, FoundHolds, SeededSoFar, RunInv, tables
  <2> QED
    BY <2>1, <2>2, <2>3, RunGoesOn DEF RunInv
<1> QED
  BY <1>1, <1>2, <1>3, <1>4

\* One more report hides none of those that were there.
LEMMA AutoPresent ==
    ASSUME SeedInv, NEW t \in TypeIds, FileAutoReport(t), NEW r \in DOMAIN reports
    PROVE  r \in DOMAIN reports' /\ reports'[r] = reports[r] /\ RecordOf(r)' = RecordOf(r)
<1>1. r \in DOMAIN reports' /\ reports'[r] = reports[r]
  BY AutoForm
<1>2. UNCHANGED <<users, types, subjects>>
  BY AutoForm
<1> QED
  BY <1>1, <1>2 DEF RecordOf, SubjectsOf

LEMMA RunOthers ==
    ASSUME SeedInv, RunInv, Administrate \/ \E t \in TypeIds : FileAutoReport(t)
    PROVE  RunInv'
<1>1. CASE Administrate
  <2>1. touched' /\ UNCHANGED run
    BY <1>1 DEF Administrate, PutUser, DeleteUser, PutType, PutReport, DeleteReport, Edit
  <2> QED
    BY <2>1 DEF RunInv, FinishedRunSeeds, OnlyEditsStopARun, run
<1>2. ASSUME NEW t \in TypeIds, FileAutoReport(t) PROVE RunInv'
  <2>1. UNCHANGED <<users, types, subjects, categories, stage, lookup, outcome, files, touched>>
    BY <1>2, AutoForm DEF run
  <2>2. ~touched => Progress'
    BY <1>2, ProgressAuto DEF RunInv
  <2>3. ~touched => LookupsHold' /\ SeededSoFar'
    BY <2>1, SeededElsewhere DEF RunInv, LookupsHold, SeededSoFar
  <2>4. OnlyEditsStopARun'
    BY <2>1 DEF RunInv, OnlyEditsStopARun, SelfContained
  <2>5. Seeded => Seeded'
    <3>1. \A record : Present(record) => Present(record)'
      BY <1>2, AutoPresent DEF Present
    <3> QED
      BY <2>1, <3>1 DEF Seeded, SameKey
  <2>6. FinishedRunSeeds'
    BY <2>1, <2>5 DEF RunInv, FinishedRunSeeds
  <2> QED
    BY <2>1, <2>2, <2>3, <2>4, <2>6 DEF RunInv
<1> QED
  BY <1>1, <1>2

LEMMA RunFiles ==
    ASSUME SeedInv, RunInv, Reset \/ ExportNewUsers \/ ExportReports \/ UNCHANGED vars
    PROVE  RunInv'
<1>1. CASE Reset
  <2>1. stage' = "off" /\ outcome' = "none"
    BY <1>1 DEF Reset
  <2> QED
    BY <2>1, RunOver, RunGoesOn
<1>2. CASE ExportNewUsers \/ UNCHANGED vars
  <2>1. UNCHANGED <<tables, run, files, touched>>
    BY <1>2 DEF ExportNewUsers, vars, others
  <2>2. /\ Seen' = Seen /\ Key' = Key /\ Records' = Records
        /\ \A p : (Resolves(p)' <=> Resolves(p)) /\ Columns(p)' = Columns(p) /\ AboutOf(p)' = AboutOf(p)
        /\ \A a, b : SameColumns(a, b)' <=> SameColumns(a, b)
    BY <2>1, SameSession DEF run
  <2>3. Result' = Result /\ \A r : SwappedSubjects(r)' = SwappedSubjects(r)
    BY <2>1, <2>2 DEF Result, SwappedSubjects, tables, run
  <2>4. \A p : (Pending(p)' <=> Pending(p)) /\ \A u : DoneAs(u, p)' <=> DoneAs(u, p)
    BY <2>1, <2>2, <2>3 DEF Pending, DoneAs, Pairs, run
  <2>5. FoundHolds => FoundHolds'
    <3>1. found' = found /\ stage' = stage
      BY <2>1 DEF run
    <3>2. \A u : SameColumns(Seen[u], Result)' <=> SameColumns(Seen[u], Result)
      BY <2>2, <2>3 DEF SameColumns
    <3>3. SameColumns(Seen[found.uid], Result)' <=> SameColumns(Seen[found.uid], Result)
      BY <2>2, <2>3, <3>1 DEF SameColumns
    <3> QED
      BY <2>2, <2>4, <3>1, <3>2, <3>3, Zenon DEF FoundHolds
  <2>6. \A r : Handled(r) => Handled(r)'
    BY <2>1, <2>2, <2>3, <2>4 DEF Handled, SameColumns, run
  <2>7. Progress => Progress'
    BY <2>1, <2>2, <2>5, <2>6 DEF Progress, run
  <2>8. LookupsHold /\ SeededSoFar => LookupsHold' /\ SeededSoFar'
    BY <2>1, SeededElsewhere DEF LookupsHold, SeededSoFar, tables, run
  <2>9. FinishedRunSeeds' /\ OnlyEditsStopARun'
    <3>1. UNCHANGED <<users, types, reports, subjects, categories, files, touched, outcome>>
      BY <2>1 DEF tables, run
    <3>2. \A r : RecordOf(r)' = RecordOf(r)
      BY <3>1 DEF RecordOf, SubjectsOf
    <3>3. \A record : Present(record)' <=> Present(record)
      BY <3>1, <3>2 DEF Present
    <3>4. Seeded => Seeded'
      BY <3>1, <3>3 DEF Seeded, SameKey
    <3> QED
      BY <3>1, <3>4 DEF RunInv, FinishedRunSeeds, OnlyEditsStopARun, SelfContained
  <2> QED
    BY <2>1, <2>7, <2>8, <2>9 DEF RunInv, run
<1>3. CASE ExportReports
  <2>1. touched' /\ UNCHANGED run
    BY <1>3 DEF ExportReports
  <2> QED
    BY <2>1 DEF RunInv, FinishedRunSeeds, OnlyEditsStopARun, run
<1> QED
  BY <1>1, <1>2, <1>3

LEMMA RunInvariant == Spec => []RunInv
<1>1. Init => RunInv
  BY DEF Init, RunInv, FinishedRunSeeds, OnlyEditsStopARun, Progress, LookupsHold, SeededSoFar, Upserting
<1>2. SeedInv /\ RunInv /\ [Next]_vars => RunInv'
  <2> SUFFICES ASSUME SeedInv, RunInv, [Next]_vars PROVE RunInv'
    OBVIOUS
  <2>1. ComposeUp \/ Migrate \/ Reseed \/ Kill => RunInv'
    BY RunStarts
  <2>2. SeedStep => RunInv'
    <3>1. ASSUME NEW record \in todo, Find(record) PROVE RunInv'
      BY <3>1, RunFind
    <3>2. SeedCategories \/ ReadLookups => RunInv'
      BY RunStarts
    <3> QED
      BY <3>1, <3>2, RunWrite, RunCommit DEF SeedStep
  <2>3. Administrate \/ (\E t \in TypeIds : FileAutoReport(t)) => RunInv'
    BY RunOthers
  <2>4. Reset \/ ExportNewUsers \/ ExportReports \/ UNCHANGED vars => RunInv'
    BY RunFiles
  <2> QED
    BY <2>1, <2>2, <2>3, <2>4 DEF Next
<1> QED
  BY <1>1, <1>2, SeedInvariant, PTL DEF Spec

\* For any files, accounts and history: a run that nobody's edits interfere with ends with
\* every record of the files in the database, the subjects of the reports included.
THEOREM FinishedRunsSeed == Spec => []FinishedRunSeeds
<1>1. RunInv => FinishedRunSeeds
  BY DEF RunInv
<1> QED
  BY <1>1, RunInvariant, PTL

\* Whatever earlier runs, edits and twins have left in the tables, a run that nobody's edits
\* interfere with fails only over a file that names what it does not have or, pasted from
\* the export, is no Python.
THEOREM NothingLeftStopsARun == Spec => []OnlyEditsStopARun
<1>1. RunInv => OnlyEditsStopARun
  BY DEF RunInv
<1> QED
  BY <1>1, RunInvariant, PTL

-----------------------------------------------------------------------------
(* Codes stay unique *)

\* A stage that has staged nothing sees its table.
LEMMA EmptyStaged ==
    ASSUME NEW table, NEW ids, NEW Rows, IsTable(table, ids, Rows)
    PROVE  Apply(table, Empty) = table
<1>1. table = [u \in DOMAIN table |-> table[u]]
  BY DEF IsTable
<1>2. Apply(table, Empty) = [u \in DOMAIN table |-> table[u]]
  BY EmptyFits DEF Apply
<1> QED
  BY <1>1, <1>2

LEMMA CodesElsewhere ==
    ASSUME CodesInv, types' = types, stage' # "types"
    PROVE  CodesInv'
BY DEF CodesInv, DistinctCodes

LEMMA CodesFind ==
    ASSUME SeedInv, CodesInv, NEW record \in todo, Find(record)
    PROVE  CodesInv'
<1>1. CASE ~Resolves(record)
  <2>1. stage' = "off" /\ types' = types
    BY <1>1 DEF Find, Leave, tables
  <2> QED
    BY <2>1, CodesElsewhere
<1>2. CASE Resolves(record)
  <2>1. /\ stage \in Upserting /\ UNCHANGED <<tables, stage, staged, lookup, files>>
        /\ found'.uid \in DOMAIN Seen => SameColumns(Seen[found'.uid], Columns(record))
        /\ found'.row = Changes(found'.uid, Columns(record))
    BY <1>2, FindForm DEF others
  <2>2. Seen' = Seen
    BY <2>1, SameSession
  <2>3. ASSUME stage = "types", found'.uid \in DOMAIN Seen PROVE "code" \notin DOMAIN found'.row
    <3>1. Seen[found'.uid]["code"] = Columns(record)["code"]
      BY <2>1, <2>3 DEF SameColumns, Key
    <3>2. DOMAIN found'.row = {c \in DOMAIN Columns(record) : Seen[found'.uid][c] # Columns(record)[c]}
      BY <2>1, <2>3 DEF Changes, Restrict
    <3> QED
      BY <3>1, <3>2
  <2> QED
    BY <2>1, <2>2, <2>3 DEF CodesInv, DistinctCodes, tables
<1> QED
  BY <1>1, <1>2

LEMMA CodesWrite == ASSUME SeedInv, CodesInv, Write PROVE CodesInv'
<1>1. CASE Refused
  <2>1. stage' = "off" /\ types' = types
    BY <1>1 DEF Write, Leave, tables
  <2> QED
    BY <2>1, CodesElsewhere
<1>2. CASE ~Refused /\ found.row = Empty
  <2>1. staged' = staged /\ found' = NoFind /\ UNCHANGED <<tables, stage>>
    BY <1>2 DEF Write
  <2>2. Seen' = Seen
    BY <2>1 DEF Seen, Table, tables
  <2> QED
    BY <2>1, <2>2 DEF CodesInv, DistinctCodes, tables
<1>3. CASE ~Refused /\ found.row # Empty
  <2>1. found # NoFind /\ found' = NoFind /\ UNCHANGED <<types, stage>>
    BY <1>3 DEF Write, tables
  <2> SUFFICES ASSUME stage = "types" PROVE CodesInv'
    BY <2>1 DEF CodesInv, DistinctCodes
  <2>2. /\ DOMAIN Seen' = DOMAIN Seen \cup {found.uid} /\ Seen'[found.uid] = Result
        /\ \A u \in DOMAIN Seen : u # found.uid => Seen'[u] = Seen[u]
        /\ DOMAIN staged' = DOMAIN staged \cup {found.uid}
        /\ \A u \in DOMAIN staged : u # found.uid => staged'[u] = staged[u]
        /\ staged'[found.uid] = IF found.uid \in DOMAIN staged THEN Over(found.row, staged[found.uid]) ELSE found.row
    BY <1>3, WriteColumns
  <2>3. PICK uid : uid = found.uid
    OBVIOUS
  <2>4. /\ DistinctCodes(Seen)
        /\ \A t \in DOMAIN staged : t \in DOMAIN types => "code" \notin DOMAIN staged[t]
        /\ uid \in DOMAIN Seen => "code" \notin DOMAIN found.row
    BY <2>1, <2>3 DEF CodesInv
  <2>5. Table = types /\ DOMAIN Seen = DOMAIN types \cup DOMAIN staged /\ IsTable(Seen, TypeIds, TypeRow)
    BY SeenTyped DEF Table, Upserting, StageIds, StageRow
  <2>6. uid \in DOMAIN Seen => Result["code"] = Seen[uid]["code"]
    <3>1. uid \in DOMAIN Seen => Seen[uid] \in TypeRow
      BY <2>5 DEF IsTable
    <3>2. uid \in DOMAIN Seen => "code" \in DOMAIN Seen[uid]
      BY <3>1 DEF TypeRow
    <3> QED
      BY <2>3, <2>4, <3>2 DEF Result, Over
  <2>7. uid \notin DOMAIN Seen => \A t \in DOMAIN Seen : Seen[t]["code"] # Result["code"]
    <3>1. uid \notin DOMAIN Seen => found.new
      BY <1>3, <2>3, Zenon DEF Refused
    <3>2. found.new => \A t \in DOMAIN Seen : Seen[t]["code"] # found.row["code"]
      BY <1>3, Zenon DEF Refused
    <3>3. uid \notin DOMAIN Seen => Result = found.row
      BY <2>3 DEF Result
    <3> QED
      BY <3>1, <3>2, <3>3, Zenon
  <2>8. DistinctCodes(Seen')
    <3> SUFFICES ASSUME NEW t \in DOMAIN Seen', NEW u \in DOMAIN Seen', Seen'[t]["code"] = Seen'[u]["code"]
                 PROVE  t = u
      BY DEF DistinctCodes
    <3>1. CASE t # uid /\ u # uid
      BY <2>2, <2>3, <2>4, <3>1 DEF DistinctCodes
    <3>2. CASE uid \in DOMAIN Seen
      <4>1. \A v \in DOMAIN Seen : Seen'[v]["code"] = Seen[v]["code"]
        BY <2>2, <2>3, <2>6, <3>2
      <4>2. Seen[t]["code"] = Seen[u]["code"] /\ t \in DOMAIN Seen /\ u \in DOMAIN Seen
        BY <2>2, <2>3, <3>2, <4>1
      <4> QED
        BY <2>4, <4>2 DEF DistinctCodes
    <3>3. CASE uid \notin DOMAIN Seen
      BY <2>2, <2>3, <2>4, <2>7, <3>1, <3>3
    <3> QED
      BY <3>2, <3>3
  <2>9. ASSUME NEW t \in DOMAIN staged', t \in DOMAIN types PROVE "code" \notin DOMAIN staged'[t]
    <3>1. CASE t # uid
      BY <2>2, <2>3, <2>4, <2>9, <3>1
    <3>2. CASE t = uid
      BY <2>2, <2>3, <2>4, <2>5, <2>9, <3>2 DEF Over
    <3> QED
      BY <3>1, <3>2
  <2> QED
    BY <2>1, <2>8, <2>9 DEF CodesInv, DistinctCodes
<1> QED
  BY <1>1, <1>2, <1>3

LEMMA CodesPutType ==
    ASSUME SeedInv, CodesInv, NEW t \in TypeIds, NEW row \in TypeRow, PutType(t, row)
    PROVE  CodesInv'
<1>1. /\ types' = Put(t, row, types) /\ UNCHANGED run
      /\ t \in (DOMAIN types \ Pinned) \cup NewId(TypeIds)
      /\ \A other \in DOMAIN types \ {t} : types[other].code # row.code
      /\ ~\E other \in Locked \cap TypeIds : other \notin DOMAIN types /\ staged[other].code = row.code
  BY DEF PutType, Edit
<1>2. /\ DOMAIN types' = DOMAIN types \cup {t} /\ types'[t] = row
      /\ \A v \in DOMAIN types : v # t => types'[v] = types[v]
  <2>1. types' = Put(t, row, types)
    BY <1>1
  <2>2. /\ DOMAIN Put(t, row, types) = DOMAIN types \cup {t}
        /\ Put(t, row, types)[t] = row
        /\ \A v \in DOMAIN types : v # t => Put(t, row, types)[v] = types[v]
    BY DEF Put, Over
  <2> QED
    BY <2>1, <2>2, Zenon
<1>3. DistinctCodes(types')
  BY <1>1, <1>2 DEF CodesInv, DistinctCodes
<1>4. t \notin DOMAIN staged
  BY <1>1, NewIdUnused DEF Pinned, Locked, UsedIds
<1>5. ASSUME stage = "types"
      PROVE  /\ DistinctCodes(Seen')
             /\ \A u \in DOMAIN staged : u \in DOMAIN types' => "code" \notin DOMAIN staged[u]
             /\ found # NoFind => (found.uid \in DOMAIN Seen' => "code" \notin DOMAIN found.row)
  <2>1. /\ DistinctCodes(Seen)
        /\ \A u \in DOMAIN staged : u \in DOMAIN types => "code" \notin DOMAIN staged[u]
        /\ found # NoFind => (found.uid \in DOMAIN Seen => "code" \notin DOMAIN found.row)
    BY <1>5 DEF CodesInv
  <2>2. /\ Table = types /\ DOMAIN Seen = DOMAIN types \cup DOMAIN staged
        /\ Fits(staged, types, TypeIds, TypeRow) /\ IsTable(types, TypeIds, TypeRow)
    BY <1>5, SeenTyped DEF Table, Upserting, StageIds, StageRow
  <2>3. Seen = Apply(types, staged) /\ Seen' = Apply(types', staged)
    BY <1>1, <1>5 DEF Seen, Table, run
  <2>4. DOMAIN Seen' = DOMAIN Seen \cup {t} /\ Seen'[t] = row
    BY <1>2, <1>4, <2>2, <2>3 DEF Apply
  <2>5. ASSUME NEW v \in DOMAIN Seen, v # t PROVE Seen'[v] = Seen[v]
    BY <1>2, <2>2, <2>3, <2>5 DEF Apply
  <2>6. ASSUME NEW v \in DOMAIN Seen, v # t PROVE Seen[v]["code"] # row["code"]
    <3>1. CASE v \in DOMAIN types
      <4>1. Seen[v]["code"] = types[v]["code"]
        <5>1. types[v] \in TypeRow
          BY <2>2, <3>1 DEF IsTable
        <5>2. "code" \in DOMAIN types[v]
          BY <5>1 DEF TypeRow
        <5> QED
          BY <2>1, <2>2, <2>3, <3>1, <5>2 DEF Apply, Over
      <4> QED
        BY <1>1, <2>6, <3>1, <4>1
    <3>2. CASE v \notin DOMAIN types
      <4>1. v \in DOMAIN staged /\ Seen[v] = staged[v] /\ v \in TypeIds
        BY <2>2, <2>3, <3>2 DEF Apply, Fits
      <4> QED
        BY <1>1, <3>2, <4>1 DEF Locked
    <3> QED
      BY <3>1, <3>2
  <2>7. DistinctCodes(Seen')
    <3> SUFFICES ASSUME NEW v \in DOMAIN Seen', NEW u \in DOMAIN Seen', Seen'[v]["code"] = Seen'[u]["code"]
                 PROVE  v = u
      BY DEF DistinctCodes
    <3>1. CASE v # t /\ u # t
      BY <2>1, <2>4, <2>5, <3>1 DEF DistinctCodes
    <3>2. CASE v = t \/ u = t
      BY <2>4, <2>5, <2>6, <3>2
    <3> QED
      BY <3>1, <3>2
  <2>8. found # NoFind => (found.uid \in DOMAIN Seen' => found.uid \in DOMAIN Seen)
    <3>1. t \in DOMAIN types \/ t \notin UsedIds
      BY <1>1, NewIdUnused
    <3> QED
      BY <2>2, <2>4, <3>1 DEF UsedIds
  <2> QED
    BY <1>2, <1>4, <2>1, <2>7, <2>8
<1> QED
  BY <1>1, <1>3, <1>5 DEF CodesInv, run

LEMMA CodesInvariant == Spec => []CodesInv
<1>1. Init => CodesInv
  BY EmptyFits DEF Init, CodesInv, DistinctCodes
<1>2. SeedInv /\ CodesInv /\ [Next]_vars => CodesInv'
  <2> SUFFICES ASSUME SeedInv, CodesInv, [Next]_vars PROVE CodesInv'
    OBVIOUS
  <2>1. ComposeUp \/ Migrate \/ Reseed \/ Kill \/ ReadLookups => CodesInv'
    <3>1. ComposeUp \/ Migrate \/ Reseed \/ Kill \/ ReadLookups => types' = types /\ stage' # "types"
      BY DEF ComposeUp, Migrate, Reseed, Begin, Kill, Leave, ReadLookups, tables
    <3> QED
      BY <3>1, CodesElsewhere
  <2>2. ASSUME SeedCategories PROVE CodesInv'
    <3>1. /\ types' = types /\ staged' = Empty /\ found' = NoFind /\ stage' = "types"
      BY <2>2 DEF SeedCategories, SeedInv, StagedTyped, Upserting
    <3>2. Seen' = types
      <4>1. IsTable(types, TypeIds, TypeRow)
        BY TypeOKForm DEF SeedInv, TablesTyped
      <4>2. Seen' = Apply(types, Empty)
        BY <3>1 DEF Seen, Table
      <4> QED
        BY <4>1, <4>2, EmptyStaged
    <3> QED
      BY <3>1, <3>2, EmptyFits DEF CodesInv
  <2>3. ASSUME Commit PROVE CodesInv'
    <3>1. stage' # "types" /\ types' = IF stage = "types" THEN Seen ELSE types
      BY <2>3 DEF Commit, After, Upserting
    <3> QED
      BY <3>1 DEF CodesInv, DistinctCodes
  <2>4. SeedStep => CodesInv'
    <3>1. ASSUME NEW record \in todo, Find(record) PROVE CodesInv'
      BY <3>1, CodesFind
    <3> QED
      BY <2>1, <2>2, <2>3, <3>1, CodesWrite DEF SeedStep
  <2>5. ASSUME UNCHANGED <<types, run>> PROVE CodesInv'
    <3>1. stage = "types" => Seen' = Seen
      BY <2>5 DEF Seen, Table, run
    <3> QED
      BY <2>5, <3>1 DEF CodesInv, DistinctCodes, run
  <2>6. Administrate => CodesInv'
    <3>1. ASSUME NEW t \in TypeIds, NEW row \in TypeRow, PutType(t, row) PROVE CodesInv'
      BY <3>1, CodesPutType
    <3>2. ASSUME NEW u, NEW row, PutUser(u, row) PROVE UNCHANGED <<types, run>>
      BY <3>2 DEF PutUser, Edit
    <3>3. ASSUME NEW u, DeleteUser(u) PROVE UNCHANGED <<types, run>>
      BY <3>3 DEF DeleteUser, Edit
    <3>4. ASSUME NEW r, NEW row, NEW about, PutReport(r, row, about) PROVE UNCHANGED <<types, run>>
      BY <3>4 DEF PutReport, Edit
    <3>5. ASSUME NEW r, DeleteReport(r) PROVE UNCHANGED <<types, run>>
      BY <3>5 DEF DeleteReport, Edit
    <3> QED
      BY <2>5, <3>1, <3>2, <3>3, <3>4, <3>5 DEF Administrate
  <2>7. (\E t \in TypeIds : FileAutoReport(t)) \/ ExportNewUsers \/ ExportReports \/ UNCHANGED vars => CodesInv'
    <3>1. (\E t \in TypeIds : FileAutoReport(t)) \/ ExportNewUsers \/ ExportReports \/ UNCHANGED vars => UNCHANGED <<types, run>>
      BY DEF FileAutoReport, ExportNewUsers, ExportReports, vars, tables
    <3> QED
      BY <2>5, <3>1
  <2>8. Reset => CodesInv'
    BY EmptyFits DEF Reset, CodesInv, DistinctCodes
  <2> QED
    BY <2>1, <2>4, <2>6, <2>7, <2>8 DEF Next
<1> QED
  BY <1>1, <1>2, SeedInvariant, PTL DEF Spec

-----------------------------------------------------------------------------
(* A run over a seeded database changes nothing *)

\* The row of a record, in a table that is as the files have it.
IsRowOf(u, record) ==
    /\ u \in DOMAIN Table /\ Table[u] = Columns(record)
    /\ \A v \in DOMAIN Table : SameColumns(Table[v], Columns(record)) => v = u
    /\ stage = "reports" => SubjectsOf(u) = Pairs(u, AboutOf(record))

LEMMA UserHasRow ==
    ASSUME stage = "users", UsersAsSeeded, NEW record \in files.users
    PROVE  \E u : IsRowOf(u, record)
<1>1. PICK u \in DOMAIN users : users[u].email = record.email /\ users[u] \in files.users
  BY DEF UsersAsSeeded, SeededUsers
<1>2. users[u] = record
  BY <1>1 DEF UsersAsSeeded
<1>3. Table = users /\ Columns(record) = record /\ Key = {"email"}
  BY DEF Table, Columns, Key
<1>4. \A v \in DOMAIN users : SameColumns(users[v], record) => v = u
  BY <1>2, <1>3 DEF SameColumns, UsersAsSeeded
<1> QED
  BY <1>2, <1>3, <1>4 DEF IsRowOf

LEMMA TypeHasRow ==
    ASSUME CodesInv, stage = "types", SeededTypes, NEW record \in SeedTypes
    PROVE  \E t : IsRowOf(t, record)
<1>1. PICK t \in DOMAIN types : types[t] = record
  BY DEF SeededTypes
<1>2. Table = types /\ Columns(record) = record /\ Key = {"code"}
  BY DEF Table, Columns, Key
<1>3. \A v \in DOMAIN types : SameColumns(types[v], record) => v = t
  BY <1>1, <1>2 DEF SameColumns, CodesInv, DistinctCodes
<1> QED
  BY <1>1, <1>2, <1>3 DEF IsRowOf

LEMMA ReportHasRow ==
    ASSUME SeedInv, CodesInv, LookupsHold, stage = "reports", ReportsAsSeeded,
           NEW record \in files.reports, Resolves(record)
    PROVE  \E r : IsRowOf(r, record)
<1>1. PICK r \in DOMAIN reports : RecordOf(r) = record
  BY DEF ReportsAsSeeded, Present
<1>2. /\ record.code = types[reports[r].type].code /\ record.text = reports[r].text
      /\ record.status = reports[r].status /\ record.by = users[reports[r].by].email
      /\ record.about = {users[s[2]].email : s \in SubjectsOf(r)}
  BY <1>1 DEF RecordOf
<1>3. TablesTyped
  BY TypeOKForm DEF SeedInv
<1>4. reports[r] \in ReportRow /\ reports[r].type \in DOMAIN types /\ reports[r].by \in DOMAIN users
  BY <1>3 DEF TablesTyped, IsTable
<1>5. record.code \in DOMAIN lookup.type /\ record.by \in DOMAIN lookup.user /\ record.about \subseteq DOMAIN lookup.user
  BY DEF Resolves
<1>6. lookup.type[record.code] = reports[r].type
  BY <1>2, <1>4, <1>5 DEF LookupsHold, CodesInv, DistinctCodes
<1>7. ASSUME NEW u \in DOMAIN users, users[u].email \in DOMAIN lookup.user
      PROVE  lookup.user[users[u].email] = u
  BY <1>7 DEF LookupsHold, ReportsAsSeeded
<1>8. lookup.user[record.by] = reports[r].by
  BY <1>2, <1>4, <1>5, <1>7
<1>9. Columns(record) = [type |-> reports[r].type, text |-> reports[r].text, status |-> reports[r].status,
                         by |-> reports[r].by]
  BY <1>2, <1>6, <1>8 DEF Columns
<1>10. Columns(record) = reports[r]
  BY <1>4, <1>9 DEF ReportRow
<1>11. SubjectsOf(r) = Pairs(r, AboutOf(record))
  <2>1. ASSUME NEW s \in SubjectsOf(r)
        PROVE  s = <<r, s[2]>> /\ s[2] \in DOMAIN users /\ users[s[2]].email \in record.about
    <3>1. s \in subjects /\ s[1] = r
      BY DEF SubjectsOf
    <3>2. s = <<s[1], s[2]>> /\ s[2] \in DOMAIN users
      BY <1>3, <3>1, PairsOfForm DEF TablesTyped
    <3> QED
      BY <1>2, <3>1, <3>2
  <2>2. ASSUME NEW s \in SubjectsOf(r) PROVE s \in Pairs(r, AboutOf(record))
    <3>1. s[2] = lookup.user[users[s[2]].email]
      BY <1>5, <1>7, <2>1
    <3>2. s[2] \in AboutOf(record)
      BY <2>1, <3>1 DEF AboutOf
    <3> QED
      BY <2>1, <3>2 DEF Pairs
  <2>3. ASSUME NEW p \in Pairs(r, AboutOf(record)) PROVE p \in SubjectsOf(r)
    <3>1. PICK e \in record.about : p = <<r, lookup.user[e]>>
      BY DEF Pairs, AboutOf
    <3>2. PICK s \in SubjectsOf(r) : e = users[s[2]].email
      BY <1>2
    <3>3. lookup.user[e] = s[2] /\ s = <<r, s[2]>>
      BY <1>5, <1>7, <2>1, <3>2
    <3> QED
      BY <3>1, <3>3
  <2> QED
    BY <2>2, <2>3
<1>12. ASSUME NEW v \in DOMAIN reports, SameColumns(reports[v], Columns(record)) PROVE v = r
  <2>1. reports[v]["type"] = reports[r]["type"] /\ reports[v]["text"] = reports[r]["text"]
    BY <1>10, <1>12 DEF SameColumns, Key
  <2>2. reports[r].text # Automatic
    BY <1>2 DEF ReportsAsSeeded
  <2> QED
    BY <2>1, <2>2 DEF ReportsAsSeeded
<1>13. Table = reports
  BY DEF Table
<1> QED
  BY <1>10, <1>11, <1>12, <1>13 DEF IsRowOf

\* The files and tables are as a seeded database has them, as far as the stage reads them.
AsSeeded ==
    \/ stage = "users" /\ UsersAsSeeded
    \/ stage = "types" /\ SeededTypes
    \/ stage = "reports" /\ ReportsAsSeeded

LEMMA RerunForm == RerunInv <=> (~touched /\ AsSeeded => NothingStaged)
BY DEF RerunInv, AsSeeded

LEMMA RerunElsewhere == ASSUME touched' \/ stage' \notin Upserting PROVE RerunInv'
BY DEF RerunInv, Upserting

LEMMA RerunStarts ==
    ASSUME staged' = Empty, found' = NoFind, swap' = NoSwap
    PROVE  RerunInv'
<1>1. NothingStaged'
  BY EmptyFits DEF NothingStaged
<1> QED
  BY <1>1 DEF RerunInv

LEMMA RerunFind ==
    ASSUME SeedInv, RunInv, CodesInv, RerunInv, NEW record \in todo, Find(record)
    PROVE  RerunInv'
<1>1. CASE ~Resolves(record)
  <2>1. stage' = "off"
    BY <1>1 DEF Find, Leave
  <2> QED
    BY <2>1, RerunElsewhere DEF Upserting
<1>2. CASE Resolves(record)
  <2>1. /\ stage \in Upserting /\ found = NoFind /\ UNCHANGED <<tables, stage, staged, swap, lookup, files, touched>>
        /\ found'.row = Changes(found'.uid, Columns(record))
        /\ found'.uid \in DOMAIN Seen => SameColumns(Seen[found'.uid], Columns(record))
        /\ stage = "reports" => found'.about = AboutOf(record)
    BY <1>2, FindForm DEF others
  <2>2. found'.uid \notin DOMAIN Seen => \A u \in DOMAIN Seen : ~SameColumns(Seen[u], Columns(record))
    <3>1. found'.new => \A u \in DOMAIN Seen : ~SameColumns(Seen[u], Columns(record))
      BY <1>2, FindForm
    <3>2. ~found'.new => found'.uid \in DOMAIN Seen
      BY <1>2, FindForm
    <3> QED
      BY <3>1, <3>2, Zenon
  <2> SUFFICES ASSUME ~touched, AsSeeded PROVE RerunInv'
    BY <2>1 DEF RerunInv, AsSeeded, UsersAsSeeded, SeededUsers, SeededTypes, ReportsAsSeeded, Present, RecordOf, SubjectsOf, tables
  <2>3. NothingStaged /\ record \in Records
    BY <2>1, RerunForm DEF RunInv, Progress
  <2>4. Seen = Table
    BY <2>1, <2>3, SeenTyped, EmptyStaged DEF Seen, NothingStaged
  <2>5. PICK u : IsRowOf(u, record)
    <3>1. CASE stage = "users"
      BY <2>3, <3>1, UserHasRow DEF AsSeeded, Records
    <3>2. CASE stage = "types"
      BY <2>3, <3>2, TypeHasRow DEF AsSeeded, Records
    <3>3. CASE stage = "reports"
      BY <1>2, <2>3, <3>3, ReportHasRow DEF AsSeeded, Records, RunInv
    <3> QED
      BY <2>1, <3>1, <3>2, <3>3 DEF Upserting
  <2>6. SameColumns(Seen[u], Columns(record)) /\ u \in DOMAIN Seen
    BY <2>4, <2>5 DEF IsRowOf, SameColumns
  <2>7. found'.uid = u
    BY <2>1, <2>2, <2>4, <2>5, <2>6 DEF IsRowOf
  <2>8. found'.row = Empty
    BY <2>1, <2>4, <2>5, <2>6, <2>7 DEF Changes, Restrict, Empty, IsRowOf
  <2>9. stage = "reports" => Pairs(found'.uid, found'.about) = SubjectsOf(found'.uid)
    BY <2>1, <2>5, <2>7 DEF IsRowOf
  <2>10. NothingStaged'
    BY <2>1, <2>3, <2>8, <2>9 DEF NothingStaged, Pairs, SubjectsOf, tables
  <2> QED
    BY <2>10 DEF RerunInv
<1> QED
  BY <1>1, <1>2

LEMMA RerunWrite == ASSUME SeedInv, RerunInv, Write PROVE RerunInv'
<1>1. CASE Refused
  <2>1. stage' = "off"
    BY <1>1 DEF Write, Leave
  <2> QED
    BY <2>1, RerunElsewhere DEF Upserting
<1>2. CASE ~Refused
  <2>1. /\ found # NoFind /\ found' = NoFind /\ UNCHANGED <<tables, stage, files, touched>>
        /\ found.row = Empty => staged' = staged
        /\ stage = "reports" =>
             swap' = [out |-> swap.out \cup SubjectsOf(found.uid),
                      in |-> {s \in swap.in : s[1] # found.uid} \cup Pairs(found.uid, found.about)]
    BY <1>2 DEF Write, others
  <2> SUFFICES ASSUME ~touched, AsSeeded PROVE RerunInv'
    BY <2>1 DEF RerunInv, AsSeeded, UsersAsSeeded, SeededUsers, SeededTypes, ReportsAsSeeded, Present, RecordOf, SubjectsOf, tables
  <2>2. NothingStaged
    BY RerunForm
  <2>3. ASSUME stage = "reports" PROVE swap'.in = swap'.out /\ swap'.out \subseteq subjects
    <3>1. /\ swap.in = swap.out /\ swap.out \subseteq subjects
          /\ Pairs(found.uid, found.about) = SubjectsOf(found.uid)
      BY <2>1, <2>2, <2>3 DEF NothingStaged
    <3>2. /\ swap'.out = swap.out \cup SubjectsOf(found.uid)
          /\ swap'.in = {s \in swap.in : s[1] # found.uid} \cup SubjectsOf(found.uid)
      BY <2>1, <2>3, <3>1
    <3> QED
      BY <3>1, <3>2 DEF SubjectsOf
  <2>4. NothingStaged'
    BY <2>1, <2>2, <2>3 DEF NothingStaged, tables
  <2> QED
    BY <2>4 DEF RerunInv
<1> QED
  BY <1>1, <1>2

\* The emitter's report makes no table as seeded that was not so before.
LEMMA RerunAuto ==
    ASSUME SeedInv, RerunInv, NEW t \in TypeIds, FileAutoReport(t)
    PROVE  RerunInv'
<1>1. UNCHANGED <<users, types, subjects, run, files, touched>>
  BY AutoForm
<1>2. PICK new \in ReportIds :
        /\ new \notin DOMAIN reports
        /\ DOMAIN reports' = DOMAIN reports \cup {new} /\ reports'[new].text = Automatic
        /\ \A v \in DOMAIN reports : reports'[v] = reports[v]
  BY AutoForm
<1>3. NothingStaged => NothingStaged'
  BY <1>1 DEF NothingStaged, SubjectsOf, Pairs, run
<1>4. ASSUME ReportsAsSeeded' PROVE ReportsAsSeeded
  <2>1. ASSUME NEW record \in files.reports PROVE record.text # Automatic /\ Present(record)
    <3>1. record.text # Automatic /\ Present(record)'
      BY <1>1, <1>4 DEF ReportsAsSeeded
    <3>2. PICK r \in DOMAIN reports' : RecordOf(r)' = record
      BY <3>1 DEF Present
    <3>3. RecordOf(r)'.text = reports'[r].text
      BY DEF RecordOf
    <3>4. r \in DOMAIN reports
      BY <1>2, <3>1, <3>2, <3>3
    <3>5. RecordOf(r) = record
      BY <3>2, <3>4, AutoPresent
    <3> QED
      BY <3>1, <3>4, <3>5 DEF Present
  <2>2. ASSUME NEW r \in DOMAIN reports, NEW s \in DOMAIN reports, reports[r].text # Automatic,
               reports[r].text = reports[s].text, reports[r].type = reports[s].type
        PROVE  r = s
    BY <1>2, <1>4, <2>2 DEF ReportsAsSeeded
  <2>3. \A u, v \in DOMAIN users : users[u].email = users[v].email => u = v
    BY <1>1, <1>4 DEF ReportsAsSeeded
  <2> QED
    BY <2>1, <2>2, <2>3 DEF ReportsAsSeeded
<1>5. /\ UsersAsSeeded' => UsersAsSeeded
      /\ SeededTypes' => SeededTypes
  BY <1>1 DEF UsersAsSeeded, SeededUsers, SeededTypes
<1> QED
  BY <1>1, <1>3, <1>4, <1>5 DEF RerunInv, run

LEMMA RerunInvariant == Spec => []RerunInv
<1>1. Init => RerunInv
  BY DEF Init, RerunInv
<1>2. SeedInv /\ RunInv /\ CodesInv /\ RerunInv /\ [Next]_vars => RerunInv'
  <2> SUFFICES ASSUME SeedInv, RunInv, CodesInv, RerunInv, [Next]_vars PROVE RerunInv'
    OBVIOUS
  <2>1. ComposeUp \/ Kill \/ Commit \/ Reset => RerunInv'
    <3>1. ComposeUp \/ Kill \/ Commit \/ Reset => stage' \notin Upserting
      BY DEF ComposeUp, Kill, Leave, Commit, After, Reset, Upserting
    <3> QED
      BY <3>1, RerunElsewhere
  <2>2. Migrate \/ Reseed \/ SeedCategories \/ ReadLookups => RerunInv'
    <3>1. Migrate \/ Reseed \/ SeedCategories \/ ReadLookups => staged' = Empty /\ found' = NoFind /\ swap' = NoSwap
      BY DEF Migrate, Reseed, Begin, SeedCategories, ReadLookups, SeedInv, StagedTyped, Upserting
    <3> QED
      BY <3>1, RerunStarts
  <2>3. SeedStep => RerunInv'
    <3>1. ASSUME NEW record \in todo, Find(record) PROVE RerunInv'
      BY <3>1, RerunFind
    <3> QED
      BY <2>1, <2>2, <3>1, RerunWrite DEF SeedStep
  <2>4. Administrate \/ ExportReports => RerunInv'
    <3>1. Administrate \/ ExportReports => touched'
      BY DEF Administrate, PutUser, DeleteUser, PutType, PutReport, DeleteReport, Edit, ExportReports
    <3> QED
      BY <3>1, RerunElsewhere
  <2>5. (\E t \in TypeIds : FileAutoReport(t)) => RerunInv'
    BY RerunAuto
  <2>6. ASSUME ExportNewUsers \/ UNCHANGED vars PROVE RerunInv'
    <3>1. UNCHANGED <<tables, run, files, touched>>
      BY <2>6 DEF ExportNewUsers, vars, others
    <3>2. NothingStaged => NothingStaged'
      BY <3>1 DEF NothingStaged, SubjectsOf, Pairs, tables, run
    <3>3. \A record : Present(record)' => Present(record)
      <4>1. \A r : RecordOf(r)' = RecordOf(r)
        BY <3>1 DEF RecordOf, SubjectsOf, tables
      <4> QED
        BY <3>1, <4>1 DEF Present, tables
    <3>4. AsSeeded' => AsSeeded
      BY <3>1, <3>3 DEF AsSeeded, UsersAsSeeded, SeededUsers, SeededTypes, ReportsAsSeeded, tables, run
    <3> QED
      BY <3>1, <3>2, <3>4, RerunForm DEF RerunInv, AsSeeded
  <2> QED
    BY <2>1, <2>2, <2>3, <2>4, <2>5, <2>6 DEF Next
<1> QED
  BY <1>1, <1>2, SeedInvariant, RunInvariant, CodesInvariant, PTL DEF Spec

\* start-dev.sh seeds on every start: over a seeded database, whatever its size, the steps of a
\* run leave every table as it is in the columns modelled, the subjects they delete and add again
\* included.  Dates are not modelled: those the seeds give relative to today do move.
THEOREM RerunsChangeNothing == Spec => RerunChangesNothing
<1>1. ASSUME SeedInv, RunInv, CodesInv, RerunInv, ~touched, Seeded, KeysAreUnique, SeedStep
      PROVE  UNCHANGED tables
  <2>1. ASSUME NEW record \in todo, Find(record) PROVE UNCHANGED tables
    BY <2>1 DEF Find, Leave
  <2>2. Write \/ ReadLookups => UNCHANGED tables
    BY DEF Write, Leave, ReadLookups
  <2>3. SeedCategories => UNCHANGED tables
    BY <1>1 DEF SeedCategories, Seeded, tables
  <2>4. ASSUME Commit PROVE UNCHANGED tables
    <3>1. stage \in Upserting
      BY <2>4 DEF Commit
    <3>2. AsSeeded
      <4>1. stage = "users" => UsersAsSeeded
        BY <1>1 DEF Seeded, KeysAreUnique, UsersAsSeeded, SeededUsers
      <4>2. stage = "types" => SeededTypes
        BY <1>1 DEF Seeded, SeededTypes
      <4>3. ReportsAsSeeded
        <5>1. ASSUME NEW record \in files.reports PROVE record.text # Automatic /\ Present(record)
          <6>1. PICK other \in files.reports : SameKey(record, other) /\ Present(other)
            BY <1>1 DEF Seeded
          <6> QED
            BY <1>1, <6>1 DEF KeysAreUnique
        <5> QED
          BY <1>1, <5>1 DEF KeysAreUnique, ReportsAsSeeded
      <4> QED
        BY <3>1, <4>1, <4>2, <4>3 DEF AsSeeded, Upserting
    <3>3. NothingStaged
      BY <1>1, <3>2, RerunForm
    <3>4. Seen = Table
      BY <1>1, <3>1, <3>3, SeenTyped, EmptyStaged DEF Seen, NothingStaged
    <3>5. (subjects \ swap.out) \cup swap.in = subjects
      <4>1. CASE stage = "reports"
        BY <3>3, <4>1 DEF NothingStaged
      <4>2. CASE stage # "reports"
        BY <1>1, <4>2, EmptyFits DEF SeedInv, StagedTyped
      <4> QED
        BY <4>1, <4>2
    <3> QED
      BY <2>4, <3>4, <3>5 DEF Commit, Table, tables
  <2> QED
    BY <1>1, <2>1, <2>2, <2>3, <2>4 DEF SeedStep
<1>2. SeedInv /\ RunInv /\ CodesInv /\ RerunInv =>
        [~touched /\ Seeded /\ KeysAreUnique /\ SeedStep => UNCHANGED tables]_vars
  BY <1>1
<1> QED
  BY <1>2, SeedInvariant, RunInvariant, CodesInvariant, RerunInvariant, PTL DEF RerunChangesNothing
=============================================================================
