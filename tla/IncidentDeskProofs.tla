--------------------------- MODULE IncidentDeskProofs ---------------------------
(***************************************************************************)
(* Safety of IncidentDesk for any accounts, reports, tokens and restores.  *)
(***************************************************************************)
EXTENDS IncidentDesk, TLAPS

-----------------------------------------------------------------------------
(* The shape of a request: it only answers, or it asks for one commit *)

UserTables == [Users -> Roles \cup {"none", "gone"}]
ReportTables == [Reports -> Users \cup {NoReporter}]
SubjectTables == SUBSET (Reports \X Users)

Answers == \E code \in {200, 401, 403, 404} : Respond(code)
Commits == \E us \in UserTables, rs \in ReportTables, ss \in SubjectTables : Commit(us, rs, ss)

LEMMA RoleSets == Admins \subseteq Roles /\ Creators \subseteq Roles
BY DEF Admins, Creators, Roles

LEMMA TablesTyped ==
    ASSUME TypeOK
    PROVE  users \in UserTables /\ reports \in ReportTables /\ subjects \in SubjectTables
BY DEF TypeOK, UserTables, ReportTables, SubjectTables

\* A refused token is answered 401 or 403.
LEMMA Refused ==
    ASSUME NEW t \in tokens, NEW allowed, RequireRole(t, allowed) # 200,
           Respond(RequireRole(t, allowed))
    PROVE  Answers
BY DEF RequireRole, Answers

LEMMA AccountRequestShape ==
    ASSUME TypeOK, NEW t \in tokens, AccountRequest(t)
    PROVE  (Answers \/ Commits) /\ UNCHANGED <<tokens, restores>>
<1>1. ASSUME NEW u \in Users, NEW role \in Roles, CreateUser(t, u, role)
      PROVE  (Answers \/ Commits) /\ UNCHANGED <<tokens, restores>>
  <2>1. [users EXCEPT ![u] = role] \in UserTables
    BY TablesTyped DEF UserTables
  <2> QED BY <1>1, <2>1, TablesTyped, Refused DEF CreateUser, Request, Commits
<1>2. ASSUME NEW u \in Users, NEW role \in Roles \cup {Unset}, UpdateUser(t, u, role)
      PROVE  (Answers \/ Commits) /\ UNCHANGED <<tokens, restores>>
  <2>1. role # Unset => [users EXCEPT ![u] = role] \in UserTables
    BY TablesTyped DEF UserTables
  <2>2. CASE RequireRole(t, Roles) = 200
    BY <1>2, <2>1, <2>2, TablesTyped DEF UpdateUser, Request, Answers, Commits
  <2>3. CASE RequireRole(t, Roles) # 200
    BY <1>2, <2>3, Refused DEF UpdateUser, Request
  <2> QED BY <2>2, <2>3
<1>3. ASSUME NEW u \in Users, DeleteUser(t, u)
      PROVE  (Answers \/ Commits) /\ UNCHANGED <<tokens, restores>>
  <2>1. [users EXCEPT ![u] = "gone"] \in UserTables
    BY TablesTyped DEF UserTables
  <2>2. CASE RequireRole(t, Admins) = 200
    BY <1>3, <2>1, <2>2, TablesTyped DEF DeleteUser, Request, Answers, Commits
  <2>3. CASE RequireRole(t, Admins) # 200
    BY <1>3, <2>3, Refused DEF DeleteUser, Request
  <2> QED BY <2>2, <2>3
<1> QED BY <1>1, <1>2, <1>3 DEF AccountRequest

LEMMA ReportRequestShape ==
    ASSUME TypeOK, NEW t \in tokens, ReportRequest(t)
    PROVE  (Answers \/ Commits) /\ UNCHANGED <<tokens, restores>>
<1>1. ASSUME NEW r \in Reports, NEW named \in SUBSET Users, CreateReport(t, r, named)
      PROVE  (Answers \/ Commits) /\ UNCHANGED <<tokens, restores>>
  <2>1. [reports EXCEPT ![r] = t.uid] \in ReportTables
    BY TablesTyped DEF ReportTables, TypeOK, Token
  <2>2. subjects \cup ({r} \X named) \in SubjectTables
    BY TablesTyped DEF SubjectTables
  <2> QED BY <1>1, <2>1, <2>2, TablesTyped, Refused DEF CreateReport, Request, Commits
<1>2. ASSUME NEW r \in Reports, NEW named \in SUBSET Users, UpdateReport(t, r, named)
      PROVE  (Answers \/ Commits) /\ UNCHANGED <<tokens, restores>>
  <2>1. (subjects \ SubjectsOf(r)) \cup ({r} \X named) \in SubjectTables
    BY TablesTyped DEF SubjectTables
  <2>2. CASE RequireRole(t, Admins) = 200
    BY <1>2, <2>1, <2>2, TablesTyped DEF UpdateReport, Request, Answers, Commits
  <2>3. CASE RequireRole(t, Admins) # 200
    BY <1>2, <2>3, Refused DEF UpdateReport, Request
  <2> QED BY <2>2, <2>3
<1>3. ASSUME NEW r \in Reports, DeleteReport(t, r)
      PROVE  (Answers \/ Commits) /\ UNCHANGED <<tokens, restores>>
  <2>1. [reports EXCEPT ![r] = NoReporter] \in ReportTables
    BY TablesTyped DEF ReportTables
  <2>2. subjects \ SubjectsOf(r) \in SubjectTables
    BY TablesTyped DEF SubjectTables
  <2>3. CASE RequireRole(t, Admins) = 200
    BY <1>3, <2>1, <2>2, <2>3, TablesTyped DEF DeleteReport, Request, Answers, Commits
  <2>4. CASE RequireRole(t, Admins) # 200
    BY <1>3, <2>4, Refused DEF DeleteReport, Request
  <2> QED BY <2>3, <2>4
<1>4. ASSUME NEW r \in Reports, NEW u \in Users, AddSubject(t, r, u)
      PROVE  (Answers \/ Commits) /\ UNCHANGED <<tokens, restores>>
  <2>1. subjects \cup {<<r, u>>} \in SubjectTables
    BY TablesTyped DEF SubjectTables
  <2>2. CASE RequireRole(t, Admins) = 200
    BY <1>4, <2>1, <2>2, TablesTyped DEF AddSubject, Request, Answers, Commits
  <2>3. CASE RequireRole(t, Admins) # 200
    BY <1>4, <2>3, Refused DEF AddSubject, Request
  <2> QED BY <2>2, <2>3
<1>5. ASSUME NEW r \in Reports, NEW u \in Users, RemoveSubject(t, r, u)
      PROVE  (Answers \/ Commits) /\ UNCHANGED <<tokens, restores>>
  <2>1. subjects \ {<<r, u>>} \in SubjectTables
    BY TablesTyped DEF SubjectTables
  <2>2. CASE RequireRole(t, Admins) = 200
    BY <1>5, <2>1, <2>2, TablesTyped DEF RemoveSubject, Request, Answers, Commits
  <2>3. CASE RequireRole(t, Admins) # 200
    BY <1>5, <2>3, Refused DEF RemoveSubject, Request
  <2> QED BY <2>2, <2>3
<1> QED BY <1>1, <1>2, <1>3, <1>4, <1>5 DEF ReportRequest

\* Signing in adds a typed token.
LEMMA SignTyped ==
    ASSUME TypeOK, NEW u \in Users, NEW role \in Roles, Sign(u, role)
    PROVE  tokens' \subseteq Token /\ restores' = restores
<1>1. [uid |-> u, role |-> role, old |-> FALSE] \in Token
  BY DEF Token
<1>2. tokens \subseteq Token
  BY DEF TypeOK
<1> QED BY <1>1, <1>2 DEF Sign

-----------------------------------------------------------------------------
(* Types and foreign keys *)

References == ReferencesHold(users, reports, subjects)

\* Type correctness.
THEOREM TypeCorrect == Spec => []TypeOK
<1>1. Init => TypeOK
  BY RootAssumption DEF Init, TypeOK, Roles, Token
<1>2. TypeOK /\ [Next]_vars => TypeOK'
  <2> SUFFICES ASSUME TypeOK, [Next]_vars PROVE TypeOK'
    OBVIOUS
  <2>1. ASSUME NEW u \in Users, Login(u) PROVE TypeOK'
    <3>1. tokens' \subseteq Token /\ restores' = restores
      BY <2>1, SignTyped DEF Login, Account
    <3> QED BY <2>1, <3>1 DEF Login, Respond, tables, TypeOK
  <2>2. ASSUME NEW u \in Users, GoogleSignUp(u) PROVE TypeOK'
    <3>1. tokens' \subseteq Token /\ restores' = restores
      <4>1. CASE Sign(u, "viewer")
        BY <4>1, SignTyped DEF Roles
      <4>2. CASE UNCHANGED <<tokens, restores>>
        BY <4>2 DEF TypeOK
      <4> QED BY <2>2, <4>1, <4>2 DEF GoogleSignUp
    <3>2. [users EXCEPT ![u] = "viewer"] \in UserTables
      BY TablesTyped DEF UserTables, Roles
    <3> QED BY <2>2, <3>1, <3>2 DEF GoogleSignUp, TypeOK, UserTables
  <2>3. ASSUME NEW t \in tokens, AccountRequest(t) \/ ReportRequest(t) PROVE TypeOK'
    <3>1. (Answers \/ Commits) /\ UNCHANGED <<tokens, restores>>
      BY <2>3, AccountRequestShape, ReportRequestShape
    <3>2. CASE Answers
      BY <3>1, <3>2 DEF Answers, Respond, tables, TypeOK
    <3>3. CASE Commits
      BY <3>1, <3>3 DEF Commits, Commit, tables, TypeOK, UserTables, ReportTables, SubjectTables
    <3> QED BY <3>1, <3>2, <3>3
  <2>4. ASSUME NEW t \in tokens, Age(t) PROVE TypeOK'
    <3>1. t \in Token
      BY DEF TypeOK
    <3>2. [t EXCEPT !.old = TRUE] \in Token
      BY <3>1 DEF Token
    <3> QED BY <2>4, <3>2 DEF Age, tables, TypeOK
  <2>5. ASSUME NEW t \in tokens, Expire(t) PROVE TypeOK'
    BY <2>5 DEF Expire, tables, TypeOK
  <2>6. CASE Unauthenticated \/ RequestFails
    BY <2>6 DEF Unauthenticated, RequestFails, Respond, tables, TypeOK
  <2>7. CASE Restore
    BY <2>7 DEF Restore, TypeOK, Roles
  <2>8. CASE UNCHANGED vars
    BY <2>8 DEF vars, tables, TypeOK
  <2> QED BY <2>1, <2>2, <2>3, <2>4, <2>5, <2>6, <2>7, <2>8 DEF Next
<1> QED BY <1>1, <1>2, PTL DEF Spec

\* No step leaves a reference to a row that is not there.
LEMMA ReferencesAlways == Spec => []References
<1>1. Init => References
  BY DEF Init, References, ReferencesHold
<1>2. TypeOK /\ References /\ [Next]_vars => References'
  <2> SUFFICES ASSUME TypeOK, References, [Next]_vars PROVE References'
    OBVIOUS
  <2>1. CASE UNCHANGED tables
    BY <2>1 DEF tables, References, ReferencesHold
  <2>2. ASSUME NEW us, NEW rs, NEW ss, Commit(us, rs, ss) PROVE References'
    BY <2>1, <2>2 DEF Commit, References, ReferencesHold
  <2>3. ASSUME NEW u \in Users, Login(u) \/ GoogleSignUp(u) PROVE References'
    <3>1. CASE Login(u)
      BY <2>1, <3>1 DEF Login, Respond
    <3>2. CASE GoogleSignUp(u)
      <4>1. \A x \in Users : users'[x] = IF x = u THEN "viewer" ELSE users[x]
        BY <3>2, TablesTyped DEF GoogleSignUp, UserTables
      <4>2. \A x \in Users : users[x] \in Roles => users'[x] \in Roles
        BY <4>1 DEF Roles
      <4>3. \A r \in Reports : reports[r] # NoReporter => reports[r] \in Users
        BY TablesTyped DEF ReportTables
      <4>4. \A s \in subjects : s[2] \in Users
        BY TablesTyped DEF SubjectTables
      <4> QED BY <3>2, <4>2, <4>3, <4>4 DEF GoogleSignUp, References, ReferencesHold
    <3> QED BY <2>3, <3>1, <3>2
  <2>4. ASSUME NEW t \in tokens, AccountRequest(t) \/ ReportRequest(t) PROVE References'
    <3>1. Answers \/ Commits
      BY <2>4, AccountRequestShape, ReportRequestShape
    <3> QED BY <3>1, <2>1, <2>2 DEF Answers, Commits, Respond
  <2>5. ASSUME NEW t \in tokens, Age(t) \/ Expire(t) PROVE References'
    BY <2>1, <2>5 DEF Age, Expire
  <2>6. CASE Unauthenticated \/ RequestFails
    BY <2>1, <2>6 DEF Unauthenticated, RequestFails, Respond
  <2>7. CASE Restore
    BY <2>7 DEF Restore, References, ReferencesHold
  <2>8. CASE UNCHANGED vars
    BY <2>1, <2>8 DEF vars
  <2> QED BY <2>3, <2>4, <2>5, <2>6, <2>7, <2>8 DEF Next
<1> QED BY <1>1, <1>2, TypeCorrect, PTL DEF Spec

-----------------------------------------------------------------------------
(* Action properties *)

\* A request that is refused or fails changes no table, whatever it asked for.
THEOREM NothingChanges == Spec => RefusalsChangeNothing
<1>1. TypeOK /\ [Next]_vars => [status' \in {401, 403, 404, 500} => UNCHANGED tables]_vars
  <2> SUFFICES ASSUME TypeOK, Next, status' \in {401, 403, 404, 500} PROVE UNCHANGED tables
    BY DEF vars
  <2>1. ASSUME NEW us, NEW rs, NEW ss, Commit(us, rs, ss) PROVE UNCHANGED tables
    BY <2>1, NamesAssumption DEF Commit
  <2>2. ASSUME NEW u \in Users, Login(u) \/ GoogleSignUp(u) PROVE UNCHANGED tables
    BY <2>2, NamesAssumption DEF Login, GoogleSignUp, Respond
  <2>3. ASSUME NEW t \in tokens, AccountRequest(t) \/ ReportRequest(t) PROVE UNCHANGED tables
    <3>1. Answers \/ Commits
      BY <2>3, AccountRequestShape, ReportRequestShape
    <3> QED BY <3>1, <2>1 DEF Answers, Commits, Respond
  <2>4. ASSUME NEW t \in tokens, Age(t) \/ Expire(t) PROVE UNCHANGED tables
    BY <2>4 DEF Age, Expire
  <2>5. CASE Unauthenticated \/ RequestFails
    BY <2>5 DEF Unauthenticated, RequestFails, Respond
  <2>6. CASE Restore
    BY <2>6 DEF Restore
  <2> QED BY <2>2, <2>3, <2>4, <2>5, <2>6 DEF Next
<1> QED BY <1>1, TypeCorrect, PTL DEF Spec, RefusalsChangeNothing

\* The existence check and the cascade are enough: with the references in place
\* a report whose subjects exist is never answered with 500.
THEOREM NoErrors == Spec => NoForeignKeyErrors
<1>1. TypeOK /\ References /\ [Next]_vars =>
        [status' = 500 =>
           \A t \in tokens, r \in Reports, named \in SUBSET Accounts :
              ~(CreateReport(t, r, named) \/ UpdateReport(t, r, named) \/ DeleteReport(t, r))]_vars
  <2> SUFFICES ASSUME TypeOK, References, status' = 500,
                      NEW t \in tokens, NEW r \in Reports, NEW named \in SUBSET Accounts,
                      CreateReport(t, r, named) \/ UpdateReport(t, r, named) \/ DeleteReport(t, r)
               PROVE  FALSE
    OBVIOUS
  <2>1. ASSUME NEW allowed, RequireRole(t, allowed) # 200, Respond(RequireRole(t, allowed)) PROVE FALSE
    BY <2>1, Refused DEF Answers, Respond
  <2>2. ASSUME NEW us, NEW rs, NEW ss, Commit(us, rs, ss), ReferencesHold(us, rs, ss) PROVE FALSE
    BY <2>2, NamesAssumption DEF Commit
  <2>3. \A u \in named : users[u] \in Roles
    BY DEF Accounts, Account
  <2>4. CASE CreateReport(t, r, named)
    <3>1. RequireRole(t, Creators) = 200
      BY <2>1, <2>4 DEF CreateReport, Request
    <3>2. users[t.uid] \in Roles /\ t.uid # NoReporter
      BY <3>1, NamesAssumption DEF RequireRole, Account, TypeOK, Token
    <3> DEFINE rs == [reports EXCEPT ![r] = t.uid]
               ss == subjects \cup ({r} \X named)
    <3>3. \A x \in Reports : rs[x] = IF x = r THEN t.uid ELSE reports[x]
      BY TablesTyped DEF ReportTables
    <3>4. \A x \in Reports : rs[x] # NoReporter => users[rs[x]] \in Roles
      BY <3>2, <3>3 DEF References, ReferencesHold
    <3>5. \A s \in subjects : s[1] \in Reports /\ reports[s[1]] # NoReporter /\ users[s[2]] \in Roles
      BY TablesTyped DEF SubjectTables, References, ReferencesHold
    <3>6. \A s \in ss : rs[s[1]] # NoReporter /\ users[s[2]] \in Roles
      BY <2>3, <3>2, <3>3, <3>5
    <3>7. ReferencesHold(users, rs, ss)
      BY <3>4, <3>6 DEF ReferencesHold
    <3> HIDE DEF rs, ss
    <3>8. Commit(users, rs, ss)
      BY <2>4, <3>1 DEF CreateReport, Request, rs, ss
    <3> QED BY <3>7, <3>8, <2>2
  <2>5. CASE UpdateReport(t, r, named)
    <3>1. RequireRole(t, Admins) = 200
      BY <2>1, <2>5 DEF UpdateReport, Request
    <3> DEFINE ss == (subjects \ SubjectsOf(r)) \cup ({r} \X named)
    <3>2. Filed(r) /\ Commit(users, reports, ss)
      BY <2>5, <3>1 DEF UpdateReport, Request, Respond
    <3>3. ReferencesHold(users, reports, ss)
      BY <2>3, <3>2 DEF References, ReferencesHold, Filed
    <3> HIDE DEF ss
    <3> QED BY <3>2, <3>3, <2>2
  <2>6. CASE DeleteReport(t, r)
    <3>1. RequireRole(t, Admins) = 200
      BY <2>1, <2>6 DEF DeleteReport, Request
    <3> DEFINE rs == [reports EXCEPT ![r] = NoReporter]
               ss == subjects \ SubjectsOf(r)
    <3>2. Commit(users, rs, ss)
      BY <2>6, <3>1 DEF DeleteReport, Request, Respond
    <3>3. \A x \in Reports : rs[x] = IF x = r THEN NoReporter ELSE reports[x]
      BY TablesTyped DEF ReportTables
    <3>4. \A s \in ss : s[1] \in Reports /\ s[1] # r /\ reports[s[1]] # NoReporter /\ users[s[2]] \in Roles
      BY TablesTyped DEF SubjectTables, SubjectsOf, References, ReferencesHold
    <3>5. ReferencesHold(users, rs, ss)
      BY <3>3, <3>4 DEF References, ReferencesHold
    <3> HIDE DEF rs, ss
    <3> QED BY <3>2, <3>5, <2>2
  <2> QED BY <2>4, <2>5, <2>6
<1> QED BY <1>1, TypeCorrect, ReferencesAlways, PTL DEF Spec, NoForeignKeyErrors

-----------------------------------------------------------------------------
(* Authority *)

\* Nobody holds a token of an account that does not exist yet.
SignedForAccounts == \A t \in tokens : users[t.uid] # "none"

\* Only an administrator's token that names an account changes an account.
LEMMA OnlyAdminsWriteUsers ==
    ASSUME TypeOK, NEW t \in tokens, AccountRequest(t), users' # users
    PROVE  /\ t.role \in Admins /\ Account(t.uid)
           /\ \E u \in Users, value \in Roles \cup {"gone"} : users' = [users EXCEPT ![u] = value]
<1>1. ASSUME NEW allowed, Respond(RequireRole(t, allowed)) PROVE FALSE
  BY <1>1 DEF Respond, tables
<1>2. ASSUME NEW code, Respond(code) PROVE FALSE
  BY <1>2 DEF Respond, tables
<1>3. ASSUME NEW allowed, RequireRole(t, allowed) = 200 PROVE t.role \in allowed /\ Account(t.uid)
  BY <1>3 DEF RequireRole
<1>4. ASSUME NEW us, Commit(us, reports, subjects) PROVE users' = us
  BY <1>4 DEF Commit, tables
<1>5. ASSUME NEW u \in Users, NEW role \in Roles, CreateUser(t, u, role)
      PROVE  t.role \in Admins /\ Account(t.uid) /\ users' = [users EXCEPT ![u] = role]
  <2>1. RequireRole(t, Admins) = 200 /\ Commit([users EXCEPT ![u] = role], reports, subjects)
    BY <1>1, <1>5 DEF CreateUser, Request
  <2> QED BY <2>1, <1>3, <1>4
<1>6. ASSUME NEW u \in Users, NEW role \in Roles \cup {Unset}, UpdateUser(t, u, role)
      PROVE  t.role \in Admins /\ Account(t.uid) /\ role \in Roles /\ users' = [users EXCEPT ![u] = role]
  <2>1. RequireRole(t, Roles) = 200
    BY <1>1, <1>6 DEF UpdateUser, Request
  <2>2. t.role \in Admins /\ role \in Roles /\ Commit([users EXCEPT ![u] = role], reports, subjects)
    BY <1>2, <1>6, <2>1 DEF UpdateUser, Request
  <2> QED BY <2>1, <2>2, <1>3, <1>4
<1>7. ASSUME NEW u \in Users, DeleteUser(t, u)
      PROVE  t.role \in Admins /\ Account(t.uid) /\ users' = [users EXCEPT ![u] = "gone"]
  <2>1. RequireRole(t, Admins) = 200 /\ Commit([users EXCEPT ![u] = "gone"], reports, subjects)
    BY <1>1, <1>2, <1>7 DEF DeleteUser, Request
  <2> QED BY <2>1, <1>3, <1>4
<1> QED BY <1>5, <1>6, <1>7 DEF AccountRequest

LEMMA ReportRequestsLeaveUsers ==
    ASSUME NEW t \in tokens, ReportRequest(t)
    PROVE  UNCHANGED <<users, tokens>>
<1>1. ASSUME NEW rs, NEW ss, Commit(users, rs, ss) PROVE users' = users
  BY <1>1 DEF Commit, tables
<1>2. ASSUME NEW code, Respond(code) PROVE users' = users
  BY <1>2 DEF Respond, tables
<1>3. ASSUME NEW r \in Reports, NEW named \in SUBSET Users, CreateReport(t, r, named) \/ UpdateReport(t, r, named)
      PROVE  UNCHANGED <<users, tokens>>
  BY <1>1, <1>2, <1>3 DEF CreateReport, UpdateReport, Request
<1>4. ASSUME NEW r \in Reports, DeleteReport(t, r) PROVE UNCHANGED <<users, tokens>>
  BY <1>1, <1>2, <1>4 DEF DeleteReport, Request
<1>5. ASSUME NEW r \in Reports, NEW u \in Users, AddSubject(t, r, u) \/ RemoveSubject(t, r, u)
      PROVE  UNCHANGED <<users, tokens>>
  BY <1>1, <1>2, <1>5 DEF AddSubject, RemoveSubject, Request
<1> QED BY <1>3, <1>4, <1>5 DEF ReportRequest

LEMMA AlwaysSignedForAccounts == Spec => []SignedForAccounts
<1>1. Init => SignedForAccounts
  BY DEF Init, SignedForAccounts
<1>2. TypeOK /\ SignedForAccounts /\ [Next]_vars => SignedForAccounts'
  <2> SUFFICES ASSUME TypeOK, SignedForAccounts, [Next]_vars PROVE SignedForAccounts'
    OBVIOUS
  <2>0. \A t \in tokens : t \in Token /\ t.uid \in Users
    BY DEF TypeOK, Token
  <2>1. ASSUME NEW u \in Users, Login(u) PROVE SignedForAccounts'
    BY <2>1 DEF Login, Sign, Respond, tables, Account, Roles, SignedForAccounts
  <2>2. ASSUME NEW u \in Users, GoogleSignUp(u) PROVE SignedForAccounts'
    <3>1. \A x \in Users : users'[x] = IF x = u THEN "viewer" ELSE users[x]
      BY <2>2, TablesTyped DEF GoogleSignUp, UserTables
    <3> QED BY <2>0, <2>2, <3>1 DEF GoogleSignUp, Sign, SignedForAccounts
  <2>3. ASSUME NEW t \in tokens, AccountRequest(t) PROVE SignedForAccounts'
    <3>1. UNCHANGED tokens
      BY <2>3, AccountRequestShape
    <3>2. CASE users' = users
      BY <3>1, <3>2 DEF SignedForAccounts
    <3>3. CASE users' # users
      <4>1. PICK u \in Users, value \in Roles \cup {"gone"} : users' = [users EXCEPT ![u] = value]
        BY <2>3, <3>3, OnlyAdminsWriteUsers
      <4>2. \A x \in Users : users'[x] = IF x = u THEN value ELSE users[x]
        BY <4>1, TablesTyped DEF UserTables
      <4>3. value # "none"
        BY DEF Roles
      <4> QED BY <2>0, <3>1, <4>2, <4>3 DEF SignedForAccounts
    <3> QED BY <3>2, <3>3
  <2>4. ASSUME NEW t \in tokens, ReportRequest(t) PROVE SignedForAccounts'
    BY <2>4, ReportRequestsLeaveUsers DEF SignedForAccounts
  <2>5. ASSUME NEW t \in tokens, Age(t) PROVE SignedForAccounts'
    <3>1. [t EXCEPT !.old = TRUE].uid = t.uid
      BY <2>0 DEF Token
    <3> QED BY <2>5, <3>1 DEF Age, tables, SignedForAccounts
  <2>6. ASSUME NEW t \in tokens, Expire(t) PROVE SignedForAccounts'
    BY <2>6 DEF Expire, tables, SignedForAccounts
  <2>7. CASE Unauthenticated \/ RequestFails
    BY <2>7 DEF Unauthenticated, RequestFails, Respond, tables, SignedForAccounts
  <2>8. CASE Restore
    <3>1. \A x \in Users : users[x] # "none" => users'[x] # "none"
      BY <2>8 DEF Restore
    <3> QED BY <2>0, <2>8, <3>1 DEF Restore, SignedForAccounts
  <2>9. CASE UNCHANGED vars
    BY <2>9 DEF vars, tables, SignedForAccounts
  <2> QED BY <2>1, <2>2, <2>3, <2>4, <2>5, <2>6, <2>7, <2>8, <2>9 DEF Next
<1> QED BY <1>1, <1>2, TypeCorrect, PTL DEF Spec

\* Requests alone never bring an administrator's rights back once no account
\* has them, in its row or in a token.
THEOREM Granted == Spec => AuthorityIsGranted
<1>1. TypeOK /\ SignedForAccounts /\ [Next]_vars => [Unruled /\ restores' = restores => Unruled']_vars
  <2> SUFFICES ASSUME TypeOK, SignedForAccounts, Next, Unruled, restores' = restores PROVE Unruled'
    BY DEF vars
  <2>0. \A t \in tokens : t \in Token /\ t.uid \in Users
    BY DEF TypeOK, Token
  <2>1. \A u \in Users : users[u] \notin Admins
    BY RoleSets DEF Unruled, Accounts, Account
  <2>2. \A t \in tokens : Account(t.uid) => t.role \notin Admins
    BY <2>0 DEF Unruled, Accounts
  <2>3. SUFFICES /\ \A u \in Users : users'[u] \notin Admins
                 /\ \A t \in tokens' : users'[t.uid] \in Roles => t.role \notin Admins
    BY DEF Unruled, Accounts, Account
  <2>4. CASE UNCHANGED <<users, tokens>>
    BY <2>1, <2>2, <2>4 DEF Account
  <2>5. ASSUME NEW u \in Users, Login(u)
        PROVE  /\ \A x \in Users : users'[x] \notin Admins
               /\ \A t \in tokens' : users'[t.uid] \in Roles => t.role \notin Admins
    BY <2>1, <2>2, <2>5 DEF Login, Sign, Respond, tables, Account
  <2>6. ASSUME NEW u \in Users, GoogleSignUp(u)
        PROVE  /\ \A x \in Users : users'[x] \notin Admins
               /\ \A t \in tokens' : users'[t.uid] \in Roles => t.role \notin Admins
    <3>1. \A x \in Users : users'[x] = IF x = u THEN "viewer" ELSE users[x]
      BY <2>6, TablesTyped DEF GoogleSignUp, UserTables
    <3>2. "viewer" \notin Admins
      BY DEF Admins
    <3>3. \A t \in tokens : t.uid # u
      BY <2>6 DEF GoogleSignUp, SignedForAccounts
    <3> QED BY <2>0, <2>1, <2>2, <2>6, <3>1, <3>2, <3>3 DEF GoogleSignUp, Sign, Account
  <2>7. ASSUME NEW t \in tokens, AccountRequest(t) PROVE UNCHANGED <<users, tokens>>
    <3>1. UNCHANGED tokens
      BY <2>7, AccountRequestShape
    <3>2. users' = users
      BY <2>2, <2>7, OnlyAdminsWriteUsers
    <3> QED BY <3>1, <3>2
  <2>8. ASSUME NEW t \in tokens, Age(t)
        PROVE  /\ \A x \in Users : users'[x] \notin Admins
               /\ \A x \in tokens' : users'[x.uid] \in Roles => x.role \notin Admins
    <3>1. [t EXCEPT !.old = TRUE].uid = t.uid /\ [t EXCEPT !.old = TRUE].role = t.role
      BY <2>0 DEF Token
    <3> QED BY <2>1, <2>2, <2>8, <3>1 DEF Age, tables, Account
  <2>9. ASSUME NEW t \in tokens, Expire(t)
        PROVE  /\ \A x \in Users : users'[x] \notin Admins
               /\ \A x \in tokens' : users'[x.uid] \in Roles => x.role \notin Admins
    BY <2>1, <2>2, <2>9 DEF Expire, tables, Account
  <2>10. CASE Unauthenticated \/ RequestFails
    BY <2>4, <2>10 DEF Unauthenticated, RequestFails, Respond, tables
  <2>11. ~Restore
    BY DEF Restore, TypeOK
  <2> QED BY <2>4, <2>5, <2>6, <2>7, <2>8, <2>9, <2>10, <2>11, ReportRequestsLeaveUsers DEF Next
<1> QED BY <1>1, TypeCorrect, AlwaysSignedForAccounts, PTL DEF Spec, AuthorityIsGranted
=============================================================================
