------------------------------ MODULE IncidentDesk ------------------------------
(***************************************************************************)
(* Accounts, bearer tokens and incident reports of the API                 *)
(* (src/app/controllers, src/app/routes, src/app/security).  A token is a   *)
(* copy of an account's uid and role signed at sign-in; it outlives a       *)
(* change of that role, the account and even the database it was read      *)
(* from.  Every handler here runs from the check of its token to its       *)
(* commit without suspending the event loop: a request is one step.        *)
(***************************************************************************)
EXTENDS Naturals, FiniteSets

CONSTANTS
    Users,          \* uids a row of users may have; a uid is never used twice
    Reports,        \* uids a row of incident_reports may have
    Root,           \* the administrator every copy of the database holds
    NoReporter,
    Unset,          \* the role of a body that leaves it out
    Late,           \* a status 500 that is sent although the commit went through
    MaxTokens,      \* bound: unexpired tokens with different contents
    MaxRestores     \* bound: times the database is put back

\* SUPER_ADMIN has no right on these routes that ADMIN has not.
Roles == {"viewer", "creator", "admin"}
Admins == {"admin"}
Creators == {"creator", "admin"}

ASSUME RootAssumption == Root \in Users
ASSUME NamesAssumption == NoReporter \notin Users /\ Unset \notin Roles /\ Late \notin {0, 200, 401, 403, 404, 500}
ASSUME BoundsAssumption == MaxTokens \in Nat /\ MaxRestores \in Nat

VARIABLES
    users,      \* table users: role, "none" before the row exists, "gone" after
    reports,    \* table incident_reports: reported_by_user_id
    subjects,   \* table incident_report_subjects: <<report, user>>
    tokens,     \* tokens signed and not expired; an old one is about to
    status,     \* status code of the last response, 0 if the last step sent none
    restores

tables == <<users, reports, subjects>>
vars == <<tables, tokens, status, restores>>

Token == [uid : Users, role : Roles, old : BOOLEAN]

TypeOK ==
    /\ users \in [Users -> Roles \cup {"none", "gone"}]
    /\ reports \in [Reports -> Users \cup {NoReporter}]
    /\ subjects \subseteq Reports \X Users
    /\ tokens \subseteq Token
    /\ status \in {0, 200, 401, 403, 404, 500, Late}
    /\ restores \in Nat

-----------------------------------------------------------------------------
(* The database: three foreign keys, checked when a transaction commits *)

Account(u) == users[u] \in Roles
Accounts == {u \in Users : Account(u)}
Filed(r) == reports[r] # NoReporter
SubjectsOf(r) == subjects \cap ({r} \X Users)

ReferencesHold(us, rs, ss) ==
    /\ \A r \in Reports : rs[r] # NoReporter => us[rs[r]] \in Roles
    /\ \A s \in ss : rs[s[1]] # NoReporter /\ us[s[2]] \in Roles

\* The new tables become the old ones, or the transaction rolls back and the
\* exception is answered with 500.  So is one that comes after the commit, from a
\* lost answer or from the refresh of the row.
Commit(us, rs, ss) ==
    IF ReferencesHold(us, rs, ss)
    THEN users' = us /\ reports' = rs /\ subjects' = ss /\ status' \in {200, Late}
    ELSE UNCHANGED tables /\ status' = 500

Respond(code) == status' = code /\ UNCHANGED tables

-----------------------------------------------------------------------------
(* Dependencies of the routes *)

\* Seeded fault: the row behind the token is not looked up.
RequireRoleOnly(t, allowed) == IF t.role \in allowed THEN 200 ELSE 403

\* _require_role: the role is the token's, the account is the database's.
RequireRole(t, allowed) ==
    IF t.role \notin allowed THEN 403
    ELSE IF ~Account(t.uid) THEN 401
    ELSE 200

Request(t, allowed, Handler) ==
    /\ t \in tokens
    /\ LET verdict == RequireRole(t, allowed)
       IN  IF verdict = 200 THEN Handler ELSE Respond(verdict)
    /\ UNCHANGED <<tokens, restores>>

\* No credentials, or a token that is malformed or expired.
Unauthenticated == (Respond(403) \/ Respond(401)) /\ UNCHANGED <<tokens, restores>>

\* The database refuses or drops any request's transaction.
RequestFails == Respond(500) /\ UNCHANGED <<tokens, restores>>

-----------------------------------------------------------------------------
(* Signing in *)

Sign(u, role) ==
    /\ tokens' = tokens \cup {[uid |-> u, role |-> role, old |-> FALSE]}
    /\ Cardinality(tokens') <= MaxTokens
    /\ UNCHANGED restores

\* Seeded fault: a sign-in renews a token of the account instead of reading the row.
LoginRenews(u) ==
    /\ Account(u)
    /\ Respond(200)
    /\ \E role \in {users[u]} \cup {t.role : t \in {x \in tokens : x.uid = u}} : Sign(u, role)

\* Password or Google sign-in to an account that exists.
Login(u) == Account(u) /\ Respond(200) /\ Sign(u, users[u])

\* The Google callback for an address without an account: a row that names no
\* other is always accepted, but may not be read back, and no token signed.
GoogleSignUp(u) ==
    /\ users[u] = "none"
    /\ users' = [users EXCEPT ![u] = "viewer"]
    /\ UNCHANGED <<reports, subjects>>
    /\ \/ status' = 200 /\ Sign(u, "viewer")
       \/ status' = Late /\ UNCHANGED <<tokens, restores>>

-----------------------------------------------------------------------------
(* Accounts *)

CreateUser(t, u, role) ==
    /\ users[u] = "none"
    /\ Request(t, Admins, Commit([users EXCEPT ![u] = role], reports, subjects))

\* Seeded fault: the role field is only guarded against strangers.
UpdateUserOwnRole(t, u, role) ==
    Request(t, Roles,
        IF t.role \notin Admins /\ t.uid # u THEN Respond(403)
        ELSE IF ~Account(u) THEN Respond(404)
        ELSE IF role = Unset THEN Respond(200)
        ELSE Commit([users EXCEPT ![u] = role], reports, subjects))

\* Seeded fault: fields the body leaves out are written too.
UpdateUserAllFields(t, u, role) ==
    Request(t, Roles,
        IF t.role \notin Admins /\ t.uid # u THEN Respond(403)
        ELSE IF ~Account(u) THEN Respond(404)
        ELSE IF role # Unset /\ t.role \notin Admins THEN Respond(403)
        ELSE Commit([users EXCEPT ![u] = role], reports, subjects))

\* verify_self_or_admin lets every account through; update_user does the rest.
UpdateUser(t, u, role) ==
    Request(t, Roles,
        IF t.role \notin Admins /\ t.uid # u THEN Respond(403)
        ELSE IF ~Account(u) THEN Respond(404)
        ELSE IF role = Unset THEN Respond(200)
        ELSE IF t.role \notin Admins THEN Respond(403)
        ELSE Commit([users EXCEPT ![u] = role], reports, subjects))

DeleteUser(t, u) ==
    Request(t, Admins,
        IF Account(u) THEN Commit([users EXCEPT ![u] = "gone"], reports, subjects) ELSE Respond(404))

-----------------------------------------------------------------------------
(* Incident reports and their subjects *)

\* Seeded fault: the report is committed before its subjects are added.
CreateReportFirst(t, r, named) ==
    /\ ~Filed(r)
    /\ Request(t, Creators,
         LET rows == [reports EXCEPT ![r] = t.uid]
             named2 == subjects \cup ({r} \X named)
         IN  IF ReferencesHold(users, rows, named2) THEN Commit(users, rows, named2)
             ELSE reports' = rows /\ status' = 500 /\ UNCHANGED <<users, subjects>>)

\* The report is flushed, its subjects are added, and one commit takes both.
CreateReport(t, r, named) ==
    /\ ~Filed(r)
    /\ Request(t, Creators,
         Commit(users, [reports EXCEPT ![r] = t.uid], subjects \cup ({r} \X named)))

\* A body's subjects replace the report's.  One without subjects leaves them,
\* which is what replacing them by themselves comes to.
UpdateReport(t, r, named) ==
    Request(t, Admins,
        IF ~Filed(r) THEN Respond(404)
        ELSE Commit(users, reports, (subjects \ SubjectsOf(r)) \cup ({r} \X named)))

\* The foreign key from subjects to reports is ON DELETE CASCADE.
DeleteReport(t, r) ==
    Request(t, Admins,
        IF Filed(r) THEN Commit(users, [reports EXCEPT ![r] = NoReporter], subjects \ SubjectsOf(r))
        ELSE Respond(404))

AddSubject(t, r, u) ==
    Request(t, Admins,
        IF Filed(r) THEN Commit(users, reports, subjects \cup {<<r, u>>}) ELSE Respond(404))

\* A report may name an account twice, in two roles: one removal then leaves the pair.
RemoveSubject(t, r, u) ==
    Request(t, Admins,
        IF <<r, u>> \notin subjects THEN Respond(404)
        ELSE \E left \in {subjects, subjects \ {<<r, u>>}} : Commit(users, reports, left))

-----------------------------------------------------------------------------
(* Time and the operators of the database *)

\* Most of the JWT_EXPIRES_MINUTES have passed since the token was signed.
Age(t) ==
    /\ ~t.old
    /\ tokens' = (tokens \ {t}) \cup {[t EXCEPT !.old = TRUE]}
    /\ status' = 0
    /\ UNCHANGED <<tables, restores>>

Expire(t) ==
    /\ t.old
    /\ tokens' = tokens \ {t}
    /\ status' = 0
    /\ UNCHANGED <<tables, restores>>

\* The database is reseeded or a backup is restored under a running API.
Restore ==
    /\ restores < MaxRestores
    /\ restores' = restores + 1
    /\ users' = [u \in Users |-> IF u = Root THEN "admin" ELSE IF users[u] = "none" THEN "none" ELSE "gone"]
    /\ reports' = [r \in Reports |-> NoReporter]
    /\ subjects' = {}
    /\ status' = 0
    /\ UNCHANGED tokens

Init ==
    /\ users = [u \in Users |-> IF u = Root THEN "admin" ELSE "none"]
    /\ reports = [r \in Reports |-> NoReporter]
    /\ subjects = {} /\ tokens = {} /\ status = 0 /\ restores = 0

AccountRequest(t) ==
    \/ \E u \in Users, role \in Roles : CreateUser(t, u, role)
    \/ \E u \in Users, role \in Roles \cup {Unset} : UpdateUser(t, u, role)
    \/ \E u \in Users : DeleteUser(t, u)

ReportRequest(t) ==
    \/ \E r \in Reports, named \in SUBSET Users : CreateReport(t, r, named) \/ UpdateReport(t, r, named)
    \/ \E r \in Reports : DeleteReport(t, r)
    \/ \E r \in Reports, u \in Users : AddSubject(t, r, u) \/ RemoveSubject(t, r, u)

Next ==
    \/ \E u \in Users : Login(u) \/ GoogleSignUp(u)
    \/ \E t \in tokens : AccountRequest(t) \/ ReportRequest(t) \/ Age(t) \/ Expire(t)
    \/ Unauthenticated
    \/ RequestFails
    \/ Restore

Spec == Init /\ [][Next]_vars

\* A token expires JWT_EXPIRES_MINUTES after it was signed.  Equal tokens are
\* one element of tokens, so this is claimed of those only that no sign-in can
\* be adding again: their role is no longer their account's.
Outdated(t) == t \in tokens /\ users[t.uid] # t.role
FairSpec == Spec /\ \A t \in Token : WF_vars(Outdated(t) /\ (Age(t) \/ Expire(t)))

-----------------------------------------------------------------------------
(* Properties *)

\* "Guards against stale tokens (deleted users, reseeded local DBs, restored
\* backups) reaching downstream code where they would cause FK-violation 500s"
\* (authorization.py:18-20), and the cascade does the same for deletions: a
\* report whose subjects all exist is written or removed without a 500.
NoForeignKeyErrors ==
    [][status' = 500 =>
         \A t \in tokens, r \in Reports, named \in SUBSET Accounts :
            ~(CreateReport(t, r, named) \/ UpdateReport(t, r, named) \/ DeleteReport(t, r))]_vars

\* A request that is refused, or fails before its commit is through, leaves every
\* table as it was, a report with some of its subjects missing included.
RefusalsChangeNothing == [][status' \in {401, 403, 404, 500} => UNCHANGED tables]_vars

\* Once no account and no token of an account has an administrator's rights, no
\* sequence of requests brings them back; only another copy of the database does.
Unruled == \A u \in Accounts : users[u] \notin Admins /\ ~\E t \in tokens : t.uid = u /\ t.role \in Admins
AuthorityIsGranted == [][Unruled /\ restores' = restores => Unruled']_vars

\* The rights a token carries beyond its account's end with it: an account that
\* stays without an administrator's role is in the end left with no such token.
DemotionTakesHold ==
    \A u \in Users :
        <>[](users[u] \notin Admins) => <>[](~\E t \in tokens : t.uid = u /\ t.role \in Admins)
=============================================================================
