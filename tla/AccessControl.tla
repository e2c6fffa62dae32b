----------------------------- MODULE AccessControl -----------------------------
(***************************************************************************)
(* Operators of the platform: login, the users endpoints and the incident  *)
(* endpoints of src/denoiser/api/main.py, auth.py, abac.py, sso.py, the    *)
(* audit middleware of audit.py and the nightly removal of old records.    *)
(*                                                                         *)
(* A request authenticates, does its work in the session, and is audited   *)
(* after its answer; other requests come in between.  A token names an     *)
(* e-mail address.  Passwords and environments of users are left out.      *)
(* A definition X_Y is X with a plausible mistake Y; nothing uses it.      *)
(***************************************************************************)
EXTENDS Naturals, FiniteSets, FiniteSetsExt

CONSTANTS
    Emails, Admin, SystemAudit, Sso,   \* addresses; those of init_db and of the IdP
    Requests,
    IncidentRows,                      \* incidents [tenant, env, pii] there may be
    MaxAccounts, MaxServed             \* bounds: accounts ever made, requests made

ASSUME AccessAssumption ==
    /\ {Admin, SystemAudit, Sso} \subseteq Emails /\ IsFiniteSet(Emails)
    /\ Admin # SystemAudit /\ Sso \notin {Admin, SystemAudit}

VARIABLES
    account,    \* account[e]: [id, birth, role, active, tenant, dept], id = 0 if there is none
    database,   \* "sqlite", which gives an id that was the highest again, or "postgres"
    lastId,     \* of postgres' sequence
    tokens,     \* addresses whose holders have a token that is not expired
    request,    \* request[r]: [phase, actor, user, op, target]; user as it was loaded
    incident,   \* [tenant, env, pii, status]
    audit,      \* audit records [id, by]; by is history: the address of who acted
    births,     \* history: accounts ever made
    served,     \* history: requests made
    crossed     \* history: a request's actor was removed while it was served
accessVars == <<account, database, lastId, tokens, request, incident, audit, births, served, crossed>>

None_ == [id |-> 0, birth |-> 0, role |-> "VIEWER", active |-> FALSE, tenant |-> 0, dept |-> "none"]
Idle_ == [phase |-> "idle", actor |-> Admin, user |-> None_, op |-> "none", target |-> Admin]
Present(e) == account[e].id # 0
Live == {e \in Emails : Present(e)}

\* sqlite reuses the highest id once its row is deleted.
NewId ==
    IF database = "postgres" THEN lastId + 1
    ELSE Max({0} \cup {account[e].id : e \in Emails}) + 1
Make(e, role, tenant, dept) ==
    /\ account' = [account EXCEPT ![e] =
         [id |-> NewId, birth |-> births + 1, role |-> role, active |-> TRUE,
          tenant |-> tenant, dept |-> dept]]
    /\ lastId' = NewId /\ births' = births + 1
-----------------------------------------------------------------------------
Evaluate(u, op, row) ==
    /\ row.tenant \in {0, u.tenant}
    /\ u.role # "ADMIN" =>
         /\ u.dept = "Operations" \/ row.env = "dev"
         /\ op \in {"resolve", "delete incident"} => u.dept \in {"Operations", "Security"}
         /\ ~ (op = "read" /\ row.pii /\ u.role = "VIEWER")

UserOps == {"create", "delete", "deactivate"}
IncidentOps == {"read", "resolve", "delete incident"}
\* get_current_user, then the role or the policy the endpoint asks for.
Allowed(u, op) == IF op \in UserOps THEN u.role = "ADMIN" ELSE Evaluate(u, op, incident)

Administrator_(n, tenant, dept) ==
    [id |-> n, birth |-> n, role |-> "ADMIN", active |-> TRUE, tenant |-> tenant, dept |-> dept]
\* An administrator may have made a second one before.
AccessInit ==
    /\ database \in {"sqlite", "postgres"}
    /\ \E second \in SUBSET (Emails \ {Admin, SystemAudit, Sso}) :
         /\ Cardinality(second) <= 1
         /\ account = [e \in Emails |->
              IF e = Admin THEN Administrator_(1, 1, "Operations")
              ELSE IF e = SystemAudit THEN Administrator_(2, 1, "Security")
              ELSE IF e \in second THEN Administrator_(3, 0, "Engineering")
              ELSE None_]
         /\ lastId = 2 + Cardinality(second) /\ births = lastId
    /\ tokens = {} /\ audit = {} /\ served = 0 /\ crossed = FALSE
    /\ request = [r \in Requests |-> Idle_]
    /\ \E row \in IncidentRows :
         incident = [tenant |-> row.tenant, env |-> row.env, pii |-> row.pii, status |-> "OPEN"]

\* Nobody knows the password of the audit user, or of one the IdP has provisioned.
Login(e) ==
    /\ e \notin {SystemAudit, Sso} /\ Present(e) /\ account[e].active
    /\ tokens' = tokens \cup {e}
    /\ UNCHANGED <<account, database, lastId, request, incident, audit, births, served, crossed>>
\* The callback provisions the user it does not find, and refuses one that is deactivated.
SsoCallback ==
    /\ IF Present(Sso) THEN UNCHANGED <<account, lastId, births>>
       ELSE births < MaxAccounts /\ Make(Sso, "ANALYST", 1, "Operations")
    /\ tokens' = IF account'[Sso].active THEN tokens \cup {Sso} ELSE tokens
    /\ UNCHANGED <<database, request, incident, audit, served, crossed>>
\* An expiry is looked at only while a request of the address is served.
Expire(e) ==
    /\ e \in tokens /\ \E r \in Requests : request[r].phase # "idle" /\ request[r].actor = e
    /\ tokens' = tokens \ {e}
    /\ UNCHANGED <<account, database, lastId, request, incident, audit, births, served, crossed>>

Authorise(r, e, op, target) ==
    /\ request[r].phase = "idle" /\ served < MaxServed
    /\ e \in tokens /\ Present(e) /\ account[e].active /\ Allowed(account[e], op)
    /\ request' = [request EXCEPT ![r] =
         [phase |-> "authorised", actor |-> e, user |-> account[e], op |-> op, target |-> target]]
    /\ served' = served + 1
    /\ UNCHANGED <<account, database, lastId, tokens, incident, audit, births, crossed>>

\* The work; what it does not find or may not do is an answer too.  crossed only watches.
Answer(r) ==
    /\ request' = [request EXCEPT ![r].phase = "answered"]
    /\ crossed' = (crossed \/ LET u == account[request[r].actor] IN
                              u.birth # request[r].user.birth \/ ~u.active)
    /\ UNCHANGED <<database, tokens, audit, served>>
Doing(r, op) == request[r].phase = "authorised" /\ request[r].op = op
CreateUser(r, role) ==
    /\ Doing(r, "create")
    /\ IF ~Present(request[r].target) /\ births < MaxAccounts
       THEN Make(request[r].target, role, 0, "Engineering")
       ELSE UNCHANGED <<account, lastId, births>>
    /\ Answer(r) /\ UNCHANGED incident
Removable_Anyone(r) == Present(request[r].target)
Removable(r) == Present(request[r].target) /\ request[r].target # request[r].actor
DeleteUser(r) ==
    /\ Doing(r, "delete")
    /\ account' = IF Removable(r) THEN [account EXCEPT ![request[r].target] = None_] ELSE account
    /\ Answer(r) /\ UNCHANGED <<lastId, births, incident>>
DeactivateUser(r) ==
    /\ Doing(r, "deactivate")
    /\ account' = IF Removable(r) /\ request[r].target # SystemAudit
                  THEN [account EXCEPT ![request[r].target].active = FALSE] ELSE account
    /\ Answer(r) /\ UNCHANGED <<lastId, births, incident>>
Mine(r) == incident.status # "gone" /\ incident.tenant = request[r].user.tenant
ReadIncident(r) ==
    /\ Doing(r, "read") /\ Answer(r) /\ UNCHANGED <<account, lastId, births, incident>>
ResolveIncident_(r, resolved) ==
    /\ Doing(r, "resolve")
    /\ incident' = IF Mine(r) THEN [incident EXCEPT !.status = IF resolved THEN "RESOLVED" ELSE "OPEN"]
                   ELSE incident
    /\ Answer(r) /\ UNCHANGED <<account, lastId, births>>
DeleteIncident_(r) ==
    /\ Doing(r, "delete incident")
    /\ incident' = IF Mine(r) THEN [incident EXCEPT !.status = "gone"] ELSE incident
    /\ Answer(r) /\ UNCHANGED <<account, lastId, births>>

\* The middleware looks the token's address up again after the answer; without one it is
\* the audit user's.  A record that cannot be written is left out; reads have none.
Actor(r) ==
    LET e == request[r].actor IN
    IF e \in tokens /\ Present(e) THEN account[e].id ELSE account[SystemAudit].id
Audited(r, written) ==
    /\ request[r].phase = "answered"
    /\ audit' = IF written /\ request[r].op # "read"
                THEN audit \cup {[id |-> Actor(r), by |-> request[r].actor]} ELSE audit
    /\ request' = [request EXCEPT ![r] = Idle_]
    /\ UNCHANGED <<account, database, lastId, tokens, incident, births, served, crossed>>
\* cleanup_database_records: what is older than the retention is deleted.
CleanUpRecords(old) ==
    /\ old \subseteq audit /\ old # {} /\ audit' = audit \ old
    /\ UNCHANGED <<account, database, lastId, tokens, request, incident, births, served, crossed>>

AccessNext ==
    \/ SsoCallback \/ \E e \in Emails : Login(e) \/ Expire(e)
    \/ \E r \in Requests, e \in Emails :
         \/ \E op \in UserOps, target \in Emails : Authorise(r, e, op, target)
         \/ \E op \in IncidentOps : Authorise(r, e, op, e)
    \/ \E r \in Requests :
         \/ \E role \in {"ADMIN", "VIEWER"} : CreateUser(r, role)
         \/ DeleteUser(r) \/ DeactivateUser(r) \/ ReadIncident(r) \/ DeleteIncident_(r)
         \/ \E resolved \in BOOLEAN : ResolveIncident_(r, resolved)
         \/ \E written \in BOOLEAN : Audited(r, written)
    \/ CleanUpRecords(audit)
AccessSpec == AccessInit /\ [][AccessNext]_accessVars
-----------------------------------------------------------------------------
\* An operator who can log in and administer is left, since nobody removes itself: unless
\* a request was served whose actor another one was removing.
AdminIsLeft ==
    ~crossed => \E e \in Emails \ {SystemAudit} :
                    Present(e) /\ account[e].role = "ADMIN" /\ account[e].active

\* On postgres a record names the account of the address that acted, or the audit user, or
\* nobody, ever after: never somebody who came later.  (sqlite gives the id of a deleted
\* operator to the next one, and the records with it.)
AttributedToActor ==
    database = "postgres" =>
        \A a \in audit, e \in Live \ {SystemAudit} :
            account[e].id = a.id => e = a.by

\* Who administers, and who has acted, can be told at any time: the two together.
OperatorsAreKnown == AdminIsLeft /\ AttributedToActor
=============================================================================
