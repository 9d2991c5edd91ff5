------------------------------- MODULE Accounts -------------------------------
(***************************************************************************)
(* Who may act for a tenant.  services/auth-service signs users in and     *)
(* answers whether a session or an API key is good; services/admin-service *)
(* issues and revokes ingestion tokens, manages members and purges         *)
(* tenants.  Both write the same PostgreSQL tables.                        *)
(*                                                                         *)
(* A request is authenticated first and runs its handler later with the    *)
(* TenantContext it was given, so every statement of a handler may meet    *)
(* tables that have changed since.  One SQL statement, or one transaction, *)
(* is one step.  No foreign key joins the auth tables to tenants           *)
(* (migration 041).  Audit rows and environments are left out.             *)
(***************************************************************************)
EXTENDS Tenancy, Naturals, FiniteSets

CONSTANTS
    Roles,        \* roles in user_tenant_roles, tenant_admin among them
    KeyIds,       \* ids of api_keys rows
    Requests,     \* requests that admin-service serves at a time
    Configs,      \* retention and quota settings of a tenant
    NoRole,
    BadTenant,    \* an X-Tenant-ID header that is no UUID
    Founder,      \* the first administrator, of tenant Home, signed in
    Home,
    SeededKey,    \* the key that the migrations create for Home
    MaxLogins,    \* bound: sign-ins that are started
    MaxSecrets,   \* bound: API keys that are generated
    MaxOps        \* bound: authenticated requests

ASSUME AccountsAssumption ==
    /\ Admin \in Roles /\ "member" \in Roles
    /\ NoRole \notin Roles
    /\ BadTenant \notin Tenants \union {NoTenant}
    /\ Founder \in Users /\ Home \in Tenants /\ SeededKey \in KeyIds /\ Configs # {}
    /\ MaxLogins \in Nat \ {0} /\ MaxSecrets \in Nat \ {0} /\ MaxOps \in Nat

VARIABLES
    tenants,    \* tenants: the rows that exist
    config,     \* retention_days and ingest_quota_per_sec of each tenant
    users,      \* users: those who have signed in once
    roles,      \* user_tenant_roles
    sessions,   \* user_sessions, each with the claims of the JWT made for it
    keys,       \* api_keys
    secrets,    \* API keys generated so far
    telemetry,  \* tenants with rows in ClickHouse
    devMode,    \* OBSERVABLE_ENV = dev
    logins,     \* sign-ins started so far
    cookie,     \* the oauth_state cookie of each user's browser, 0 if none
    authorized, \* sign-ins that the identity provider sends back
    signin,     \* the membership a callback has chosen, before its session exists
    req,        \* requests being served
    ops,
    held,       \* history: memberships that have existed
    retired     \* history: API keys that were rotated, deleted or purged

accVars == <<tenants, config, users, roles, sessions, keys, secrets, telemetry, devMode,
             logins, cookie, authorized, signin, req, ops, held, retired>>

SessionIds == 1..MaxLogins
NoSession  == [state |-> "none", user |-> NoUser, tenant |-> NoTenant, role |-> NoRole]
NoKey      == [state |-> "none", tenant |-> NoTenant, secret |-> 0, role |-> NoRole]
NoSignin   == [user |-> NoUser, tenant |-> NoTenant, role |-> NoRole]
Idle       == [pc |-> "idle", user |-> NoUser, tenant |-> NoTenant, role |-> NoRole,
               target |-> NoUser, targetRole |-> NoRole, admins |-> 0]

AccInit ==
    /\ tenants = Tenants
    /\ config \in [Tenants -> Configs] /\ \A s, t \in Tenants : config[s] = config[t]
    /\ users = {Founder}
    /\ roles = [m \in Users \X Tenants |-> IF m = <<Founder, Home>> THEN Admin ELSE NoRole]
    /\ sessions = [s \in SessionIds |-> IF s = 1
                                       THEN [state |-> "active", user |-> Founder,
                                             tenant |-> Home, role |-> Admin]
                                       ELSE NoSession]
    /\ keys = [k \in KeyIds |-> IF k = SeededKey
                               THEN [state |-> "live", tenant |-> Home, secret |-> 1,
                                     role |-> "member"]
                               ELSE NoKey]
    /\ secrets = 1 /\ telemetry = {}
    /\ devMode \in BOOLEAN
    /\ logins = 1 /\ cookie = [u \in Users |-> 0]
    /\ authorized = {} /\ signin = [s \in SessionIds |-> NoSignin]
    /\ req = [r \in Requests |-> Idle] /\ ops = 0
    /\ held = {<<Founder, Home, Admin>>} /\ retired = {}

Memberships(rs) == {<<m[1], m[2], rs[m]>> : m \in {p \in Users \X Tenants : rs[p] # NoRole}}

(* A change of user_tenant_roles, with the memberships it makes remembered. *)
SetRoles(rs) ==
    /\ roles' = rs
    /\ held' = held \union Memberships(rs)

(***************************************************************************)
(* Signing in.  A sign-in that fails clears both cookies and goes back to  *)
(* the login page.                                                         *)
(***************************************************************************)
login_handler(u) ==
    /\ logins < MaxLogins
    /\ logins' = logins + 1
    /\ cookie' = [cookie EXCEPT ![u] = logins']
    /\ authorized' = authorized \union {<<u, logins'>>}
    /\ UNCHANGED <<tenants, config, users, roles, sessions, keys, secrets, telemetry,
                   devMode, signin, req, ops, held, retired>>

login_error_redirect(u, n) ==
    /\ cookie' = [cookie EXCEPT ![u] = 0]
    /\ authorized' = authorized \ {<<u, n>>}
    /\ UNCHANGED <<tenants, config, roles, sessions, keys, secrets, telemetry, devMode,
                   logins, signin, req, ops, held, retired>>

upsert_user(u) == users' = users \union {u}

(* The state parameter is not the cookie's, or a call fails: to the identity provider
   before the user row is written, or to the database after. *)
CallbackRejected(u, n) ==
    /\ <<u, n>> \in authorized
    /\ login_error_redirect(u, n)
    /\ \/ UNCHANGED users
       \/ cookie[u] = n /\ upsert_user(u)

(* list_user_tenants, in no order: the first row is any membership. *)
list_user_tenants(rs, u) == {t \in Tenants : rs[<<u, t>>] # NoRole}

(* upsert_user; a user without a tenant becomes administrator of every seeded tenant in
   dev mode. *)
SeededRoles(u) ==
    IF devMode /\ list_user_tenants(roles, u) = {}
    THEN [m \in Users \X Tenants |-> IF m[1] = u THEN Admin ELSE roles[m]]
    ELSE roles

CallbackNoAccess(u, n) ==
    /\ <<u, n>> \in authorized /\ cookie[u] = n
    /\ list_user_tenants(SeededRoles(u), u) = {}
    /\ upsert_user(u)
    /\ login_error_redirect(u, n)

CallbackChooses(u, n, t) ==
    /\ <<u, n>> \in authorized /\ cookie[u] = n
    /\ t \in list_user_tenants(SeededRoles(u), u)
    /\ upsert_user(u)
    /\ SetRoles(SeededRoles(u))
    /\ signin' = [signin EXCEPT ![n] = [user |-> u, tenant |-> t, role |-> roles'[<<u, t>>]]]
    /\ authorized' = authorized \ {<<u, n>>}
    /\ UNCHANGED <<tenants, config, sessions, keys, secrets, telemetry, devMode, logins,
                   cookie, req, ops, retired>>

(* The claims: the role is the one that was read before. *)
sign_session_jwt(chosen) ==
    [state |-> "active", user |-> chosen.user, tenant |-> chosen.tenant, role |-> chosen.role]

(* The row, kept together with the claims of the JWT that is made for it. *)
create_session(n, chosen) == sessions' = [sessions EXCEPT ![n] = sign_session_jwt(chosen)]

CallbackSigns(n) ==
    /\ signin[n] # NoSignin
    /\ create_session(n, signin[n])
    /\ cookie' = [cookie EXCEPT ![signin[n].user] = 0]
    /\ signin' = [signin EXCEPT ![n] = NoSignin]
    /\ UNCHANGED <<tenants, config, users, roles, keys, secrets, telemetry, devMode,
                   logins, authorized, req, ops, held, retired>>

(* The session row could not be written. *)
CallbackFails(n) ==
    /\ signin[n] # NoSignin
    /\ cookie' = [cookie EXCEPT ![signin[n].user] = 0]
    /\ signin' = [signin EXCEPT ![n] = NoSignin]
    /\ UNCHANGED <<tenants, config, users, roles, sessions, keys, secrets, telemetry,
                   devMode, logins, authorized, req, ops, held, retired>>

Revoke(ss, u, t) ==
    [s \in SessionIds |-> IF ss[s].user = u /\ ss[s].tenant = t /\ ss[s].state = "active"
                          THEN [ss[s] EXCEPT !.state = "revoked"] ELSE ss[s]]

(* Mutant: a sliding expiry that writes the row back as active. *)
SessionExpires_MutSliding(s) ==
    /\ sessions[s].state \in {"active", "revoked"}
    /\ sessions' = [sessions EXCEPT ![s].state = "active"]
    /\ UNCHANGED <<tenants, config, users, roles, keys, secrets, telemetry, devMode,
                   logins, cookie, authorized, signin, req, ops, held, retired>>

(* Any JWT that has not expired logs its user out of the tenant, everywhere. *)
logout_handler(s) ==
    /\ sessions[s].state \in {"active", "revoked", "gone"}
    /\ sessions' = Revoke(sessions, sessions[s].user, sessions[s].tenant)
    /\ UNCHANGED <<tenants, config, users, roles, keys, secrets, telemetry, devMode,
                   logins, cookie, authorized, signin, req, ops, held, retired>>

(* Seven days pass: expires_at of the row, exp of the JWT. *)
SessionExpires(s) ==
    /\ sessions[s].state = "active"
    /\ sessions' = [sessions EXCEPT ![s].state = "expired"]
    /\ UNCHANGED <<tenants, config, users, roles, keys, secrets, telemetry, devMode,
                   logins, cookie, authorized, signin, req, ops, held, retired>>

(* dev_bootstrap at the start of auth-service: never overwrites a role. *)
seed_dev_admin_role ==
    /\ devMode /\ Founder \in users
    /\ SetRoles([m \in Users \X Tenants |->
                   IF m[1] = Founder /\ roles[m] = NoRole THEN Admin ELSE roles[m]])
    /\ UNCHANGED <<tenants, config, users, sessions, keys, secrets, telemetry, devMode,
                   logins, cookie, authorized, signin, req, ops, retired>>

(***************************************************************************)
(* Credentials.  A bearer token is an API key, numbered by its secret, or  *)
(* the JWT of a session.                                                   *)
(***************************************************************************)
Deny(status) == [status |-> status, user |-> NoUser, tenant |-> NoTenant, role |-> NoRole]
Allow(u, t, rl) == [status |-> 200, user |-> u, tenant |-> t, role |-> rl]

NoToken    == [kind |-> "none", id |-> 0]
ApiKey(k)  == [kind |-> "key", id |-> k]
Session(s) == [kind |-> "session", id |-> s]

(* The row whose key_hash is that of the key, and not revoked. *)
lookup_api_key(token) ==
    {k \in KeyIds : token.kind = "key" /\ keys[k].state = "live" /\ keys[k].secret = token.id}

verify_api_key(token) ==
    IF lookup_api_key(token) = {} THEN Deny(401)
    ELSE LET k == CHOOSE k \in lookup_api_key(token) : TRUE
         IN Allow(NoUser, keys[k].tenant, keys[k].role)

verify_credentials(token, t) ==
    LET c == verify_api_key(token) IN IF c.status = 200 /\ c.tenant # t THEN Deny(403) ELSE c

(* Mutant: the role of the JWT serves every tenant. *)
validate_session_MutJwtRole(token, t) ==
    IF token.kind # "session" THEN Deny(401)
    ELSE LET s == sessions[token.id]
         IN IF s.state # "active" THEN Deny(401)
            ELSE Allow(s.user, IF t = NoTenant THEN s.tenant ELSE t, s.role)

(* Mutant: only the tenant of the session can be selected. *)
validate_session_MutOwnTenant(token, t) ==
    IF token.kind # "session" THEN Deny(401)
    ELSE LET s == sessions[token.id]
         IN IF s.state # "active" THEN Deny(401)
            ELSE IF t \in {NoTenant, s.tenant} THEN Allow(s.user, s.tenant, s.role)
            ELSE Deny(403)

(* The role comes from the JWT for the tenant it names, from user_tenant_roles for another. *)
validate_session(token, t) ==
    IF token.kind # "session" THEN Deny(401)
    ELSE LET s == sessions[token.id]
         IN IF s.state # "active" THEN Deny(401)
            ELSE IF t \in {NoTenant, s.tenant} THEN Allow(s.user, s.tenant, s.role)
            ELSE IF roles[<<s.user, t>>] = NoRole THEN Deny(403)
            ELSE Allow(s.user, t, roles[<<s.user, t>>])

(* What a service makes of the answer: refused for the tenant, or not known. *)
verify_session_with_tenant(token, t) ==
    LET c == validate_session(token, t) IN IF c.status \in {200, 403} THEN c ELSE Deny(401)

(* The second half of each middleware: the session cookie, else the bearer token, as a JWT. *)
SessionPath(bearer, session, header) ==
    LET token == IF session # NoToken THEN session ELSE bearer
    IN IF token = NoToken THEN Deny(401) ELSE verify_session_with_tenant(token, header)

(* The middleware of admin-service: bearer token, session cookie, X-Tenant-ID header. *)
require_tenant(bearer, session, header) ==
    LET key == IF bearer = NoToken THEN Deny(401)
               ELSE IF header \in Tenants THEN verify_credentials(bearer, header)
               ELSE IF header = NoTenant /\ session = NoToken THEN verify_api_key(bearer)
               ELSE Deny(401)
    IN IF header = BadTenant THEN Deny(400)
       ELSE IF key.status # 401 THEN key
       ELSE SessionPath(bearer, session, header)

(* The middleware of alert-evaluator, a copy of the one above. *)
require_tenant_alerts(bearer, session, header) ==
    LET key == IF bearer = NoToken THEN Deny(401)
               ELSE IF header \in Tenants THEN verify_credentials(bearer, header)
               ELSE IF header = NoTenant /\ session = NoToken THEN verify_api_key(bearer)
               ELSE Deny(401)
    IN IF header = BadTenant THEN Deny(400)
       ELSE IF key.status # 401 THEN key
       ELSE SessionPath(bearer, session, header)

(* Mutant: a key that is good for another tenant is taken for its own. *)
require_tenant_query_MutKeyTenant(bearer, session, header) ==
    LET key == IF bearer # NoToken /\ header \in Tenants THEN verify_api_key(bearer)
               ELSE Deny(401)
    IN IF header = BadTenant THEN Deny(400)
       ELSE IF key.status # 401 THEN key
       ELSE SessionPath(bearer, session, header)

(* The middleware of query-api: an API key needs the header. *)
require_tenant_query(bearer, session, header) ==
    LET key == IF bearer # NoToken /\ header \in Tenants THEN verify_credentials(bearer, header)
               ELSE Deny(401)
    IN IF header = BadTenant THEN Deny(400)
       ELSE IF key.status # 401 THEN key
       ELSE SessionPath(bearer, session, header)

(* The bearer tokens and session cookies that clients hold or have held. *)
Cookies  == {NoToken} \union {Session(s) : s \in {i \in SessionIds : sessions[i].state # "none"}}
Bearers  == {ApiKey(n) : n \in 1..secrets} \union Cookies
Headers  == Tenants \union {NoTenant, BadTenant}

Authenticate(r, bearer, session, header) ==
    LET c == require_tenant(bearer, session, header)
    IN /\ req[r] = Idle /\ ops < MaxOps /\ c.status = 200
       /\ ops' = ops + 1
       /\ req' = [req EXCEPT ![r] = [Idle EXCEPT !.pc = "ready", !.user = c.user,
                                      !.tenant = c.tenant, !.role = c.role]]
       /\ UNCHANGED <<tenants, config, users, roles, sessions, keys, secrets, telemetry,
                      devMode, logins, cookie, authorized, signin, held, retired>>

(* A handler ends with an error before it writes, or the client or the pod goes away. *)
RequestEnds(r) ==
    /\ req[r] # Idle
    /\ req' = [req EXCEPT ![r] = Idle]
    /\ UNCHANGED <<tenants, config, users, roles, sessions, keys, secrets, telemetry,
                   devMode, logins, cookie, authorized, signin, ops, held, retired>>

require_admin(r) == req[r].pc = "ready" /\ req[r].role = Admin

Done(r) == req' = [req EXCEPT ![r] = Idle]

(***************************************************************************)
(* Ingestion tokens.                                                       *)
(***************************************************************************)
tokenUnchanged == <<tenants, config, users, roles, sessions, telemetry, devMode, logins,
                    cookie, authorized, signin, ops, held>>

(* Mutant: the new key counts twice. *)
create_token_MutCounter(r) ==
    /\ require_admin(r) /\ secrets < MaxSecrets
    /\ secrets' = secrets + 2
    /\ \E k \in KeyIds :
         /\ keys[k] = NoKey
         /\ keys' = [keys EXCEPT ![k] = [state |-> "live", tenant |-> req[r].tenant,
                                          secret |-> secrets', role |-> "member"]]
    /\ Done(r)
    /\ UNCHANGED retired /\ UNCHANGED tokenUnchanged

create_token(r) ==
    /\ require_admin(r) /\ secrets < MaxSecrets
    /\ secrets' = secrets + 1
    /\ \E k \in KeyIds :
         /\ keys[k] = NoKey
         /\ keys' = [keys EXCEPT ![k] = [state |-> "live", tenant |-> req[r].tenant,
                                          secret |-> secrets', role |-> "member"]]
    /\ Done(r)
    /\ UNCHANGED retired /\ UNCHANGED tokenUnchanged

(* Mutant: the tenant is not part of the WHERE clause. *)
OwnKey_MutAnyTenant(r, k) == keys[k] # NoKey

OwnKey(r, k) == keys[k] # NoKey /\ keys[k].tenant = req[r].tenant

revoke_token(r, k) ==
    /\ require_admin(r) /\ OwnKey(r, k) /\ keys[k].state = "live"
    /\ keys' = [keys EXCEPT ![k].state = "revoked"]
    /\ Done(r)
    /\ UNCHANGED <<secrets, retired>> /\ UNCHANGED tokenUnchanged

(* Mutant: the old hash stays. *)
renew_token_MutKeepsHash(r, k) ==
    /\ require_admin(r) /\ OwnKey(r, k) /\ secrets < MaxSecrets
    /\ secrets' = secrets + 1
    /\ keys' = [keys EXCEPT ![k].state = "live"]
    /\ retired' = retired \union {keys[k].secret}
    /\ Done(r)
    /\ UNCHANGED tokenUnchanged

renew_token(r, k) ==
    /\ require_admin(r) /\ OwnKey(r, k) /\ secrets < MaxSecrets
    /\ secrets' = secrets + 1
    /\ keys' = [keys EXCEPT ![k] = [@ EXCEPT !.state = "live", !.secret = secrets']]
    /\ retired' = retired \union {keys[k].secret}
    /\ Done(r)
    /\ UNCHANGED tokenUnchanged

restore_token(r, k) ==
    /\ require_admin(r) /\ OwnKey(r, k) /\ keys[k].state = "revoked"
    /\ keys' = [keys EXCEPT ![k].state = "live"]
    /\ Done(r)
    /\ UNCHANGED <<secrets, retired>> /\ UNCHANGED tokenUnchanged

delete_token(r, k) ==
    /\ require_admin(r) /\ OwnKey(r, k) /\ keys[k].state = "revoked"
    /\ keys' = [keys EXCEPT ![k] = NoKey]
    /\ retired' = retired \union {keys[k].secret}
    /\ Done(r)
    /\ UNCHANGED secrets /\ UNCHANGED tokenUnchanged

(* A gateway accepts telemetry sent with the key, and it is stored. *)
Ingest(n) ==
    LET c == verify_api_key(ApiKey(n))
    IN /\ c.status = 200
       /\ telemetry' = telemetry \union {c.tenant}
       /\ UNCHANGED <<tenants, config, users, roles, sessions, keys, secrets, devMode, logins,
                      cookie, authorized, signin, req, ops, held, retired>>

(***************************************************************************)
(* Members.                                                                *)
(***************************************************************************)
memberUnchanged == <<tenants, config, users, keys, secrets, telemetry, devMode, logins,
                     cookie, authorized, signin, ops, retired>>

handle_add_member(r, u, role) ==
    /\ require_admin(r) /\ u \in users
    /\ SetRoles([roles EXCEPT ![<<u, req[r].tenant>>] = role])
    /\ Done(r)
    /\ UNCHANGED sessions /\ UNCHANGED memberUnchanged

(* Nobody changes the role of their own; sessions are left alone. *)
handle_update_role(r, u, role) ==
    /\ require_admin(r) /\ u # req[r].user
    /\ roles[<<u, req[r].tenant>>] # NoRole
    /\ SetRoles([roles EXCEPT ![<<u, req[r].tenant>>] = role])
    /\ Done(r)
    /\ UNCHANGED sessions /\ UNCHANGED memberUnchanged

AdminsOf(t) == {u \in Users : roles[<<u, t>>] = Admin}

(* handle_remove_member: the administrators are counted, the role of the target is read,
   and the transaction follows. *)
CountAdmins(r, u) ==
    /\ require_admin(r)
    /\ req' = [req EXCEPT ![r] = [@ EXCEPT !.pc = "counted", !.target = u,
                                           !.admins = Cardinality(AdminsOf(req[r].tenant))]]
    /\ UNCHANGED <<roles, held, sessions>> /\ UNCHANGED memberUnchanged

(* Mutant: the guard is off by one. *)
CheckTarget_MutOffByOne(r) ==
    /\ req[r].pc = "counted"
    /\ ~(roles[<<req[r].target, req[r].tenant>>] = Admin /\ req[r].admins < 1)
    /\ req' = [req EXCEPT ![r] =
                  [@ EXCEPT !.pc = "removing",
                            !.targetRole = roles[<<req[r].target, req[r].tenant>>]]]
    /\ UNCHANGED <<roles, held, sessions>> /\ UNCHANGED memberUnchanged

CheckTarget(r) ==
    /\ req[r].pc = "counted"
    /\ ~(roles[<<req[r].target, req[r].tenant>>] = Admin /\ req[r].admins <= 1)
    /\ req' = [req EXCEPT ![r] =
                  [@ EXCEPT !.pc = "removing",
                            !.targetRole = roles[<<req[r].target, req[r].tenant>>]]]
    /\ UNCHANGED <<roles, held, sessions>> /\ UNCHANGED memberUnchanged

RemoveMember(r) ==
    LET u == req[r].target t == req[r].tenant
    IN /\ req[r].pc = "removing"
       /\ sessions' = Revoke(sessions, u, t)
       /\ SetRoles([roles EXCEPT ![<<u, t>>] = NoRole])
       /\ Done(r)
       /\ UNCHANGED memberUnchanged

handle_revoke_sessions(r, u) ==
    /\ require_admin(r)
    /\ sessions' = Revoke(sessions, u, req[r].tenant)
    /\ Done(r)
    /\ UNCHANGED <<roles, held>> /\ UNCHANGED memberUnchanged

(***************************************************************************)
(* Tenants.                                                                *)
(***************************************************************************)
handle_update_tenant_config(r, c) ==
    /\ require_admin(r) /\ req[r].tenant \in tenants
    /\ config' = [config EXCEPT ![req[r].tenant] = c]
    /\ Done(r)
    /\ UNCHANGED <<tenants, users, roles, sessions, keys, secrets, telemetry, devMode,
                   logins, cookie, authorized, signin, ops, held, retired>>

(* The ClickHouse mutations come first; one that fails is only logged. *)
PurgeTelemetry(r) ==
    /\ require_admin(r)
    /\ telemetry' \in {telemetry, telemetry \ {req[r].tenant}}
    /\ req' = [req EXCEPT ![r].pc = "purging"]
    /\ UNCHANGED <<tenants, config, users, roles, sessions, keys, secrets, devMode, logins,
                   cookie, authorized, signin, ops, held, retired>>

(* The transaction fails as a whole when there is no tenant row to delete. *)
PurgeRecords(r) ==
    LET t == req[r].tenant
    IN /\ req[r].pc = "purging" /\ t \in tenants
       /\ tenants' = tenants \ {t}
       /\ roles' = [m \in Users \X Tenants |-> IF m[2] = t THEN NoRole ELSE roles[m]]
       /\ sessions' = [s \in SessionIds |-> IF sessions[s].tenant = t
                                            THEN [sessions[s] EXCEPT !.state = "gone"]
                                            ELSE sessions[s]]
       /\ keys' = [k \in KeyIds |-> IF keys[k].tenant = t THEN NoKey ELSE keys[k]]
       /\ retired' = retired \union {keys[k].secret : k \in {i \in KeyIds : keys[i].tenant = t}}
       /\ Done(r)
       /\ UNCHANGED <<config, users, secrets, telemetry, devMode, logins, cookie, authorized,
                      signin, ops, held>>

(* GET /v1/tenants with a session: the tenants of its user. *)
list_tenants(s) == {t \in tenants : roles[<<sessions[s].user, t>>] # NoRole}

(* GET /auth/me: the memberships of the JWT's user.  The session row is not looked at. *)
me_handler(s) ==
    IF sessions[s].state \notin {"none", "expired"} /\ sessions[s].user \in users
    THEN list_user_tenants(roles, sessions[s].user) ELSE {}

(* GET /v1/tenants/:id/environments with a session: whether its user may see those of t. *)
list_tenant_environments(s, t) ==
    /\ verify_session_with_tenant(Session(s), NoTenant).status = 200
    /\ roles[<<sessions[s].user, t>>] # NoRole

(* The members of a tenant that the console shows its administrators. *)
handle_list_members(t) == {u \in users : roles[<<u, t>>] # NoRole}

AccNext ==
    \/ \E u \in Users : login_handler(u)
    \/ \E u \in Users, n \in SessionIds :
         \/ CallbackRejected(u, n)
         \/ CallbackNoAccess(u, n)
         \/ \E t \in Tenants : CallbackChooses(u, n, t)
    \/ \E n \in SessionIds :
         CallbackSigns(n) \/ CallbackFails(n) \/ logout_handler(n) \/ SessionExpires(n)
    \/ seed_dev_admin_role
    \/ \E n \in 1..MaxSecrets : Ingest(n)
    \/ \E r \in Requests :
         \/ \E b \in Bearers, c \in Cookies, h \in Headers : Authenticate(r, b, c, h)
         \/ RequestEnds(r)
         \/ create_token(r)
         \/ \E k \in KeyIds : \/ revoke_token(r, k) \/ renew_token(r, k)
                             \/ restore_token(r, k) \/ delete_token(r, k)
         \/ \E u \in Users : \/ CountAdmins(r, u) \/ handle_revoke_sessions(r, u)
                            \/ \E role \in Roles : \/ handle_add_member(r, u, role)
                                                  \/ handle_update_role(r, u, role)
         \/ CheckTarget(r) \/ RemoveMember(r)
         \/ \E c \in Configs : handle_update_tenant_config(r, c)
         \/ PurgeTelemetry(r) \/ PurgeRecords(r)

AccSpec == AccInit /\ [][AccNext]_accVars

(***************************************************************************)
(* Properties.                                                             *)
(***************************************************************************)
SomeTenant == Tenants \union {NoTenant}
SomeUser   == Users \union {NoUser}
SomeRole   == Roles \union {NoRole}

(* The tables and the requests being served hold what their columns and types allow. *)
AccountsTypeOK ==
    /\ tenants \subseteq Tenants /\ config \in [Tenants -> Configs] /\ users \subseteq Users
    /\ roles \in [Users \X Tenants -> SomeRole]
    /\ sessions \in [SessionIds -> [state : {"none", "active", "revoked", "expired", "gone"},
                                    user : SomeUser, tenant : SomeTenant, role : SomeRole]]
    /\ keys \in [KeyIds -> [state : {"none", "live", "revoked"}, tenant : SomeTenant,
                            secret : 0..MaxSecrets, role : SomeRole]]
    /\ secrets \in 0..MaxSecrets /\ telemetry \subseteq Tenants /\ devMode \in BOOLEAN
    /\ logins \in 0..MaxLogins /\ cookie \in [Users -> 0..MaxLogins]
    /\ authorized \subseteq Users \X SessionIds
    /\ signin \in [SessionIds -> [user : SomeUser, tenant : SomeTenant, role : SomeRole]]
    /\ req \in [Requests -> [pc : {"idle", "ready", "counted", "removing", "purging"},
                             user : SomeUser, tenant : SomeTenant, role : SomeRole,
                             target : SomeUser, targetRole : SomeRole, admins : Nat]]
    /\ ops \in 0..MaxOps
    /\ held \subseteq Users \X Tenants \X Roles
    /\ retired \subseteq 0..MaxSecrets

(* Whatever token, cookie and X-Tenant-ID header it came with, a request of a user acts with
   a role that this user has had in the tenant it acts for; a request with an API key acts
   as no administrator. *)
AuthorityWasGranted ==
    \A r \in Requests : req[r] # Idle =>
        IF req[r].user = NoUser THEN req[r].role # Admin
        ELSE <<req[r].user, req[r].tenant, req[r].role>> \in held

(* An API key that was rotated, deleted or purged with its tenant is refused at the doors of
   admin-service, alert-evaluator and query-api, whatever restores and renewals follow. *)
RetiredKeysRefused ==
    \A n \in retired : \A h \in Headers :
        /\ require_tenant(ApiKey(n), NoToken, h).status # 200
        /\ require_tenant_alerts(ApiKey(n), NoToken, h).status # 200
        /\ require_tenant_query(ApiKey(n), NoToken, h).status # 200

(* Three services authenticate with three copies of the code.  Whatever a client presents,
   none of them takes it for another tenant, user or role than another does; query-api lets
   in nobody that the other two refuse. *)
DoorsAgree ==
    \A b \in Bearers, c \in Cookies, h \in Headers :
        LET a == require_tenant(b, c, h)
            q == require_tenant_query(b, c, h)
        IN require_tenant_alerts(b, c, h) = a /\ (q.status = 200 => q = a)

(* A tenant that the console lists for a session, or whose environments it shows, can be
   selected with that session; the members it lists are all that the last-administrator
   guard counts. *)
ListedTenantsSelectable ==
    /\ \A s \in SessionIds : sessions[s].state = "active" =>
         \A t \in Tenants :
            t \in list_tenants(s) \union me_handler(s) \/ list_tenant_environments(s, t)
            => verify_session_with_tenant(Session(s), t).status = 200
    /\ \A t \in Tenants : AdminsOf(t) \subseteq handle_list_members(t)

(* A request changes nothing of a tenant other than its own: every statement is bound to the
   tenant of the context, never to one named by the request. *)
TenantIsolation ==
    [][\A r \in Requests : req[r] # Idle /\ req'[r] # req[r] =>
         \A t \in Tenants \ {req[r].tenant} :
            /\ (t \in tenants') = (t \in tenants) /\ config'[t] = config[t]
            /\ (t \in telemetry') = (t \in telemetry)
            /\ \A u \in Users : roles'[<<u, t>>] = roles[<<u, t>>]
            /\ \A k \in KeyIds : keys[k].tenant = t => keys'[k] = keys[k]
            /\ \A s \in SessionIds : sessions[s].tenant = t => sessions'[s] = sessions[s]]_accVars

(* A session that was revoked, has expired or was purged never works again. *)
EndedSessionsStayEnded ==
    [][\A s \in SessionIds : sessions[s].state \in {"revoked", "expired", "gone"} =>
         sessions'[s].state # "active"]_accVars

(* Removing a member never takes the last administrator of a tenant unless what the request
   has read, the number of administrators or the role of its target, has changed since. *)
GuardedRemovalKeepsAdmin ==
    [][\A r \in Requests :
         LET t == req[r].tenant
             read == [admins |-> req[r].admins, role |-> req[r].targetRole]
             now  == [admins |-> Cardinality(AdminsOf(t)), role |-> roles[<<req[r].target, t>>]]
         IN req[r].pc = "removing" /\ req'[r] # req[r] /\ read = now /\ AdminsOf(t) # {}
            => \E u \in Users : roles'[<<u, t>>] = Admin]_accVars

(* Credentials are worth what they were issued for, in tables that stay well typed: no role
   that was never held, no key that was retired, the same answer at every door, no tenant
   listed in vain. *)
CredentialsAreHonoured ==
    /\ AccountsTypeOK /\ AuthorityWasGranted /\ RetiredKeysRefused
    /\ DoorsAgree /\ ListedTenantsSelectable

(* Requests stay within their tenant, and sessions that ended stay ended. *)
TenantsAndSessionsHold == TenantIsolation /\ EndedSessionsStayEnded

-----------------------------------------------------------------------------
(* Why these hold.  A sign-in becomes one session at most, which has never existed before. *)
SignInsOnce ==
    /\ \A s \in SessionIds : s > logins => signin[s] = NoSignin /\ sessions[s] = NoSession
    /\ \A a \in authorized :
          a[2] <= logins /\ signin[a[2]] = NoSignin /\ sessions[a[2]] = NoSession
    /\ \A a, b \in authorized : a[2] = b[2] => a = b
    /\ \A s \in SessionIds : signin[s] # NoSignin => sessions[s] = NoSession

(* Memberships, sign-ins and sessions carry roles that were held. *)
ClaimsWereHeld ==
    /\ \A m \in Users \X Tenants :
          roles[m] # NoRole => m[1] \in users /\ <<m[1], m[2], roles[m]>> \in held
    /\ \A s \in SessionIds :
          /\ sessions[s] # NoSession =>
                <<sessions[s].user, sessions[s].tenant, sessions[s].role>> \in held
          /\ signin[s] # NoSignin =>
                <<signin[s].user, signin[s].tenant, signin[s].role>> \in held

(* No two keys have a secret in common, and none has one that was retired. *)
SecretsAreUnique ==
    /\ \A k \in KeyIds : keys[k] # NoKey =>
          /\ keys[k].secret \in 1..secrets /\ keys[k].secret \notin retired
          /\ keys[k].tenant \in Tenants /\ keys[k].role = "member"
    /\ \A j, k \in KeyIds :
          j # k /\ keys[j] # NoKey /\ keys[k] # NoKey => keys[j].secret # keys[k].secret
    /\ retired \subseteq 1..secrets

(* A request acts for a tenant, and a removal that goes on has seen another administrator or
   a target that is none. *)
RequestsWereChecked ==
    \A r \in Requests :
        /\ req[r] = Idle \/ (req[r].pc # "idle" /\ req[r].tenant \in Tenants)
        /\ req[r].pc \in {"counted", "removing"} => req[r].target \in Users
        /\ req[r].pc = "removing" => req[r].targetRole # Admin \/ req[r].admins > 1

AccountsInv ==
    /\ AccountsTypeOK /\ SignInsOnce /\ ClaimsWereHeld /\ SecretsAreUnique
    /\ AuthorityWasGranted /\ RequestsWereChecked

=============================================================================
