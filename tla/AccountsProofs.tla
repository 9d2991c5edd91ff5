---------------------------- MODULE AccountsProofs ----------------------------
(***************************************************************************)
(* Theorems about who may act for a tenant (Accounts), for every set of    *)
(* users, tenants, keys and requests in flight, and any number of          *)
(* operations.                                                             *)
(***************************************************************************)
EXTENDS Accounts, FiniteSetTheorems, TLAPS

-----------------------------------------------------------------------------
(***************************************************************************)
(* The doors: what the three middlewares make of a credential.             *)
(***************************************************************************)
AnswerType == [status : {200, 400, 401, 403}, user : SomeUser, tenant : SomeTenant, role : SomeRole]

Tokens == {NoToken} \union {ApiKey(n) : n \in Nat} \union {Session(s) : s \in SessionIds}

(* A key is no session, and a session is no key.                           *)
LEMMA TokenKinds ==
    ASSUME NEW b \in Tokens
    PROVE  /\ b.kind = "session" => b.id \in SessionIds
           /\ b = NoToken => b.kind = "none"
           /\ b.kind \in {"none", "key", "session"}
  BY DEF Tokens, NoToken, ApiKey, Session

(* An API key answers for its own tenant or not at all.                    *)
LEMMA KeyAnswers ==
    ASSUME AccountsTypeOK, NEW b, NEW t
    PROVE  /\ verify_api_key(b) \in AnswerType
           /\ verify_api_key(b).status = 200 =>
                \E k \in lookup_api_key(b) :
                    verify_api_key(b) = Allow(NoUser, keys[k].tenant, keys[k].role)
           /\ verify_api_key(b).status \in {200, 401}
           /\ verify_credentials(b, t) \in {verify_api_key(b), Deny(403)}
<1>1. CASE lookup_api_key(b) = {}
  BY <1>1 DEF verify_api_key, verify_credentials, Deny, AnswerType, SomeUser, SomeTenant, SomeRole
<1>2. CASE lookup_api_key(b) # {}
  <2>1. PICK k \in lookup_api_key(b) : verify_api_key(b) = Allow(NoUser, keys[k].tenant, keys[k].role)
    BY <1>2 DEF verify_api_key
  <2>2. keys[k].tenant \in SomeTenant /\ keys[k].role \in SomeRole
    BY DEF lookup_api_key, AccountsTypeOK
  <2>3. QED
    BY <2>1, <2>2 DEF verify_credentials, Deny, Allow, AnswerType, SomeUser
<1>3. QED
  BY <1>1, <1>2

(* A session answers with the role of its JWT or with one in the table.    *)
LEMMA SessionAnswers ==
    ASSUME AccountsTypeOK, NEW b \in Tokens, NEW t
    PROVE  LET c == verify_session_with_tenant(b, t)
           IN /\ c \in {Deny(401), Deny(403)} \/ c.status = 200
              /\ c.status = 200 =>
                   /\ b.kind = "session" /\ sessions[b.id].state = "active"
                   /\ \/ c = Allow(sessions[b.id].user, sessions[b.id].tenant, sessions[b.id].role)
                      \/ /\ c = Allow(sessions[b.id].user, t, roles[<<sessions[b.id].user, t>>])
                         /\ roles[<<sessions[b.id].user, t>>] # NoRole
                         /\ t \notin {NoTenant, sessions[b.id].tenant}
  BY DEF verify_session_with_tenant, validate_session, Deny, Allow
(* Cookies and bearer tokens are tokens.                                   *)
LEMMA ClientsHoldTokens ==
    ASSUME AccountsTypeOK
    PROVE  Cookies \subseteq Tokens /\ Bearers \subseteq Tokens
<1>1. 1..secrets \subseteq Nat
  BY DEF AccountsTypeOK
<1>2. QED
  BY <1>1 DEF Cookies, Bearers, Tokens

(* What a session that is let in may claim.                                *)
LEMMA SessionClaims ==
    ASSUME AccountsInv, NEW b \in Tokens, NEW t \in Tenants \union {NoTenant},
           verify_session_with_tenant(b, t).status = 200
    PROVE  LET c == verify_session_with_tenant(b, t)
           IN /\ c \in [status : {200}, user : Users, tenant : Tenants, role : Roles]
              /\ <<c.user, c.tenant, c.role>> \in held
<1>1. PICK c : c = verify_session_with_tenant(b, t)
  OBVIOUS
<1>2. PICK s \in SessionIds :
         /\ sessions[s].state = "active"
         /\ \/ c = Allow(sessions[s].user, sessions[s].tenant, sessions[s].role)
            \/ /\ c = Allow(sessions[s].user, t, roles[<<sessions[s].user, t>>])
               /\ roles[<<sessions[s].user, t>>] # NoRole
               /\ t \in Tenants
  BY <1>1, SessionAnswers, TokenKinds DEF AccountsInv
<1>3. /\ sessions[s] # NoSession
      /\ <<sessions[s].user, sessions[s].tenant, sessions[s].role>> \in held
      /\ held \subseteq Users \X Tenants \X Roles
  <2>1. sessions[s] # NoSession
    BY <1>2 DEF NoSession
  <2>2. QED
    BY <2>1 DEF AccountsInv, ClaimsWereHeld, AccountsTypeOK
<1>4. sessions[s].user \in Users /\ sessions[s].tenant \in Tenants /\ sessions[s].role \in Roles
  BY <1>3
<1>5. CASE c = Allow(sessions[s].user, sessions[s].tenant, sessions[s].role)
  BY <1>1, <1>3, <1>4, <1>5 DEF Allow
<1>6. CASE /\ c = Allow(sessions[s].user, t, roles[<<sessions[s].user, t>>])
           /\ roles[<<sessions[s].user, t>>] # NoRole /\ t \in Tenants
  <2>1. PICK u \in Users : u = sessions[s].user
    BY <1>4
  <2>2. <<u, t, roles[<<u, t>>]>> \in held
    BY <1>6, <2>1 DEF AccountsInv, ClaimsWereHeld
  <2>3. roles[<<u, t>>] \in Roles
    BY <1>3, <2>2
  <2>4. QED
    BY <1>1, <1>6, <2>1, <2>2, <2>3 DEF Allow
<1>7. QED
  BY <1>2, <1>5, <1>6

(* What the middleware of admin-service hands to a handler.                *)
LEMMA DoorClaims ==
    ASSUME AccountsInv, NEW b \in Tokens, NEW c \in Tokens, NEW h \in Headers,
           require_tenant(b, c, h).status = 200
    PROVE  LET x == require_tenant(b, c, h)
           IN /\ x \in [status : {200}, user : SomeUser, tenant : Tenants, role : SomeRole]
              /\ IF x.user = NoUser THEN x.role # Admin
                 ELSE <<x.user, x.tenant, x.role>> \in held
<1>1. PICK x : x = require_tenant(b, c, h)
  OBVIOUS
<1>2. /\ h \in Tenants \union {NoTenant}
      /\ x \in {verify_api_key(b), verify_credentials(b, h), SessionPath(b, c, h)}
  BY <1>1, AccountsAssumption DEF require_tenant, Deny, Headers
<1>3. CASE x = SessionPath(b, c, h)
  <2>1. PICK d \in Tokens : x = verify_session_with_tenant(d, h)
    BY <1>1, <1>3 DEF SessionPath, Deny
  <2>2. /\ x \in [status : {200}, user : Users, tenant : Tenants, role : Roles]
        /\ <<x.user, x.tenant, x.role>> \in held
    BY <1>1, <1>2, <2>1, SessionClaims
  <2>3. QED
    BY <1>1, <2>2, TenancyAssumption DEF SomeUser, SomeTenant, SomeRole
<1>4. CASE x \in {verify_api_key(b), verify_credentials(b, h)}
  <2>1. AccountsTypeOK
    BY DEF AccountsInv
  <2>2. x = verify_api_key(b)
    BY <1>1, <1>4, <2>1, KeyAnswers DEF Deny
  <2>3. PICK k \in lookup_api_key(b) : x = Allow(NoUser, keys[k].tenant, keys[k].role)
    BY <1>1, <2>1, <2>2, KeyAnswers
  <2>4. k \in KeyIds /\ keys[k] # NoKey
    BY DEF lookup_api_key, NoKey
  <2>5. keys[k].role = "member" /\ keys[k].tenant \in Tenants
    BY <2>4 DEF AccountsInv, SecretsAreUnique
  <2>6. QED
    BY <1>1, <2>3, <2>5, AccountsAssumption DEF Allow, Admin, SomeUser, SomeTenant, SomeRole
<1>5. QED
  BY <1>2, <1>3, <1>4

(* A key that was retired opens no door.                                   *)
LEMMA RetiredStayOut ==
    ASSUME AccountsInv
    PROVE  RetiredKeysRefused
<1> SUFFICES ASSUME NEW n \in retired, NEW h \in Headers
             PROVE  /\ require_tenant(ApiKey(n), NoToken, h).status # 200
                    /\ require_tenant_alerts(ApiKey(n), NoToken, h).status # 200
                    /\ require_tenant_query(ApiKey(n), NoToken, h).status # 200
  BY DEF RetiredKeysRefused
<1>1. lookup_api_key(ApiKey(n)) = {}
  BY DEF lookup_api_key, ApiKey, AccountsInv, SecretsAreUnique, NoKey
<1>2. verify_api_key(ApiKey(n)) = Deny(401) /\ \A t : verify_credentials(ApiKey(n), t) = Deny(401)
  BY <1>1 DEF verify_api_key, verify_credentials, Deny
<1>3. SessionPath(ApiKey(n), NoToken, h) = Deny(401)
  BY DEF SessionPath, ApiKey, NoToken, verify_session_with_tenant, validate_session, Deny
<1>4. QED
  BY <1>2, <1>3 DEF require_tenant, require_tenant_alerts, require_tenant_query, Deny

(* The three copies of the middleware give the same answers.               *)
LEMMA DoorsGiveSameAnswers ==
    ASSUME AccountsTypeOK
    PROVE  DoorsAgree
<1> SUFFICES ASSUME NEW b \in Tokens, NEW c \in Tokens, NEW h \in Headers
             PROVE  /\ require_tenant_alerts(b, c, h) = require_tenant(b, c, h)
                    /\ require_tenant_query(b, c, h).status = 200 =>
                         require_tenant_query(b, c, h) = require_tenant(b, c, h)
  BY ClientsHoldTokens DEF DoorsAgree
<1>1. require_tenant_alerts(b, c, h) = require_tenant(b, c, h)
  BY DEF require_tenant_alerts, require_tenant
<1>2. ASSUME require_tenant_query(b, c, h).status = 200
      PROVE  require_tenant_query(b, c, h) = require_tenant(b, c, h)
  <2>1. CASE b # NoToken /\ h \in Tenants
    <3>1. PICK key : key = verify_credentials(b, h)
      OBVIOUS
    <3>2. require_tenant(b, c, h) = IF h = BadTenant THEN Deny(400)
                                    ELSE IF key.status # 401 THEN key ELSE SessionPath(b, c, h)
      BY <2>1, <3>1 DEF require_tenant
    <3>3. require_tenant_query(b, c, h) = IF h = BadTenant THEN Deny(400)
                                    ELSE IF key.status # 401 THEN key ELSE SessionPath(b, c, h)
      BY <2>1, <3>1 DEF require_tenant_query
    <3>4. QED
      BY <3>2, <3>3
  <2>2. CASE b = NoToken
    <3>1. Deny(401).status = 401
      BY DEF Deny
    <3>2. require_tenant(b, c, h) = IF h = BadTenant THEN Deny(400) ELSE SessionPath(b, c, h)
      BY <2>2, <3>1 DEF require_tenant
    <3>3. require_tenant_query(b, c, h) = IF h = BadTenant THEN Deny(400)
                                          ELSE SessionPath(b, c, h)
      BY <2>2, <3>1 DEF require_tenant_query
    <3>4. QED
      BY <3>2, <3>3
  <2>3. CASE b # NoToken /\ h = NoTenant /\ c = NoToken
    <3>1. h # BadTenant /\ h \notin Tenants
      BY <2>3, AccountsAssumption, TenancyAssumption
    <3>2. require_tenant_query(b, c, h) = SessionPath(b, c, h)
      BY <2>3, <3>1 DEF require_tenant_query, Deny
    <3>3. SessionPath(b, c, h) = verify_session_with_tenant(b, h)
      BY <2>3 DEF SessionPath
    <3>4. b.kind = "session"
      <4>1. LET y == verify_session_with_tenant(b, h)
            IN /\ y \in {Deny(401), Deny(403)} \/ y.status = 200
               /\ y.status = 200 =>
                   /\ b.kind = "session" /\ sessions[b.id].state = "active"
                   /\ \/ y = Allow(sessions[b.id].user, sessions[b.id].tenant, sessions[b.id].role)
                      \/ /\ y = Allow(sessions[b.id].user, h, roles[<<sessions[b.id].user, h>>])
                         /\ roles[<<sessions[b.id].user, h>>] # NoRole
                         /\ h \notin {NoTenant, sessions[b.id].tenant}
        BY SessionAnswers
      <4>2. QED
        BY <1>2, <3>2, <3>3, <4>1
    <3>5. verify_api_key(b) = Deny(401)
      BY <3>4 DEF verify_api_key, lookup_api_key
    <3>6. QED
      BY <2>3, <3>1, <3>2, <3>5 DEF require_tenant, Deny
  <2>4. CASE b # NoToken /\ h \notin Tenants /\ ~(h = NoTenant /\ c = NoToken)
    BY <2>4 DEF require_tenant_query, require_tenant, Deny
  <2>5. QED
    BY <2>1, <2>2, <2>3, <2>4 DEF Headers
<1>3. QED
  BY <1>1, <1>2

(* What is listed can be selected.                                         *)
LEMMA ListedAreSelectable ==
    ASSUME AccountsInv
    PROVE  ListedTenantsSelectable
<1>1. ASSUME NEW s \in SessionIds, sessions[s].state = "active", NEW t \in Tenants,
             t \in list_tenants(s) \union me_handler(s) \/ list_tenant_environments(s, t)
      PROVE  verify_session_with_tenant(Session(s), t).status = 200
  <2>1. roles[<<sessions[s].user, t>>] # NoRole
    BY <1>1 DEF list_tenants, me_handler, list_user_tenants, list_tenant_environments
  <2>2. QED
    BY <1>1, <2>1 DEF verify_session_with_tenant, validate_session, Session, Deny, Allow
<1>2. \A t \in Tenants : AdminsOf(t) \subseteq handle_list_members(t)
  <2>1. Admin # NoRole
    BY AccountsAssumption
  <2>2. \A u \in Users, t \in Tenants : roles[<<u, t>>] # NoRole => u \in users
    <3>1. ASSUME NEW u \in Users, NEW t \in Tenants, roles[<<u, t>>] # NoRole PROVE u \in users
      <4>1. PICK m \in Users \X Tenants : m = <<u, t>>
        OBVIOUS
      <4>2. m[1] \in users
        BY <3>1, <4>1 DEF AccountsInv, ClaimsWereHeld
      <4>3. QED
        BY <4>1, <4>2
    <3>2. QED
      BY <3>1
  <2>3. QED
    BY <2>1, <2>2 DEF AdminsOf, handle_list_members
<1>3. QED
  BY <1>1, <1>2 DEF ListedTenantsSelectable

(* The parts of CredentialsAreHonoured that hold wherever the invariant does. *)
LEMMA HonouredByInvariant ==
    ASSUME AccountsInv
    PROVE  CredentialsAreHonoured
  BY RetiredStayOut, DoorsGiveSameAnswers, ListedAreSelectable
  DEF AccountsInv, CredentialsAreHonoured
-----------------------------------------------------------------------------
(***************************************************************************)
(* The invariant of Accounts.                                              *)
(***************************************************************************)
SessionType == [state : {"none", "active", "revoked", "expired", "gone"},
                user : SomeUser, tenant : SomeTenant, role : SomeRole]
KeyType     == [state : {"none", "live", "revoked"}, tenant : SomeTenant,
                secret : 0..MaxSecrets, role : SomeRole]
SigninType  == [user : SomeUser, tenant : SomeTenant, role : SomeRole]
RequestType == [pc : {"idle", "ready", "counted", "removing", "purging"},
                user : SomeUser, tenant : SomeTenant, role : SomeRole,
                target : SomeUser, targetRole : SomeRole, admins : Nat]

(* The steps of a request, and the others.                                 *)
RequestStep(r) ==
    \/ \E b \in Bearers, c \in Cookies, h \in Headers : Authenticate(r, b, c, h)
    \/ RequestEnds(r)
    \/ create_token(r)
    \/ \E k \in KeyIds : revoke_token(r, k)
    \/ \E k \in KeyIds : renew_token(r, k)
    \/ \E k \in KeyIds : restore_token(r, k)
    \/ \E k \in KeyIds : delete_token(r, k)
    \/ \E u \in Users : CountAdmins(r, u)
    \/ \E u \in Users : handle_revoke_sessions(r, u)
    \/ \E u \in Users, role \in Roles : handle_add_member(r, u, role)
    \/ \E u \in Users, role \in Roles : handle_update_role(r, u, role)
    \/ CheckTarget(r)
    \/ RemoveMember(r)
    \/ \E c \in Configs : handle_update_tenant_config(r, c)
    \/ PurgeTelemetry(r)
    \/ PurgeRecords(r)

SignInStep ==
    \/ \E u \in Users : login_handler(u)
    \/ \E u \in Users, n \in SessionIds : CallbackRejected(u, n)
    \/ \E u \in Users, n \in SessionIds : CallbackNoAccess(u, n)
    \/ \E u \in Users, n \in SessionIds, t \in Tenants : CallbackChooses(u, n, t)
    \/ \E n \in SessionIds : CallbackSigns(n)
    \/ \E n \in SessionIds : CallbackFails(n)
    \/ \E n \in SessionIds : logout_handler(n)
    \/ \E n \in SessionIds : SessionExpires(n)
    \/ seed_dev_admin_role
    \/ \E n \in 1..MaxSecrets : Ingest(n)

(* The actions in two groups: signing in, and requests with a credential.  *)
LEMMA AccountsSteps ==
    ASSUME AccNext
    PROVE  SignInStep \/ \E r \in Requests : RequestStep(r)
  BY DEF AccNext, SignInStep, RequestStep

(* The tables that Revoke and the two role seedings make.                  *)
LEMMA RevokeTypes ==
    ASSUME sessions \in [SessionIds -> SessionType], NEW u, NEW t
    PROVE  Revoke(sessions, u, t) \in [SessionIds -> SessionType]
<1>1. \A s \in SessionIds : sessions[s] \in SessionType
  OBVIOUS
<1>2. \A x \in SessionType : [x EXCEPT !.state = "revoked"] \in SessionType
  BY DEF SessionType
<1>3. QED
  BY <1>1, <1>2 DEF Revoke

(* The role tables that the two seedings and a changed role leave.         *)
LEMMA RoleTypes ==
    ASSUME AccountsTypeOK, NEW u
    PROVE  /\ SeededRoles(u) \in [Users \X Tenants -> SomeRole]
           /\ \A m \in Users \X Tenants, role \in SomeRole :
                 [roles EXCEPT ![m] = role] \in [Users \X Tenants -> SomeRole]
           /\ \A rs \in [Users \X Tenants -> SomeRole] :
                 Memberships(rs) \subseteq Users \X Tenants \X Roles
  BY AccountsAssumption DEF SeededRoles, AccountsTypeOK, SomeRole, Admin, Memberships

(* Signing in, out or away and the housekeeping of sessions keep the types. *)
LEMMA SignInTypes ==
    ASSUME AccountsInv, SignInStep
    PROVE  AccountsTypeOK'
<1> USE AccountsAssumption
<1>0. AccountsTypeOK
  BY DEF AccountsInv
<1>1. ASSUME NEW u \in Users, login_handler(u) PROVE AccountsTypeOK'
  BY <1>0, <1>1 DEF login_handler, AccountsTypeOK, SessionIds
<1>2. ASSUME NEW u \in Users, NEW n \in SessionIds, CallbackRejected(u, n)
      PROVE  AccountsTypeOK'
  BY <1>0, <1>2 DEF CallbackRejected, login_error_redirect, upsert_user, AccountsTypeOK
<1>3. ASSUME NEW u \in Users, NEW n \in SessionIds, CallbackNoAccess(u, n)
      PROVE  AccountsTypeOK'
  BY <1>0, <1>3 DEF CallbackNoAccess, login_error_redirect, upsert_user, AccountsTypeOK
<1>4. ASSUME NEW u \in Users, NEW n \in SessionIds, NEW t \in Tenants, CallbackChooses(u, n, t)
      PROVE  AccountsTypeOK'
  <2>1. roles' \in [Users \X Tenants -> SomeRole] /\ held' \subseteq Users \X Tenants \X Roles
    BY <1>0, <1>4, RoleTypes DEF CallbackChooses, SetRoles, AccountsTypeOK
  <2>2. [user |-> u, tenant |-> t, role |-> roles'[<<u, t>>]] \in SigninType
    BY <2>1 DEF SigninType, SomeUser, SomeTenant
  <2>3. QED
    BY <1>0, <1>4, <2>1, <2>2 DEF CallbackChooses, upsert_user, AccountsTypeOK, SigninType
<1>5. ASSUME NEW n \in SessionIds, CallbackSigns(n) PROVE AccountsTypeOK'
  <2>1. sign_session_jwt(signin[n]) \in SessionType /\ NoSignin \in SigninType
    BY <1>0 DEF AccountsTypeOK, sign_session_jwt, SessionType, SigninType, NoSignin, SomeUser,
                SomeTenant, SomeRole
  <2>2. QED
    <3>1. sessions' \in [SessionIds -> SessionType] /\ signin' \in [SessionIds -> SigninType]
      BY <1>0, <1>5, <2>1 DEF CallbackSigns, create_session, AccountsTypeOK, SessionType, SigninType
    <3>2. cookie' \in [Users -> 0..MaxLogins]
      <4>1. PICK u : cookie' = [cookie EXCEPT ![u] = 0]
        BY <1>5 DEF CallbackSigns
      <4>2. cookie \in [Users -> 0..MaxLogins] /\ 0 \in 0..MaxLogins
        BY <1>0 DEF AccountsTypeOK
      <4>3. QED
        BY <4>1, <4>2
    <3>3. QED
      BY <1>0, <1>5, <3>1, <3>2 DEF CallbackSigns, AccountsTypeOK, SessionType, SigninType
<1>6. ASSUME NEW n \in SessionIds, CallbackFails(n) PROVE AccountsTypeOK'
  <2>1. NoSignin \in SigninType
    BY DEF SigninType, NoSignin, SomeUser, SomeTenant, SomeRole
  <2>2. QED
    <3>1. signin' \in [SessionIds -> SigninType]
      BY <1>0, <1>6, <2>1 DEF CallbackFails, AccountsTypeOK, SigninType
    <3>2. cookie' \in [Users -> 0..MaxLogins]
      <4>1. PICK u : cookie' = [cookie EXCEPT ![u] = 0]
        BY <1>6 DEF CallbackFails
      <4>2. cookie \in [Users -> 0..MaxLogins] /\ 0 \in 0..MaxLogins
        BY <1>0 DEF AccountsTypeOK
      <4>3. QED
        BY <4>1, <4>2
    <3>3. QED
      BY <1>0, <1>6, <3>1, <3>2 DEF CallbackFails, AccountsTypeOK, SigninType
<1>7. ASSUME NEW n \in SessionIds, logout_handler(n) PROVE AccountsTypeOK'
  <2>1. sessions' \in [SessionIds -> SessionType]
    BY <1>0, <1>7, RevokeTypes DEF logout_handler, AccountsTypeOK, SessionType
  <2>2. QED
    BY <1>0, <1>7, <2>1 DEF logout_handler, AccountsTypeOK, SessionType
<1>8. ASSUME NEW n \in SessionIds, SessionExpires(n) PROVE AccountsTypeOK'
  BY <1>0, <1>8 DEF SessionExpires, AccountsTypeOK
<1>9. ASSUME seed_dev_admin_role PROVE AccountsTypeOK'
  <2>1. roles' \in [Users \X Tenants -> SomeRole]
    BY <1>0, <1>9 DEF seed_dev_admin_role, SetRoles, AccountsTypeOK, SomeRole
  <2>2. held' \subseteq Users \X Tenants \X Roles
    BY <1>0, <1>9, <2>1, RoleTypes DEF seed_dev_admin_role, SetRoles, AccountsTypeOK
  <2>3. QED
    BY <1>0, <1>9, <2>1, <2>2 DEF seed_dev_admin_role, AccountsTypeOK
<1>10. ASSUME NEW n \in 1..MaxSecrets, Ingest(n) PROVE AccountsTypeOK'
  <2>1. PICK c : c = verify_api_key(ApiKey(n)) /\ c.status = 200
    BY <1>10 DEF Ingest
  <2>2. PICK k \in KeyIds : keys[k] # NoKey /\ c = Allow(NoUser, keys[k].tenant, keys[k].role)
    BY <1>0, <2>1, KeyAnswers DEF lookup_api_key, NoKey
  <2>3. c.tenant \in Tenants
    BY <2>2 DEF Allow, AccountsInv, SecretsAreUnique
  <2>4. QED
    BY <1>0, <1>10, <2>1, <2>3 DEF Ingest, AccountsTypeOK
<1>11. QED
  BY <1>1, <1>2, <1>3, <1>4, <1>5, <1>6, <1>7, <1>8, <1>9, <1>10 DEF SignInStep
(* The statements of a request that has been let in.                       *)
LEMMA RequestTypes ==
    ASSUME AccountsInv, NEW r \in Requests, RequestStep(r)
    PROVE  AccountsTypeOK'
<1> USE AccountsAssumption
<1>0. AccountsTypeOK
  BY DEF AccountsInv
<1>a. Idle \in RequestType /\ req \in [Requests -> RequestType]
  BY <1>0 DEF AccountsTypeOK, RequestType, Idle, SomeUser, SomeTenant, SomeRole
<1>b. Done(r) => req' \in [Requests -> RequestType]
  BY <1>a DEF Done
<1>c. NoKey \in KeyType /\ keys \in [KeyIds -> KeyType] /\ sessions \in [SessionIds -> SessionType]
  BY <1>0 DEF AccountsTypeOK, KeyType, NoKey, SessionType, SomeTenant, SomeRole
<1>d. \A k \in KeyIds, st \in {"live", "revoked"} : [keys[k] EXCEPT !.state = st] \in KeyType
  BY <1>c DEF KeyType
<1>e. ASSUME secrets < MaxSecrets, secrets' = secrets + 1
      PROVE  secrets' \in 0..MaxSecrets
  BY <1>0, <1>e DEF AccountsTypeOK
<1>1. ASSUME NEW b \in Bearers, NEW c \in Cookies, NEW h \in Headers, Authenticate(r, b, c, h)
      PROVE  AccountsTypeOK'
  <2>1. PICK x : x = require_tenant(b, c, h) /\ x.status = 200
    BY <1>1 DEF Authenticate
  <2>2. x \in [status : {200}, user : SomeUser, tenant : Tenants, role : SomeRole]
    <3>1. b \in Tokens /\ c \in Tokens
      BY <1>0, ClientsHoldTokens
    <3>2. LET y == require_tenant(b, c, h)
          IN /\ y \in [status : {200}, user : SomeUser, tenant : Tenants, role : SomeRole]
             /\ IF y.user = NoUser THEN y.role # Admin ELSE <<y.user, y.tenant, y.role>> \in held
      BY <2>1, <3>1, DoorClaims
    <3>3. QED
      BY <2>1, <3>2
  <2>3. [Idle EXCEPT !.pc = "ready", !.user = x.user, !.tenant = x.tenant, !.role = x.role]
           \in RequestType
    BY <2>2 DEF RequestType, Idle, SomeUser, SomeTenant, SomeRole
  <2>4. req' \in [Requests -> RequestType]
    BY <1>1, <1>a, <2>1, <2>3 DEF Authenticate
  <2>5. ops' \in 0..MaxOps
    BY <1>0, <1>1 DEF Authenticate, AccountsTypeOK
  <2>6. QED
    BY <1>0, <1>1, <2>4, <2>5 DEF Authenticate, AccountsTypeOK, RequestType
<1>2. ASSUME RequestEnds(r) PROVE AccountsTypeOK'
  BY <1>0, <1>2, <1>a DEF RequestEnds, AccountsTypeOK, RequestType
<1>3. ASSUME create_token(r) PROVE AccountsTypeOK'
  <2>1. PICK k \in KeyIds :
           keys' = [keys EXCEPT ![k] = [state |-> "live", tenant |-> req[r].tenant,
                                         secret |-> secrets', role |-> "member"]]
    BY <1>3 DEF create_token
  <2>2. secrets' \in 0..MaxSecrets
    BY <1>3, <1>e DEF create_token
  <2>3. keys' \in [KeyIds -> KeyType]
    BY <1>a, <1>c, <2>1, <2>2 DEF KeyType, RequestType, SomeRole
  <2>4. QED
    BY <1>0, <1>3, <1>b, <2>2, <2>3 DEF create_token, tokenUnchanged, AccountsTypeOK, KeyType,
       RequestType
<1>4. ASSUME NEW k \in KeyIds, revoke_token(r, k) PROVE AccountsTypeOK'
  BY <1>0, <1>4, <1>b, <1>c, <1>d DEF revoke_token, tokenUnchanged, AccountsTypeOK, KeyType,
     RequestType
<1>5. ASSUME NEW k \in KeyIds, renew_token(r, k) PROVE AccountsTypeOK'
  <2>1. secrets' \in 0..MaxSecrets
    BY <1>5, <1>e DEF renew_token
  <2>2. [keys[k] EXCEPT !.state = "live", !.secret = secrets'] \in KeyType
    BY <1>c, <2>1 DEF KeyType
  <2>3. keys' \in [KeyIds -> KeyType]
    BY <1>5, <1>c, <2>2 DEF renew_token
  <2>4. keys[k].secret \in 0..MaxSecrets
    BY <1>c DEF KeyType
  <2>5. QED
    BY <1>0, <1>5, <1>b, <2>1, <2>3, <2>4 DEF renew_token, tokenUnchanged, AccountsTypeOK, KeyType,
       RequestType
<1>6. ASSUME NEW k \in KeyIds, restore_token(r, k) PROVE AccountsTypeOK'
  BY <1>0, <1>6, <1>b, <1>c, <1>d DEF restore_token, tokenUnchanged, AccountsTypeOK, KeyType,
     RequestType
<1>7. ASSUME NEW k \in KeyIds, delete_token(r, k) PROVE AccountsTypeOK'
  <2>1. keys[k].secret \in 0..MaxSecrets
    BY <1>c DEF KeyType
  <2>2. QED
    BY <1>0, <1>7, <1>b, <1>c, <2>1 DEF delete_token, tokenUnchanged, AccountsTypeOK, KeyType,
       RequestType
<1>8. ASSUME NEW u \in Users, CountAdmins(r, u) PROVE AccountsTypeOK'
  <2>1. Cardinality(AdminsOf(req[r].tenant)) \in Nat
    BY TenancyAssumption, FS_Subset, FS_CardinalityType DEF AdminsOf
  <2>2. [req[r] EXCEPT !.pc = "counted", !.target = u,
                       !.admins = Cardinality(AdminsOf(req[r].tenant))] \in RequestType
    BY <1>a, <2>1 DEF RequestType, SomeUser
  <2>3. req' \in [Requests -> RequestType]
    BY <1>8, <1>a, <2>2 DEF CountAdmins
  <2>4. QED
    BY <1>0, <1>8, <2>3 DEF CountAdmins, memberUnchanged, AccountsTypeOK, RequestType
<1>9. ASSUME NEW u \in Users, handle_revoke_sessions(r, u) PROVE AccountsTypeOK'
  <2>1. sessions' \in [SessionIds -> SessionType]
    BY <1>9, <1>c, RevokeTypes DEF handle_revoke_sessions
  <2>2. QED
    BY <1>0, <1>9, <1>b, <2>1 DEF handle_revoke_sessions, memberUnchanged, AccountsTypeOK,
       SessionType, RequestType
<1>f. ASSUME NEW u \in Users, NEW role \in SomeRole,
             SetRoles([roles EXCEPT ![<<u, req[r].tenant>>] = role])
      PROVE  /\ roles' \in [Users \X Tenants -> SomeRole]
             /\ held' \subseteq Users \X Tenants \X Roles
  <2>1. roles' \in [Users \X Tenants -> SomeRole]
    BY <1>0, <1>f DEF SetRoles, AccountsTypeOK
  <2>2. QED
    BY <1>0, <1>f, <2>1, RoleTypes DEF SetRoles, AccountsTypeOK
<1>10. ASSUME NEW u \in Users, NEW role \in Roles, handle_add_member(r, u, role)
       PROVE  AccountsTypeOK'
  <2>1. /\ roles' \in [Users \X Tenants -> SomeRole]
        /\ held' \subseteq Users \X Tenants \X Roles
    BY <1>10, <1>f DEF handle_add_member, SomeRole
  <2>2. QED
    BY <1>0, <1>10, <1>b, <2>1 DEF handle_add_member, memberUnchanged, AccountsTypeOK, RequestType
<1>11. ASSUME NEW u \in Users, NEW role \in Roles, handle_update_role(r, u, role)
       PROVE  AccountsTypeOK'
  <2>1. /\ roles' \in [Users \X Tenants -> SomeRole]
        /\ held' \subseteq Users \X Tenants \X Roles
    BY <1>11, <1>f DEF handle_update_role, SomeRole
  <2>2. QED
    BY <1>0, <1>11, <1>b, <2>1 DEF handle_update_role, memberUnchanged, AccountsTypeOK, RequestType
<1>12. ASSUME CheckTarget(r) PROVE AccountsTypeOK'
  <2>1. roles[<<req[r].target, req[r].tenant>>] \in SomeRole
    <3>1. req[r].pc = "counted" /\ req[r] # Idle
      BY <1>12 DEF CheckTarget, Idle
    <3>2. req[r].target \in Users /\ req[r].tenant \in Tenants
      BY <3>1 DEF AccountsInv, RequestsWereChecked
    <3>3. QED
      BY <1>0, <3>2 DEF AccountsTypeOK
  <2>2. PICK role \in SomeRole : role = roles[<<req[r].target, req[r].tenant>>]
    BY <2>1
  <2>3. [req[r] EXCEPT !.pc = "removing", !.targetRole = role] \in RequestType
    BY <1>a DEF RequestType
  <2>4. req' \in [Requests -> RequestType]
    BY <1>12, <1>a, <2>2, <2>3 DEF CheckTarget
  <2>5. QED
    BY <1>0, <1>12, <2>4 DEF CheckTarget, memberUnchanged, AccountsTypeOK, RequestType
<1>13. ASSUME RemoveMember(r) PROVE AccountsTypeOK'
  <2>1. sessions' \in [SessionIds -> SessionType]
    BY <1>13, <1>c, RevokeTypes DEF RemoveMember
  <2>2. req[r].target \in Users
    BY <1>13 DEF RemoveMember, AccountsInv, RequestsWereChecked
  <2>3. /\ roles' \in [Users \X Tenants -> SomeRole]
        /\ held' \subseteq Users \X Tenants \X Roles
    BY <1>13, <1>f, <2>2 DEF RemoveMember, SomeRole
  <2>4. QED
    BY <1>0, <1>13, <1>b, <2>1, <2>3 DEF RemoveMember, memberUnchanged, AccountsTypeOK,
       SessionType, RequestType
<1>14. ASSUME NEW c \in Configs, handle_update_tenant_config(r, c) PROVE AccountsTypeOK'
  BY <1>0, <1>14, <1>b DEF handle_update_tenant_config, AccountsTypeOK, RequestType
<1>15. ASSUME PurgeTelemetry(r) PROVE AccountsTypeOK'
  <2>1. [req[r] EXCEPT !.pc = "purging"] \in RequestType
    BY <1>a DEF RequestType
  <2>2. req' \in [Requests -> RequestType]
    BY <1>15, <1>a, <2>1 DEF PurgeTelemetry
  <2>3. QED
    BY <1>0, <1>15, <2>2 DEF PurgeTelemetry, AccountsTypeOK, RequestType
<1>16. ASSUME PurgeRecords(r) PROVE AccountsTypeOK'
  <2>1. roles' \in [Users \X Tenants -> SomeRole]
    BY <1>0, <1>16 DEF PurgeRecords, AccountsTypeOK, SomeRole
  <2>2. sessions' \in [SessionIds -> SessionType]
    BY <1>16, <1>c DEF PurgeRecords, SessionType
  <2>3. keys' \in [KeyIds -> KeyType]
    BY <1>16, <1>c DEF PurgeRecords
  <2>4. \A k \in KeyIds : keys[k].secret \in 0..MaxSecrets
    BY <1>c DEF KeyType
  <2>5. retired' \subseteq 0..MaxSecrets
    BY <1>0, <1>16, <2>4 DEF PurgeRecords, AccountsTypeOK
  <2>6. QED
    BY <1>0, <1>16, <1>b, <2>1, <2>2, <2>3, <2>5
    DEF PurgeRecords, AccountsTypeOK, SessionType, KeyType, RequestType
<1>17. QED
  BY <1>1, <1>2, <1>3, <1>4, <1>5, <1>6, <1>7, <1>8, <1>9, <1>10, <1>11, <1>12, <1>13, <1>14,
     <1>15, <1>16 DEF RequestStep
(* What a step may do to a session that is there: end it.                  *)
MayEnd(s) ==
    \/ sessions'[s] = sessions[s]
    \/ /\ sessions[s] # NoSession
       /\ \E st \in {"revoked", "gone"} : sessions'[s] = [sessions[s] EXCEPT !.state = st]

(* A revocation changes a session only by ending it.                       *)
LEMMA RevokeEnds ==
    ASSUME AccountsTypeOK, NEW u, NEW t, sessions' = Revoke(sessions, u, t), NEW s \in SessionIds
    PROVE  MayEnd(s)
<1>1. CASE sessions'[s] = sessions[s]
  BY <1>1 DEF MayEnd
<1>2. CASE sessions'[s] # sessions[s]
  <2>1. sessions[s].state = "active" /\ sessions'[s] = [sessions[s] EXCEPT !.state = "revoked"]
    BY <1>2 DEF Revoke
  <2>2. sessions[s] # NoSession
    BY <2>1 DEF NoSession
  <2>3. QED
    BY <2>1, <2>2 DEF MayEnd
<1>3. QED
  BY <1>1, <1>2

(* What a session keeps when it ends.                                      *)
LEMMA EndKeepsClaims ==
    ASSUME AccountsTypeOK, NEW s \in SessionIds, MayEnd(s)
    PROVE  /\ sessions[s] = NoSession => sessions'[s] = NoSession
           /\ sessions'[s] # NoSession => sessions[s] # NoSession
           /\ sessions'[s].user = sessions[s].user /\ sessions'[s].tenant = sessions[s].tenant
           /\ sessions'[s].role = sessions[s].role
<1>1. sessions[s] \in SessionType
  BY DEF AccountsTypeOK, SessionType
<1>2. QED
  BY <1>1 DEF MayEnd, SessionType

(* What a request leaves alone.                                            *)
LEMMA RequestFrame ==
    ASSUME AccountsInv, NEW r \in Requests, RequestStep(r)
    PROVE  /\ UNCHANGED <<users, devMode, logins, cookie, authorized, signin>>
           /\ held \subseteq held'
           /\ \A q \in Requests \ {r} : req'[q] = req[q]
           /\ \A s \in SessionIds : MayEnd(s)
<1>0. AccountsTypeOK /\ (UNCHANGED sessions => \A s \in SessionIds : MayEnd(s))
  BY DEF AccountsInv, MayEnd
<1>1. ASSUME NEW b \in Bearers, NEW c \in Cookies, NEW h \in Headers, Authenticate(r, b, c, h)
      PROVE  /\ UNCHANGED <<users, devMode, logins, cookie, authorized, signin, sessions, held>>
             /\ \A q \in Requests \ {r} : req'[q] = req[q]
  BY <1>0, <1>1 DEF Authenticate, AccountsTypeOK
<1>2. ASSUME \/ RequestEnds(r) \/ create_token(r)
             \/ \E k \in KeyIds : \/ revoke_token(r, k) \/ renew_token(r, k)
                                 \/ restore_token(r, k) \/ delete_token(r, k)
             \/ \E c \in Configs : handle_update_tenant_config(r, c)
             \/ PurgeTelemetry(r)
      PROVE  /\ UNCHANGED <<users, devMode, logins, cookie, authorized, signin, sessions, held>>
             /\ \A q \in Requests \ {r} : req'[q] = req[q]
  BY <1>0, <1>2 DEF RequestEnds, create_token, revoke_token, renew_token, restore_token,
     delete_token, handle_update_tenant_config, PurgeTelemetry, tokenUnchanged, Done, AccountsTypeOK
<1>3. ASSUME \/ \E u \in Users : CountAdmins(r, u)
             \/ CheckTarget(r)
             \/ \E u \in Users, role \in Roles : handle_add_member(r, u, role)
             \/ \E u \in Users, role \in Roles : handle_update_role(r, u, role)
      PROVE  /\ UNCHANGED <<users, devMode, logins, cookie, authorized, signin, sessions>>
             /\ held \subseteq held'
             /\ \A q \in Requests \ {r} : req'[q] = req[q]
  BY <1>0, <1>3 DEF CountAdmins, CheckTarget, handle_add_member, handle_update_role, SetRoles,
     memberUnchanged, Done, AccountsTypeOK
<1>4. ASSUME NEW u \in Users, handle_revoke_sessions(r, u)
      PROVE  /\ UNCHANGED <<users, devMode, logins, cookie, authorized, signin, held>>
             /\ \A s \in SessionIds : MayEnd(s)
             /\ \A q \in Requests \ {r} : req'[q] = req[q]
  BY <1>0, <1>4, RevokeEnds DEF handle_revoke_sessions, memberUnchanged, Done, AccountsTypeOK
<1>5. ASSUME RemoveMember(r)
      PROVE  /\ UNCHANGED <<users, devMode, logins, cookie, authorized, signin>>
             /\ held \subseteq held'
             /\ \A s \in SessionIds : MayEnd(s)
             /\ \A q \in Requests \ {r} : req'[q] = req[q]
  BY <1>0, <1>5, RevokeEnds DEF RemoveMember, SetRoles, memberUnchanged, Done, AccountsTypeOK
<1>6. ASSUME PurgeRecords(r)
      PROVE  /\ UNCHANGED <<users, devMode, logins, cookie, authorized, signin, held>>
             /\ \A s \in SessionIds : MayEnd(s)
             /\ \A q \in Requests \ {r} : req'[q] = req[q]
  <2>1. PICK t \in Tenants : t = req[r].tenant
    BY <1>0, <1>6 DEF PurgeRecords, AccountsTypeOK
  <2>2. ASSUME NEW s \in SessionIds PROVE MayEnd(s)
    <3>1. CASE sessions[s].tenant = t
      <4>1. sessions[s] # NoSession
        BY <3>1, TenancyAssumption DEF NoSession
      <4>2. sessions'[s] = [sessions[s] EXCEPT !.state = "gone"]
        BY <1>6, <2>1, <3>1 DEF PurgeRecords
      <4>3. QED
        BY <4>1, <4>2 DEF MayEnd
    <3>2. CASE sessions[s].tenant # t
      BY <1>6, <2>1, <3>2 DEF PurgeRecords, MayEnd
    <3>3. QED
      BY <3>1, <3>2
  <2>3. QED
    BY <1>0, <1>6, <2>2 DEF PurgeRecords, Done, AccountsTypeOK
<1>7. QED
  BY <1>0, <1>1, <1>2, <1>3, <1>4, <1>5, <1>6 DEF RequestStep

(* What a sign-in leaves alone.                                            *)
LEMMA SignInFrame ==
    ASSUME AccountsInv, SignInStep
    PROVE  /\ UNCHANGED <<tenants, config, keys, secrets, devMode, req, ops, retired>>
           /\ users \subseteq users' /\ held \subseteq held'
  BY DEF SignInStep, login_handler, CallbackRejected, CallbackNoAccess, CallbackChooses,
     CallbackSigns, CallbackFails, logout_handler, SessionExpires, seed_dev_admin_role, Ingest,
     login_error_redirect, upsert_user, SetRoles
(* A step that signs nobody in keeps the sign-ins in order.                *)
LEMMA SignInsKept ==
    ASSUME AccountsInv, logins' = logins, authorized' \subseteq authorized, signin' = signin,
           \A s \in SessionIds : sessions[s] = NoSession => sessions'[s] = NoSession
    PROVE  SignInsOnce'
<1>1. \A a \in authorized' : a \in authorized /\ a[2] \in SessionIds
  BY DEF AccountsInv, AccountsTypeOK
<1>2. QED
  BY <1>1 DEF AccountsInv, SignInsOnce

(* No step of a sign-in lets one authorization open two sessions.          *)
LEMMA SignInsStep ==
    ASSUME AccountsInv, SignInStep
    PROVE  SignInsOnce'
<1> USE AccountsAssumption
<1>0. AccountsTypeOK /\ SignInsOnce
  BY DEF AccountsInv
<1>a. /\ logins \in Nat /\ SessionIds = 1..MaxLogins
      /\ \A a \in authorized : a[2] \in SessionIds
  BY <1>0 DEF AccountsTypeOK, SessionIds
<1>1. ASSUME NEW u \in Users, login_handler(u) PROVE SignInsOnce'
  <2>1. PICK n : /\ n = logins + 1 /\ n \in SessionIds /\ logins' = n
                 /\ authorized' = authorized \union {<<u, n>>}
                 /\ UNCHANGED <<signin, sessions>>
    BY <1>1, <1>a DEF login_handler
  <2>2. signin[n] = NoSignin /\ sessions[n] = NoSession
    BY <1>0, <1>a, <2>1 DEF SignInsOnce
  <2>3. \A a \in authorized : a[2] <= logins /\ a[2] # n /\ a[2] <= n
    BY <1>0, <1>a, <2>1 DEF SignInsOnce
  <2>4. \A s \in SessionIds : s > n => s > logins
    BY <1>a, <2>1
  <2>5. QED
    BY <1>0, <1>a, <2>1, <2>2, <2>3, <2>4 DEF SignInsOnce
<1>2. ASSUME NEW u \in Users, NEW n \in SessionIds,
             CallbackRejected(u, n) \/ CallbackNoAccess(u, n)
      PROVE  SignInsOnce'
  BY <1>2, SignInsKept DEF CallbackRejected, CallbackNoAccess, login_error_redirect
<1>3. ASSUME NEW u \in Users, NEW n \in SessionIds, NEW t \in Tenants, CallbackChooses(u, n, t)
      PROVE  SignInsOnce'
  <2>1. /\ <<u, n>> \in authorized /\ authorized' = authorized \ {<<u, n>>}
        /\ UNCHANGED <<logins, sessions>>
        /\ \A s \in SessionIds \ {n} : signin'[s] = signin[s]
    BY <1>0, <1>3 DEF CallbackChooses, AccountsTypeOK
  <2>2. PICK a \in authorized : a = <<u, n>>
    BY <2>1
  <2>3. a[2] = n
    BY <2>2
  <2>4. n <= logins /\ sessions[n] = NoSession
    BY <1>0, <2>3 DEF SignInsOnce
  <2>5. ASSUME NEW b \in authorized' PROVE b \in authorized /\ b[2] # n /\ b[2] \in SessionIds
    <3>1. b \in authorized /\ b # a
      BY <2>1, <2>2, <2>5
    <3>2. b[2] # n
      BY <1>0, <2>3, <3>1 DEF SignInsOnce
    <3>3. QED
      BY <1>a, <3>1, <3>2
  <2>6. \A b \in authorized' :
           b[2] <= logins' /\ signin'[b[2]] = NoSignin /\ sessions'[b[2]] = NoSession
    BY <1>0, <2>1, <2>5 DEF SignInsOnce
  <2>7. \A b, c \in authorized' : b[2] = c[2] => b = c
    BY <1>0, <2>5 DEF SignInsOnce
  <2>8. \A s \in SessionIds : s > logins' => signin'[s] = NoSignin /\ sessions'[s] = NoSession
    BY <1>0, <1>a, <2>1, <2>4 DEF SignInsOnce
  <2>9. \A s \in SessionIds : signin'[s] # NoSignin => sessions'[s] = NoSession
    BY <1>0, <2>1, <2>4 DEF SignInsOnce
  <2>10. QED
    BY <2>6, <2>7, <2>8, <2>9 DEF SignInsOnce
<1>4. ASSUME NEW n \in SessionIds, CallbackSigns(n) \/ CallbackFails(n)
      PROVE  SignInsOnce'
  <2>1. /\ signin[n] # NoSignin /\ UNCHANGED <<logins, authorized>>
        /\ signin' = [signin EXCEPT ![n] = NoSignin]
        /\ \A s \in SessionIds \ {n} : sessions'[s] = sessions[s]
    BY <1>0, <1>4 DEF CallbackSigns, CallbackFails, create_session, AccountsTypeOK
  <2>2. n <= logins /\ \A a \in authorized : a[2] # n
    BY <1>0, <1>a, <2>1 DEF SignInsOnce
  <2>3. signin'[n] = NoSignin /\ \A s \in SessionIds \ {n} : signin'[s] = signin[s]
    BY <1>0, <2>1 DEF AccountsTypeOK
  <2>4. ~(n > logins)
    BY <1>a, <2>2
  <2>5. QED
    BY <1>0, <1>a, <2>1, <2>2, <2>3, <2>4 DEF SignInsOnce
<1>5. ASSUME NEW n \in SessionIds, logout_handler(n) PROVE SignInsOnce'
  <2>1. \A s \in SessionIds : sessions[s] = NoSession => sessions'[s] = NoSession
    BY <1>0, <1>5, RevokeEnds, EndKeepsClaims DEF logout_handler
  <2>2. QED
    BY <1>5, <2>1, SignInsKept DEF logout_handler
<1>6. ASSUME NEW n \in SessionIds, SessionExpires(n) PROVE SignInsOnce'
  <2>1. sessions[n] # NoSession
    BY <1>6 DEF SessionExpires, NoSession
  <2>2. QED
    BY <1>0, <1>6, <2>1, SignInsKept DEF SessionExpires, AccountsTypeOK
<1>7. ASSUME seed_dev_admin_role \/ \E n \in 1..MaxSecrets : Ingest(n)
      PROVE  SignInsOnce'
  BY <1>7, SignInsKept DEF seed_dev_admin_role, Ingest
<1>8. QED
  BY <1>1, <1>2, <1>3, <1>4, <1>5, <1>6, <1>7 DEF SignInStep

(* Memberships are remembered when they are made.                          *)
LEMMA HeldMembers ==
    ASSUME NEW rs, SetRoles(rs), NEW m \in Users \X Tenants, rs[m] # NoRole
    PROVE  <<m[1], m[2], rs[m]>> \in held'
  BY DEF SetRoles, Memberships

(* Sessions and sign-ins that stay, or end, keep claims that were held.    *)
LEMMA ClaimsKept ==
    ASSUME AccountsInv, held \subseteq held', signin' = signin, \A s \in SessionIds : MayEnd(s),
           \A m \in Users \X Tenants :
              roles'[m] # NoRole => m[1] \in users' /\ <<m[1], m[2], roles'[m]>> \in held'
    PROVE  ClaimsWereHeld'
<1>1. AccountsTypeOK /\ ClaimsWereHeld
  BY DEF AccountsInv
<1>2. QED
  BY <1>1, EndKeepsClaims DEF ClaimsWereHeld

(* No step of a sign-in gives a session a role that its user never held.   *)
LEMMA ClaimsStep ==
    ASSUME AccountsInv, SignInStep
    PROVE  ClaimsWereHeld'
<1> USE AccountsAssumption
<1>0. AccountsTypeOK /\ ClaimsWereHeld
  BY DEF AccountsInv
<1>1. UNCHANGED sessions => \A s \in SessionIds : MayEnd(s)
  BY DEF MayEnd
<1>2. users \subseteq users' /\ held \subseteq held'
  BY SignInFrame
<1>3. UNCHANGED roles => \A m \in Users \X Tenants :
         roles'[m] # NoRole => m[1] \in users' /\ <<m[1], m[2], roles'[m]>> \in held'
  BY <1>0, <1>2 DEF ClaimsWereHeld
<1>4. ASSUME \/ \E u \in Users : login_handler(u)
             \/ \E u \in Users, n \in SessionIds : CallbackRejected(u, n)
             \/ \E u \in Users, n \in SessionIds : CallbackNoAccess(u, n)
             \/ \E n \in 1..MaxSecrets : Ingest(n)
      PROVE  ClaimsWereHeld'
  <2>1. UNCHANGED <<sessions, signin, roles>>
    BY <1>4 DEF login_handler, CallbackRejected, CallbackNoAccess, login_error_redirect, Ingest
  <2>2. QED
    BY <1>1, <1>2, <1>3, <2>1, ClaimsKept
<1>5. ASSUME NEW u \in Users, NEW n \in SessionIds, NEW t \in Tenants, CallbackChooses(u, n, t)
      PROVE  ClaimsWereHeld'
  <2>1. /\ SetRoles(SeededRoles(u)) /\ users' = users \union {u} /\ sessions' = sessions
        /\ signin' = [signin EXCEPT ![n] = [user |-> u, tenant |-> t, role |-> roles'[<<u, t>>]]]
        /\ roles' = SeededRoles(u)
        /\ SeededRoles(u)[<<u, t>>] # NoRole
    BY <1>5 DEF CallbackChooses, upsert_user, SetRoles, list_user_tenants
  <2>2. ASSUME NEW m \in Users \X Tenants, roles'[m] # NoRole
        PROVE  m[1] \in users' /\ <<m[1], m[2], roles'[m]>> \in held'
    <3>1. m[1] = u \/ roles'[m] = roles[m]
      BY <2>1 DEF SeededRoles
    <3>2. m[1] \in users'
      BY <1>0, <2>1, <2>2, <3>1 DEF ClaimsWereHeld
    <3>3. QED
      BY <2>1, <2>2, <3>2, HeldMembers
  <2>3. <<u, t, roles'[<<u, t>>]>> \in held'
    <3>1. PICK m \in Users \X Tenants : m = <<u, t>>
      OBVIOUS
    <3>2. <<m[1], m[2], roles'[m]>> \in held'
      BY <2>1, <2>2, <3>1
    <3>3. QED
      BY <3>1, <3>2
  <2>4. /\ signin'[n].user = u /\ signin'[n].tenant = t /\ signin'[n].role = roles'[<<u, t>>]
        /\ \A s \in SessionIds \ {n} : signin'[s] = signin[s]
    BY <1>0, <2>1 DEF AccountsTypeOK
  <2>5. QED
    BY <1>0, <1>2, <2>1, <2>2, <2>3, <2>4 DEF ClaimsWereHeld
<1>6. ASSUME NEW n \in SessionIds, CallbackSigns(n) PROVE ClaimsWereHeld'
  <2>1. /\ signin[n] # NoSignin /\ roles' = roles /\ held' = held /\ users' = users
        /\ sessions' = [sessions EXCEPT ![n] = sign_session_jwt(signin[n])]
        /\ signin' = [signin EXCEPT ![n] = NoSignin]
    BY <1>6 DEF CallbackSigns, create_session
  <2>2. <<signin[n].user, signin[n].tenant, signin[n].role>> \in held
    BY <1>0, <2>1 DEF ClaimsWereHeld
  <2>3. /\ sessions'[n].user = signin[n].user /\ sessions'[n].tenant = signin[n].tenant
        /\ sessions'[n].role = signin[n].role
        /\ \A s \in SessionIds \ {n} : sessions'[s] = sessions[s]
        /\ signin'[n] = NoSignin /\ \A s \in SessionIds \ {n} : signin'[s] = signin[s]
    BY <1>0, <2>1 DEF AccountsTypeOK, sign_session_jwt
  <2>4. QED
    BY <1>0, <1>3, <2>1, <2>2, <2>3 DEF ClaimsWereHeld
<1>7. ASSUME NEW n \in SessionIds, CallbackFails(n) PROVE ClaimsWereHeld'
  <2>1. /\ UNCHANGED <<roles, held, users, sessions>>
        /\ signin' = [signin EXCEPT ![n] = NoSignin]
    BY <1>7 DEF CallbackFails
  <2>2. signin'[n] = NoSignin /\ \A s \in SessionIds \ {n} : signin'[s] = signin[s]
    BY <1>0, <2>1 DEF AccountsTypeOK
  <2>3. ASSUME NEW s \in SessionIds
        PROVE  /\ sessions'[s] # NoSession =>
                     <<sessions'[s].user, sessions'[s].tenant, sessions'[s].role>> \in held'
               /\ signin'[s] # NoSignin =>
                     <<signin'[s].user, signin'[s].tenant, signin'[s].role>> \in held'
    <3>1. /\ sessions[s] # NoSession =>
               <<sessions[s].user, sessions[s].tenant, sessions[s].role>> \in held
          /\ signin[s] # NoSignin =>
               <<signin[s].user, signin[s].tenant, signin[s].role>> \in held
      BY <1>0 DEF ClaimsWereHeld
    <3>2. sessions'[s] = sessions[s] /\ held' = held
      BY <2>1
    <3>3. signin'[s] = NoSignin \/ signin'[s] = signin[s]
      BY <2>2
    <3>4. QED
      BY <3>1, <3>2, <3>3
  <2>4. QED
    BY <1>3, <2>1, <2>3 DEF ClaimsWereHeld
<1>8. ASSUME NEW n \in SessionIds, logout_handler(n) PROVE ClaimsWereHeld'
  <2>1. UNCHANGED <<roles, signin>> /\ \A s \in SessionIds : MayEnd(s)
    BY <1>0, <1>8, RevokeEnds DEF logout_handler
  <2>2. QED
    BY <1>2, <1>3, <2>1, ClaimsKept
<1>9. ASSUME NEW n \in SessionIds, SessionExpires(n) PROVE ClaimsWereHeld'
  <2>1. UNCHANGED <<roles, signin, held, users>>
    BY <1>9 DEF SessionExpires
  <2>2. sessions[n] # NoSession /\ sessions[n] \in SessionType
    BY <1>0, <1>9 DEF SessionExpires, NoSession, AccountsTypeOK, SessionType
  <2>3. /\ sessions'[n].user = sessions[n].user /\ sessions'[n].tenant = sessions[n].tenant
        /\ sessions'[n].role = sessions[n].role
        /\ \A s \in SessionIds \ {n} : sessions'[s] = sessions[s]
    BY <1>0, <1>9, <2>2 DEF SessionExpires, SessionType, AccountsTypeOK
  <2>4. QED
    BY <1>0, <1>3, <2>1, <2>2, <2>3 DEF ClaimsWereHeld
<1>10. ASSUME seed_dev_admin_role PROVE ClaimsWereHeld'
  <2>1. PICK rs : /\ rs = [m \in Users \X Tenants |->
                            IF m[1] = Founder /\ roles[m] = NoRole THEN Admin ELSE roles[m]]
                  /\ SetRoles(rs) /\ roles' = rs
                  /\ Founder \in users /\ UNCHANGED <<users, sessions, signin>>
    BY <1>10 DEF seed_dev_admin_role, SetRoles
  <2>2. ASSUME NEW m \in Users \X Tenants, roles'[m] # NoRole
        PROVE  m[1] \in users' /\ <<m[1], m[2], roles'[m]>> \in held'
    <3>1. m[1] = Founder \/ roles'[m] = roles[m]
      BY <2>1
    <3>2. m[1] \in users'
      BY <1>0, <2>1, <2>2, <3>1 DEF ClaimsWereHeld
    <3>3. QED
      BY <2>1, <2>2, <3>2, HeldMembers
  <2>3. QED
    BY <1>1, <1>2, <2>1, <2>2, ClaimsKept
<1>11. QED
  BY <1>4, <1>5, <1>6, <1>7, <1>8, <1>9, <1>10 DEF SignInStep
(* A request that changes memberships remembers those it makes.            *)
LEMMA RequestRoles ==
    ASSUME AccountsInv, NEW r \in Requests, RequestStep(r)
    PROVE  \A m \in Users \X Tenants :
              roles'[m] # NoRole => m[1] \in users' /\ <<m[1], m[2], roles'[m]>> \in held'
<1> USE AccountsAssumption
<1>0. /\ AccountsTypeOK /\ ClaimsWereHeld /\ users' = users /\ held \subseteq held'
  BY RequestFrame DEF AccountsInv
<1> SUFFICES ASSUME NEW m \in Users \X Tenants, roles'[m] # NoRole
             PROVE  m[1] \in users /\ <<m[1], m[2], roles'[m]>> \in held'
  BY <1>0
<1>1. CASE roles'[m] = roles[m]
  BY <1>0, <1>1 DEF ClaimsWereHeld
<1>2. CASE roles'[m] # roles[m]
  <2>1. ASSUME \/ \E b \in Bearers, c \in Cookies, h \in Headers : Authenticate(r, b, c, h)
               \/ RequestEnds(r) \/ create_token(r)
               \/ \E k \in KeyIds : \/ revoke_token(r, k) \/ renew_token(r, k)
                                   \/ restore_token(r, k) \/ delete_token(r, k)
               \/ \E u \in Users : CountAdmins(r, u) \/ handle_revoke_sessions(r, u)
               \/ CheckTarget(r)
               \/ \E c \in Configs : handle_update_tenant_config(r, c)
               \/ PurgeTelemetry(r)
        PROVE  roles' = roles
    BY <2>1 DEF Authenticate, RequestEnds, create_token, revoke_token, renew_token,
       restore_token, delete_token, CountAdmins, handle_revoke_sessions, CheckTarget,
       handle_update_tenant_config, PurgeTelemetry, tokenUnchanged, memberUnchanged
  <2>2. ASSUME NEW u \in Users, NEW role \in Roles, handle_add_member(r, u, role)
        PROVE  m[1] \in users /\ <<m[1], m[2], roles'[m]>> \in held'
    <3>1. /\ u \in users /\ roles' = [roles EXCEPT ![<<u, req[r].tenant>>] = role]
          /\ SetRoles(roles')
      BY <2>2 DEF handle_add_member, SetRoles
    <3>2. m = <<u, req[r].tenant>>
      BY <1>0, <1>2, <3>1 DEF AccountsTypeOK
    <3>3. QED
      BY <3>1, <3>2, HeldMembers
  <2>3. ASSUME NEW u \in Users, NEW role \in Roles, handle_update_role(r, u, role)
        PROVE  m[1] \in users /\ <<m[1], m[2], roles'[m]>> \in held'
    <3>1. /\ roles[<<u, req[r].tenant>>] # NoRole
          /\ roles' = [roles EXCEPT ![<<u, req[r].tenant>>] = role]
          /\ SetRoles(roles')
      BY <2>3 DEF handle_update_role, SetRoles
    <3>2. m = <<u, req[r].tenant>>
      BY <1>0, <1>2, <3>1 DEF AccountsTypeOK
    <3>3. m[1] \in users
      BY <1>0, <3>1, <3>2 DEF ClaimsWereHeld
    <3>4. QED
      BY <3>1, <3>3, HeldMembers
  <2>4. ASSUME RemoveMember(r) PROVE FALSE
    BY <1>0, <1>2, <2>4 DEF RemoveMember, SetRoles, AccountsTypeOK
  <2>5. ASSUME PurgeRecords(r) PROVE FALSE
    BY <1>0, <1>2, <2>5 DEF PurgeRecords, AccountsTypeOK
  <2>6. QED
    BY <1>2, <2>1, <2>2, <2>3, <2>4, <2>5 DEF RequestStep
<1>3. QED
  BY <1>1, <1>2

(* Only the token statements and the purge change keys.                    *)
LEMMA SecretsKept ==
    ASSUME AccountsInv, UNCHANGED <<keys, secrets, retired>>
    PROVE  SecretsAreUnique'
  BY DEF AccountsInv, SecretsAreUnique

(* No step of a request makes a secret a second time.                      *)
LEMMA SecretsStep ==
    ASSUME AccountsInv, NEW r \in Requests, RequestStep(r)
    PROVE  SecretsAreUnique'
<1> USE AccountsAssumption
<1>0. AccountsTypeOK /\ SecretsAreUnique /\ RequestsWereChecked /\ secrets \in Nat
  BY DEF AccountsInv, AccountsTypeOK
<1>a. \A k \in KeyIds : keys[k] \in KeyType
  BY <1>0 DEF AccountsTypeOK, KeyType
<1>1. ASSUME \/ \E b \in Bearers, c \in Cookies, h \in Headers : Authenticate(r, b, c, h)
             \/ RequestEnds(r)
             \/ \E u \in Users : CountAdmins(r, u) \/ handle_revoke_sessions(r, u)
             \/ \E u \in Users, role \in Roles : handle_add_member(r, u, role)
             \/ \E u \in Users, role \in Roles : handle_update_role(r, u, role)
             \/ CheckTarget(r) \/ RemoveMember(r)
             \/ \E c \in Configs : handle_update_tenant_config(r, c)
             \/ PurgeTelemetry(r)
      PROVE  SecretsAreUnique'
  <2>1. UNCHANGED <<keys, secrets, retired>>
    BY <1>1 DEF Authenticate, RequestEnds, CountAdmins, handle_revoke_sessions, handle_add_member,
       handle_update_role, CheckTarget, RemoveMember, handle_update_tenant_config, PurgeTelemetry,
       memberUnchanged
  <2>2. QED
    BY <2>1, SecretsKept
<1>2. ASSUME create_token(r) PROVE SecretsAreUnique'
  <2>1. PICK k \in KeyIds :
           /\ keys[k] = NoKey /\ secrets' = secrets + 1 /\ retired' = retired
           /\ keys' = [keys EXCEPT ![k] = [state |-> "live", tenant |-> req[r].tenant,
                                         secret |-> secrets', role |-> "member"]]
    BY <1>2 DEF create_token
  <2>2. req[r].tenant \in Tenants
    BY <1>0, <1>2 DEF create_token, require_admin, RequestsWereChecked, Idle
  <2>3. /\ keys'[k].secret = secrets + 1 /\ keys'[k].tenant \in Tenants /\ keys'[k].role = "member"
        /\ \A j \in KeyIds \ {k} : keys'[j] = keys[j]
    BY <1>0, <2>1, <2>2 DEF AccountsTypeOK
  <2>4. /\ \A j \in KeyIds : keys[j] # NoKey => keys[j].secret \in 1..secrets
        /\ \A x \in 1..secrets : x # secrets + 1 /\ x \in 1..(secrets + 1)
        /\ secrets + 1 \in 1..(secrets + 1) /\ secrets + 1 \notin retired
    BY <1>0 DEF SecretsAreUnique
  <2>5. QED
    BY <1>0, <2>1, <2>3, <2>4 DEF SecretsAreUnique
<1>3. ASSUME NEW k \in KeyIds, NEW st \in {"live", "revoked"}, keys[k] # NoKey,
             keys' = [keys EXCEPT ![k].state = st], UNCHANGED <<secrets, retired>>
      PROVE  SecretsAreUnique'
  <2>1. /\ keys'[k].secret = keys[k].secret /\ keys'[k].tenant = keys[k].tenant
        /\ keys'[k].role = keys[k].role
        /\ \A j \in KeyIds \ {k} : keys'[j] = keys[j]
    BY <1>0, <1>a, <1>3 DEF AccountsTypeOK, KeyType
  <2>2. QED
    BY <1>0, <1>3, <2>1 DEF SecretsAreUnique
<1>4. ASSUME NEW k \in KeyIds, revoke_token(r, k) PROVE SecretsAreUnique'
  BY <1>3, <1>4 DEF revoke_token, OwnKey
<1>5. ASSUME NEW k \in KeyIds, restore_token(r, k) PROVE SecretsAreUnique'
  BY <1>3, <1>5 DEF restore_token, OwnKey
<1>6. ASSUME NEW k \in KeyIds, renew_token(r, k) PROVE SecretsAreUnique'
  <2>1. /\ keys[k] # NoKey /\ secrets' = secrets + 1 /\ retired' = retired \union {keys[k].secret}
        /\ keys' = [keys EXCEPT ![k] = [@ EXCEPT !.state = "live", !.secret = secrets']]
    BY <1>6 DEF renew_token, OwnKey
  <2>2. /\ keys'[k].secret = secrets + 1 /\ keys'[k].tenant = keys[k].tenant
        /\ keys'[k].role = keys[k].role
        /\ \A j \in KeyIds \ {k} : keys'[j] = keys[j]
    BY <1>0, <1>a, <2>1 DEF AccountsTypeOK, KeyType
  <2>3. /\ \A j \in KeyIds : keys[j] # NoKey => keys[j].secret \in 1..secrets
        /\ \A x \in 1..secrets : x # secrets + 1 /\ x \in 1..(secrets + 1)
        /\ secrets + 1 \in 1..(secrets + 1) /\ secrets + 1 \notin retired
        /\ keys[k].secret \in 1..secrets
    BY <1>0, <2>1 DEF SecretsAreUnique
  <2>4. retired' \subseteq 1..secrets'
    BY <1>0, <2>1, <2>3 DEF SecretsAreUnique
  <2>5. ASSUME NEW j \in KeyIds, keys'[j] # NoKey
        PROVE  /\ keys'[j].secret \in 1..secrets' /\ keys'[j].secret \notin retired'
               /\ keys'[j].tenant \in Tenants /\ keys'[j].role = "member"
    <3>1. CASE j = k
      BY <1>0, <2>1, <2>2, <2>3, <3>1 DEF SecretsAreUnique
    <3>2. CASE j # k
      BY <1>0, <2>1, <2>2, <2>3, <2>5, <3>2 DEF SecretsAreUnique
    <3>3. QED
      BY <3>1, <3>2
  <2>6. \A i, j \in KeyIds : i # j /\ keys'[i] # NoKey /\ keys'[j] # NoKey
                               => keys'[i].secret # keys'[j].secret
    BY <1>0, <2>2, <2>3 DEF SecretsAreUnique
  <2>7. QED
    BY <2>4, <2>5, <2>6 DEF SecretsAreUnique
<1>7. ASSUME NEW k \in KeyIds, delete_token(r, k) PROVE SecretsAreUnique'
  <2>1. /\ keys[k] # NoKey /\ secrets' = secrets /\ retired' = retired \union {keys[k].secret}
        /\ keys' = [keys EXCEPT ![k] = NoKey]
    BY <1>7 DEF delete_token, OwnKey
  <2>2. keys'[k] = NoKey /\ \A j \in KeyIds \ {k} : keys'[j] = keys[j]
    BY <1>0, <2>1 DEF AccountsTypeOK
  <2>3. keys[k].secret \in 1..secrets /\ retired' \subseteq 1..secrets
    BY <1>0, <2>1 DEF SecretsAreUnique
  <2>4. ASSUME NEW j \in KeyIds, keys'[j] # NoKey
        PROVE  /\ keys'[j].secret \in 1..secrets' /\ keys'[j].secret \notin retired'
               /\ keys'[j].tenant \in Tenants /\ keys'[j].role = "member"
    BY <1>0, <2>1, <2>2, <2>4 DEF SecretsAreUnique
  <2>5. \A i, j \in KeyIds : i # j /\ keys'[i] # NoKey /\ keys'[j] # NoKey
                               => keys'[i].secret # keys'[j].secret
    BY <1>0, <2>2 DEF SecretsAreUnique
  <2>6. QED
    BY <2>1, <2>3, <2>4, <2>5 DEF SecretsAreUnique
<1>8. ASSUME PurgeRecords(r) PROVE SecretsAreUnique'
  <2>1. PICK t \in Tenants :
           /\ keys' = [k \in KeyIds |-> IF keys[k].tenant = t THEN NoKey ELSE keys[k]]
           /\ retired' = retired \union {keys[k].secret : k \in {i \in KeyIds : keys[i].tenant = t}}
           /\ secrets' = secrets
    BY <1>0, <1>8 DEF PurgeRecords, AccountsTypeOK
  <2>2. \A k \in KeyIds : keys[k].tenant = t => keys[k] # NoKey
    BY TenancyAssumption DEF NoKey
  <2>3. \A k \in KeyIds :
           keys'[k] # NoKey => keys'[k] = keys[k] /\ keys[k].tenant # t
    BY <2>1
  <2>4. retired' \subseteq 1..secrets
    BY <1>0, <2>1, <2>2 DEF SecretsAreUnique
  <2>5. \A k \in KeyIds : keys'[k] # NoKey => keys[k].secret \notin retired'
    BY <1>0, <2>1, <2>2, <2>3 DEF SecretsAreUnique
  <2>6. QED
    BY <1>0, <2>1, <2>3, <2>4, <2>5 DEF SecretsAreUnique
<1>9. QED
  BY <1>1, <1>2, <1>4, <1>5, <1>6, <1>7, <1>8 DEF RequestStep

(* What the claims of a request and its checks become: those of the others *)
(* stay, and a request that ends has none.                                 *)
LEMMA OthersKeepClaims ==
    ASSUME AccountsInv, NEW r \in Requests, RequestStep(r),
           NEW q \in Requests, q # r \/ req'[q] = Idle \/ req'[q] = req[q]
    PROVE  /\ req'[q] # Idle => IF req'[q].user = NoUser THEN req'[q].role # Admin
                                ELSE <<req'[q].user, req'[q].tenant, req'[q].role>> \in held'
           /\ req'[q] = Idle \/ (req'[q].pc # "idle" /\ req'[q].tenant \in Tenants)
           /\ req'[q].pc \in {"counted", "removing"} => req'[q].target \in Users
           /\ req'[q].pc = "removing" => req'[q].targetRole # Admin \/ req'[q].admins > 1
<1>1. held \subseteq held' /\ (req'[q] = Idle \/ req'[q] = req[q])
  BY RequestFrame
<1>2. AuthorityWasGranted /\ RequestsWereChecked
  BY DEF AccountsInv
<1>3. CASE req'[q] = Idle
  BY <1>3 DEF Idle
<1>4. CASE req'[q] = req[q]
  BY <1>1, <1>2, <1>4 DEF AuthorityWasGranted, RequestsWereChecked
<1>5. QED
  BY <1>1, <1>3, <1>4

(* A request goes on under the authority that its credential granted.      *)
LEMMA RequestsStep ==
    ASSUME AccountsInv, NEW r \in Requests, RequestStep(r)
    PROVE  AuthorityWasGranted' /\ RequestsWereChecked'
<1> USE AccountsAssumption
<1>0. /\ AccountsTypeOK /\ AuthorityWasGranted /\ RequestsWereChecked /\ held \subseteq held'
      /\ req \in [Requests -> RequestType]
  BY RequestFrame DEF AccountsInv, AccountsTypeOK, RequestType
<1> DEFINE Claims(x) == IF x.user = NoUser THEN x.role # Admin
                        ELSE <<x.user, x.tenant, x.role>> \in held'
           Checks(x) == /\ x.pc # "idle" /\ x.tenant \in Tenants
                        /\ x.pc \in {"counted", "removing"} => x.target \in Users
                        /\ x.pc = "removing" => x.targetRole # Admin \/ x.admins > 1
<1>1. ASSUME (req'[r] = Idle \/ req'[r] = req[r]) \/ (Claims(req'[r]) /\ Checks(req'[r]))
      PROVE  AuthorityWasGranted' /\ RequestsWereChecked'
  <2> SUFFICES ASSUME NEW q \in Requests
      PROVE  /\ req'[q] # Idle => Claims(req'[q])
             /\ req'[q] = Idle \/ (req'[q].pc # "idle" /\ req'[q].tenant \in Tenants)
             /\ req'[q].pc \in {"counted", "removing"} => req'[q].target \in Users
             /\ req'[q].pc = "removing" => req'[q].targetRole # Admin \/ req'[q].admins > 1
    BY DEF AuthorityWasGranted, RequestsWereChecked
  <2>1. CASE q # r \/ req'[q] = Idle \/ req'[q] = req[q]
    <3>1. /\ req'[q] # Idle => IF req'[q].user = NoUser THEN req'[q].role # Admin
                               ELSE <<req'[q].user, req'[q].tenant, req'[q].role>> \in held'
          /\ req'[q] = Idle \/ (req'[q].pc # "idle" /\ req'[q].tenant \in Tenants)
          /\ req'[q].pc \in {"counted", "removing"} => req'[q].target \in Users
          /\ req'[q].pc = "removing" => req'[q].targetRole # Admin \/ req'[q].admins > 1
      BY <2>1, OthersKeepClaims
    <3>2. QED
      BY <3>1
  <2>2. CASE q = r /\ Claims(req'[r]) /\ Checks(req'[r])
    BY <2>2
  <2>3. QED
    BY <1>1, <2>1, <2>2
<1>2. ASSUME NEW b \in Bearers, NEW c \in Cookies, NEW h \in Headers, Authenticate(r, b, c, h)
      PROVE  Claims(req'[r]) /\ Checks(req'[r])
  <2>1. PICK x : x = require_tenant(b, c, h) /\ x.status = 200
    BY <1>2 DEF Authenticate
  <2>2. /\ x \in [status : {200}, user : SomeUser, tenant : Tenants, role : SomeRole]
        /\ IF x.user = NoUser THEN x.role # Admin ELSE <<x.user, x.tenant, x.role>> \in held
    <3>1. b \in Tokens /\ c \in Tokens
      BY <1>0, ClientsHoldTokens
    <3>2. LET y == require_tenant(b, c, h)
          IN /\ y \in [status : {200}, user : SomeUser, tenant : Tenants, role : SomeRole]
             /\ IF y.user = NoUser THEN y.role # Admin ELSE <<y.user, y.tenant, y.role>> \in held
      BY <2>1, <3>1, DoorClaims
    <3>3. QED
      BY <2>1, <3>2
  <2>3. req'[r] = [Idle EXCEPT !.pc = "ready", !.user = x.user, !.tenant = x.tenant,
                               !.role = x.role]
    BY <1>0, <1>2, <2>1 DEF Authenticate, AccountsTypeOK
  <2>4. /\ req'[r].pc = "ready" /\ req'[r].user = x.user /\ req'[r].tenant = x.tenant
        /\ req'[r].role = x.role
    BY <2>3 DEF Idle
  <2>5. QED
    BY <1>0, <2>2, <2>4
<1>3. ASSUME req[r].pc # "idle", req'[r].user = req[r].user, req'[r].tenant = req[r].tenant,
             req'[r].role = req[r].role
      PROVE  Claims(req'[r]) /\ req'[r].tenant \in Tenants
  <2>1. req[r] # Idle
    BY <1>3 DEF Idle
  <2>2. QED
    BY <1>0, <1>3, <2>1 DEF AuthorityWasGranted, RequestsWereChecked
<1>4. ASSUME NEW u \in Users, CountAdmins(r, u) PROVE Claims(req'[r]) /\ Checks(req'[r])
  <2>1. /\ req[r].pc = "ready"
        /\ req'[r] = [req[r] EXCEPT !.pc = "counted", !.target = u,
                                    !.admins = Cardinality(AdminsOf(req[r].tenant))]
    BY <1>0, <1>4 DEF CountAdmins, require_admin
  <2>2. req[r] \in RequestType
    BY <1>0
  <2>3. /\ req'[r].pc = "counted" /\ req'[r].target = u /\ req'[r].user = req[r].user
        /\ req'[r].tenant = req[r].tenant /\ req'[r].role = req[r].role
    BY <2>1, <2>2 DEF RequestType
  <2>4. QED
    BY <1>3, <2>1, <2>3
<1>5. ASSUME CheckTarget(r) PROVE Claims(req'[r]) /\ Checks(req'[r])
  <2>1. /\ req[r].pc = "counted"
        /\ ~(roles[<<req[r].target, req[r].tenant>>] = Admin /\ req[r].admins <= 1)
        /\ req'[r] = [req[r] EXCEPT !.pc = "removing",
                                    !.targetRole = roles[<<req[r].target, req[r].tenant>>]]
    BY <1>0, <1>5 DEF CheckTarget
  <2>2. req[r] \in RequestType /\ req[r].admins \in Nat
    BY <1>0 DEF RequestType
  <2>3. /\ req'[r].pc = "removing" /\ req'[r].target = req[r].target
        /\ req'[r].user = req[r].user /\ req'[r].tenant = req[r].tenant
        /\ req'[r].role = req[r].role /\ req'[r].admins = req[r].admins
        /\ req'[r].targetRole = roles[<<req[r].target, req[r].tenant>>]
    BY <2>1, <2>2 DEF RequestType
  <2>4. req[r].target \in Users
    BY <1>0, <2>1 DEF RequestsWereChecked
  <2>5. req'[r].targetRole # Admin \/ req'[r].admins > 1
    BY <2>1, <2>2, <2>3
  <2>6. QED
    BY <1>3, <2>1, <2>3, <2>4, <2>5
<1>6. ASSUME PurgeTelemetry(r) PROVE Claims(req'[r]) /\ Checks(req'[r])
  <2>1. req[r].pc = "ready" /\ req'[r] = [req[r] EXCEPT !.pc = "purging"]
    BY <1>0, <1>6 DEF PurgeTelemetry, require_admin
  <2>2. req[r] \in RequestType
    BY <1>0
  <2>3. /\ req'[r].pc = "purging" /\ req'[r].user = req[r].user
        /\ req'[r].tenant = req[r].tenant /\ req'[r].role = req[r].role
    BY <2>1, <2>2 DEF RequestType
  <2>4. QED
    BY <1>3, <2>1, <2>3
<1>7. Done(r) => req'[r] = Idle
  BY <1>0 DEF Done
<1>8. ASSUME \/ RequestEnds(r) \/ create_token(r)
             \/ \E k \in KeyIds : \/ revoke_token(r, k) \/ renew_token(r, k)
                                 \/ restore_token(r, k) \/ delete_token(r, k)
             \/ \E u \in Users : handle_revoke_sessions(r, u)
             \/ \E u \in Users, role \in Roles : handle_add_member(r, u, role)
             \/ \E u \in Users, role \in Roles : handle_update_role(r, u, role)
             \/ RemoveMember(r)
             \/ \E c \in Configs : handle_update_tenant_config(r, c)
             \/ PurgeRecords(r)
      PROVE  req'[r] = Idle
  BY <1>7, <1>8 DEF RequestEnds, Done, create_token, revoke_token, renew_token, restore_token,
     delete_token, handle_revoke_sessions, handle_add_member, handle_update_role, RemoveMember,
     handle_update_tenant_config, PurgeRecords
<1> HIDE DEF Claims, Checks
<1>9. (req'[r] = Idle \/ req'[r] = req[r]) \/ (Claims(req'[r]) /\ Checks(req'[r]))
  BY <1>2, <1>4, <1>5, <1>6, <1>8 DEF RequestStep
<1>10. QED
  BY <1>1, <1>9

(* AccountsInv holds at the start.                                         *)
LEMMA AccountsStart ==
    ASSUME AccInit
    PROVE  AccountsInv
<1> USE AccountsAssumption, TenancyAssumption
<1>1. AccountsTypeOK
  <2>1. Idle \in RequestType /\ NoKey \in KeyType /\ NoSession \in SessionType
        /\ NoSignin \in SigninType
    BY DEF Idle, RequestType, NoKey, KeyType, NoSession, SessionType, NoSignin, SigninType,
       SomeUser, SomeTenant, SomeRole
  <2>2. /\ sessions \in [SessionIds -> SessionType] /\ keys \in [KeyIds -> KeyType]
        /\ signin \in [SessionIds -> SigninType] /\ req \in [Requests -> RequestType]
    BY <2>1 DEF AccInit, SessionType, KeyType, SomeUser, SomeTenant, SomeRole, Admin
  <2>3. /\ roles \in [Users \X Tenants -> SomeRole] /\ cookie \in [Users -> 0..MaxLogins]
        /\ held \subseteq Users \X Tenants \X Roles
    BY DEF AccInit, SomeRole
  <2>4. /\ secrets \in 0..MaxSecrets /\ logins \in 0..MaxLogins /\ ops \in 0..MaxOps
        /\ tenants \subseteq Tenants /\ config \in [Tenants -> Configs] /\ users \subseteq Users
        /\ telemetry \subseteq Tenants /\ devMode \in BOOLEAN
        /\ authorized \subseteq Users \X SessionIds /\ retired \subseteq 0..MaxSecrets
    BY DEF AccInit
  <2>5. QED
    BY <2>2, <2>3, <2>4
    DEF AccountsTypeOK, SessionType, KeyType, SigninType, RequestType
<1>2. SignInsOnce
  <2>1. \A s \in SessionIds : s > 1 => sessions[s] = NoSession
    BY DEF AccInit
  <2>2. QED
    BY <2>1 DEF AccInit, SignInsOnce
<1>3. ClaimsWereHeld
  <2>1. \A m \in Users \X Tenants : roles[m] # NoRole => m = <<Founder, Home>> /\ roles[m] = Admin
    BY DEF AccInit
  <2>2. \A s \in SessionIds : sessions[s] # NoSession =>
           sessions[s].user = Founder /\ sessions[s].tenant = Home /\ sessions[s].role = Admin
    BY DEF AccInit
  <2>3. QED
    BY <2>1, <2>2 DEF AccInit, ClaimsWereHeld
<1>4. SecretsAreUnique
  <2>1. \A k \in KeyIds : keys[k] # NoKey =>
           k = SeededKey /\ keys[k].secret = 1 /\ keys[k].tenant = Home /\ keys[k].role = "member"
    BY DEF AccInit
  <2>2. QED
    BY <2>1 DEF AccInit, SecretsAreUnique
<1>5. AuthorityWasGranted /\ RequestsWereChecked
  BY DEF AccInit, AuthorityWasGranted, RequestsWereChecked, Idle
<1>6. QED
  BY <1>1, <1>2, <1>3, <1>4, <1>5 DEF AccountsInv

(* A step of a sign-in keeps it: no request and no key is touched.         *)
LEMMA AccountsSignIn ==
    ASSUME AccountsInv, SignInStep
    PROVE  AccountsInv'
<1>1. /\ UNCHANGED <<keys, secrets, retired, req>> /\ held \subseteq held'
  BY SignInFrame
<1>2. AuthorityWasGranted' /\ RequestsWereChecked'
  BY <1>1 DEF AccountsInv, AuthorityWasGranted, RequestsWereChecked
<1>3. SecretsAreUnique'
  BY <1>1, SecretsKept
<1>4. AccountsTypeOK' /\ SignInsOnce' /\ ClaimsWereHeld'
  BY SignInTypes, SignInsStep, ClaimsStep
<1>5. QED
  BY <1>2, <1>3, <1>4 DEF AccountsInv

(* And so does a statement of a request, which starts no sign-in.          *)
LEMMA AccountsRequest ==
    ASSUME AccountsInv, NEW r \in Requests, RequestStep(r)
    PROVE  AccountsInv'
<1>1. /\ UNCHANGED <<logins, authorized, signin>> /\ held \subseteq held'
      /\ \A s \in SessionIds : MayEnd(s)
  BY RequestFrame
<1>2. \A s \in SessionIds : sessions[s] = NoSession => sessions'[s] = NoSession
  BY <1>1, EndKeepsClaims DEF AccountsInv
<1>3. SignInsOnce'
  BY <1>1, <1>2, SignInsKept
<1>4. ClaimsWereHeld'
  <2>1. \A m \in Users \X Tenants :
           roles'[m] # NoRole => m[1] \in users' /\ <<m[1], m[2], roles'[m]>> \in held'
    BY RequestRoles
  <2>2. QED
    BY <1>1, <2>1, ClaimsKept
<1>5. AccountsTypeOK' /\ SecretsAreUnique' /\ AuthorityWasGranted' /\ RequestsWereChecked'
  BY RequestTypes, SecretsStep, RequestsStep
<1>6. QED
  BY <1>3, <1>4, <1>5 DEF AccountsInv

(* Sign-ins and requests, in any interleaving: roles were held when they   *)
(* are claimed, secrets are used once, a removal was checked.              *)
THEOREM AccountsInvariant == AccSpec => []AccountsInv
<1>1. AccInit => AccountsInv
  BY AccountsStart
<1>2. AccountsInv /\ [AccNext]_accVars => AccountsInv'
  <2> SUFFICES ASSUME AccountsInv, [AccNext]_accVars
               PROVE  AccountsInv'
    OBVIOUS
  <2>1. CASE AccNext
    BY <2>1, AccountsSteps, AccountsSignIn, AccountsRequest
  <2>2. CASE UNCHANGED accVars
    BY <2>2 DEF accVars, AccountsInv, AccountsTypeOK, SignInsOnce, ClaimsWereHeld,
       SecretsAreUnique, AuthorityWasGranted, RequestsWereChecked
  <2>3. QED
    BY <2>1, <2>2
<1>3. QED
  BY <1>1, <1>2, PTL DEF AccSpec

(* Credentials are worth what they were issued for: whatever a client      *)
(* presents, at whichever of the three middlewares, and whatever was       *)
(* renewed, revoked, removed or purged meanwhile.                          *)
THEOREM CredentialsHonoured == AccSpec => []CredentialsAreHonoured
<1>1. AccountsInv => CredentialsAreHonoured
  BY HonouredByInvariant
<1>2. QED
  BY <1>1, AccountsInvariant, PTL

-----------------------------------------------------------------------------
(***************************************************************************)
(* What one step may do.                                                   *)
(***************************************************************************)
(* A session that has ended is not made active again.                      *)
LEMMA EndedStayEnded ==
    ASSUME AccountsInv, [AccNext]_accVars, NEW s \in SessionIds,
           sessions[s].state \in {"revoked", "expired", "gone"}
    PROVE  sessions'[s].state # "active"
<1>0. AccountsTypeOK /\ SignInsOnce /\ sessions[s] \in SessionType /\ sessions[s] # NoSession
  BY DEF AccountsInv, AccountsTypeOK, SessionType, NoSession
<1>1. MayEnd(s) => sessions'[s].state # "active"
  BY <1>0 DEF MayEnd, SessionType
<1>2. sessions' = sessions => MayEnd(s)
  BY DEF MayEnd
<1>3. ASSUME NEW r \in Requests, RequestStep(r) PROVE MayEnd(s)
  BY <1>3, RequestFrame
<1>4. ASSUME NEW n \in SessionIds, CallbackSigns(n) PROVE MayEnd(s)
  <2>1. signin[n] # NoSignin /\ sessions' = [sessions EXCEPT ![n] = sign_session_jwt(signin[n])]
    BY <1>4 DEF CallbackSigns, create_session
  <2>2. n # s
    BY <1>0, <2>1 DEF SignInsOnce
  <2>3. QED
    BY <1>0, <2>1, <2>2 DEF MayEnd, AccountsTypeOK
<1>5. ASSUME NEW n \in SessionIds, logout_handler(n) PROVE MayEnd(s)
  BY <1>0, <1>5, RevokeEnds DEF logout_handler
<1>6. ASSUME NEW n \in SessionIds, SessionExpires(n) PROVE MayEnd(s)
  BY <1>0, <1>6 DEF SessionExpires, MayEnd, AccountsTypeOK
<1>7. ASSUME \/ \E u \in Users : login_handler(u)
             \/ \E u \in Users, n \in SessionIds : CallbackRejected(u, n)
             \/ \E u \in Users, n \in SessionIds : CallbackNoAccess(u, n)
             \/ \E u \in Users, n \in SessionIds, t \in Tenants : CallbackChooses(u, n, t)
             \/ \E n \in SessionIds : CallbackFails(n)
             \/ seed_dev_admin_role
             \/ \E n \in 1..MaxSecrets : Ingest(n)
      PROVE  sessions' = sessions
  BY <1>7 DEF login_handler, CallbackRejected, CallbackNoAccess, CallbackChooses, CallbackFails,
     login_error_redirect, seed_dev_admin_role, Ingest
<1>8. CASE AccNext
  BY <1>1, <1>2, <1>3, <1>4, <1>5, <1>6, <1>7, <1>8, AccountsSteps DEF SignInStep
<1>9. CASE UNCHANGED accVars
  BY <1>1, <1>2, <1>9 DEF accVars
<1>10. QED
  BY <1>8, <1>9

(* What a request leaves to the other tenants.                             *)
Elsewhere(x) ==
    \A t \in Tenants \ {x.tenant} :
        /\ (t \in tenants') = (t \in tenants) /\ config'[t] = config[t]
        /\ (t \in telemetry') = (t \in telemetry)
        /\ \A u \in Users : roles'[<<u, t>>] = roles[<<u, t>>]
        /\ \A k \in KeyIds : keys[k].tenant = t => keys'[k] = keys[k]
        /\ \A s \in SessionIds : sessions[s].tenant = t => sessions'[s] = sessions[s]

(* Every statement of a request names the tenant of its context.           *)
LEMMA RequestsStayHome ==
    ASSUME AccountsInv, NEW r \in Requests, RequestStep(r), req[r] # Idle
    PROVE  Elsewhere(req[r])
<1>0. AccountsTypeOK
  BY DEF AccountsInv
<1>1. ASSUME NEW b \in Bearers, NEW c \in Cookies, NEW h \in Headers, Authenticate(r, b, c, h)
      PROVE  FALSE
  BY <1>1 DEF Authenticate
<1>2. ASSUME RequestEnds(r) \/ (\E u \in Users : CountAdmins(r, u)) \/ CheckTarget(r)
      PROVE  Elsewhere(req[r])
  BY <1>2 DEF RequestEnds, CountAdmins, CheckTarget, memberUnchanged, Elsewhere
<1>3. ASSUME NEW k \in KeyIds, keys[k].tenant \in {NoTenant, req[r].tenant},
             \A j \in KeyIds \ {k} : keys'[j] = keys[j],
             UNCHANGED <<tenants, config, telemetry, roles, sessions>>
      PROVE  Elsewhere(req[r])
  BY <1>3, TenancyAssumption DEF Elsewhere
<1>4. ASSUME create_token(r) PROVE Elsewhere(req[r])
  <2>1. PICK k \in KeyIds :
           /\ keys[k] = NoKey
           /\ keys' = [keys EXCEPT ![k] = [state |-> "live", tenant |-> req[r].tenant,
                                         secret |-> secrets', role |-> "member"]]
    BY <1>4 DEF create_token
  <2>2. keys[k].tenant = NoTenant /\ \A j \in KeyIds \ {k} : keys'[j] = keys[j]
    BY <1>0, <2>1 DEF NoKey, AccountsTypeOK
  <2>3. QED
    BY <1>3, <1>4, <2>2 DEF create_token, tokenUnchanged
<1>5. ASSUME NEW k \in KeyIds, revoke_token(r, k) \/ renew_token(r, k)
                               \/ restore_token(r, k) \/ delete_token(r, k)
      PROVE  Elsewhere(req[r])
  <2>1. /\ keys[k].tenant = req[r].tenant /\ \A j \in KeyIds \ {k} : keys'[j] = keys[j]
        /\ UNCHANGED <<tenants, config, telemetry, roles, sessions>>
    BY <1>0, <1>5 DEF revoke_token, renew_token, restore_token, delete_token, OwnKey,
       tokenUnchanged, AccountsTypeOK
  <2>2. QED
    BY <1>3, <2>1
<1>6. ASSUME NEW u \in Users,
             \/ handle_revoke_sessions(r, u)
             \/ \E role \in Roles : handle_add_member(r, u, role) \/ handle_update_role(r, u, role)
      PROVE  Elsewhere(req[r])
  BY <1>0, <1>6 DEF handle_revoke_sessions, handle_add_member, handle_update_role, SetRoles,
     memberUnchanged, Revoke, AccountsTypeOK, Elsewhere
<1>7. ASSUME RemoveMember(r) PROVE Elsewhere(req[r])
  <2>1. req[r].target \in Users /\ req[r].tenant \in Tenants
    BY <1>7 DEF RemoveMember, AccountsInv, RequestsWereChecked, Idle
  <2>2. /\ sessions' = Revoke(sessions, req[r].target, req[r].tenant)
        /\ roles' = [roles EXCEPT ![<<req[r].target, req[r].tenant>>] = NoRole]
        /\ UNCHANGED <<tenants, config, telemetry, keys>>
    BY <1>7 DEF RemoveMember, SetRoles, memberUnchanged
  <2>3. ASSUME NEW t \in Tenants, t # req[r].tenant, NEW u \in Users
        PROVE  roles'[<<u, t>>] = roles[<<u, t>>]
    BY <1>0, <2>2, <2>3 DEF AccountsTypeOK
  <2>4. \A s \in SessionIds : sessions[s].tenant # req[r].tenant => sessions'[s] = sessions[s]
    BY <2>2 DEF Revoke
  <2>5. QED
    BY <2>2, <2>3, <2>4 DEF Elsewhere
<1>8. ASSUME \/ \E c \in Configs : handle_update_tenant_config(r, c)
             \/ PurgeTelemetry(r)
      PROVE  Elsewhere(req[r])
  BY <1>0, <1>8 DEF handle_update_tenant_config, PurgeTelemetry, AccountsTypeOK, Elsewhere
<1>9. ASSUME PurgeRecords(r) PROVE Elsewhere(req[r])
  BY <1>0, <1>9 DEF PurgeRecords, AccountsTypeOK, Elsewhere
<1>10. QED
  BY <1>1, <1>2, <1>4, <1>5, <1>6, <1>7, <1>8, <1>9 DEF RequestStep

(* Requests stay within the tenant that their credential was good for, and *)
(* sessions that have ended stay ended.                                    *)
THEOREM RequestsAndSessions == AccSpec => TenantsAndSessionsHold
<1>1. ASSUME AccountsInv, [AccNext]_accVars
      PROVE  \A r \in Requests : req[r] # Idle /\ req'[r] # req[r] => Elsewhere(req[r])
  <2> SUFFICES ASSUME NEW r \in Requests, req[r] # Idle, req'[r] # req[r]
               PROVE  Elsewhere(req[r])
    OBVIOUS
  <2>1. AccNext
    BY <1>1 DEF accVars
  <2>2. PICK q \in Requests : RequestStep(q)
    <3>1. SignInStep => req' = req
      BY <1>1, SignInFrame
    <3>2. QED
      BY <2>1, <3>1, AccountsSteps
  <2>3. q = r
    BY <1>1, <2>2, RequestFrame
  <2>4. QED
    BY <1>1, <2>2, <2>3, RequestsStayHome
<1>2. AccountsInv /\ [AccNext]_accVars =>
        [\A r \in Requests : req[r] # Idle /\ req'[r] # req[r] =>
         \A t \in Tenants \ {req[r].tenant} :
            /\ (t \in tenants') = (t \in tenants) /\ config'[t] = config[t]
            /\ (t \in telemetry') = (t \in telemetry)
            /\ \A u \in Users : roles'[<<u, t>>] = roles[<<u, t>>]
            /\ \A k \in KeyIds : keys[k].tenant = t => keys'[k] = keys[k]
            /\ \A s \in SessionIds : sessions[s].tenant = t => sessions'[s] = sessions[s]]_accVars
  BY <1>1 DEF Elsewhere
<1>3. AccountsInv /\ [AccNext]_accVars =>
        [\A s \in SessionIds : sessions[s].state \in {"revoked", "expired", "gone"} =>
            sessions'[s].state # "active"]_accVars
  BY EndedStayEnded
<1>4. QED
  BY <1>2, <1>3, AccountsInvariant, PTL
  DEF AccSpec, TenantsAndSessionsHold, TenantIsolation, EndedSessionsStayEnded

(* A removal whose count and role still hold when it is made leaves an     *)
(* administrator behind.                                                   *)
LEMMA RemovalLeavesAdmin ==
    ASSUME AccountsInv, [AccNext]_accVars, NEW r \in Requests, req[r].pc = "removing",
           req'[r] # req[r], AdminsOf(req[r].tenant) # {},
           req[r].admins = Cardinality(AdminsOf(req[r].tenant)),
           req[r].targetRole = roles[<<req[r].target, req[r].tenant>>]
    PROVE  \E u \in Users : roles'[<<u, req[r].tenant>>] = Admin
<1>0. AccountsTypeOK /\ RequestsWereChecked /\ req[r] # Idle
  BY DEF AccountsInv, Idle
<1>1. PICK v \in Users, t \in Tenants : v = req[r].target /\ t = req[r].tenant
  BY <1>0 DEF RequestsWereChecked
<1>2. PICK u \in AdminsOf(t) : u # v
  <2>1. CASE req[r].targetRole # Admin
    <3>1. v \notin AdminsOf(t)
      BY <1>1, <2>1 DEF AdminsOf
    <3>2. QED
      BY <1>1, <3>1
  <2>2. CASE req[r].admins > 1
    <3>1. ASSUME AdminsOf(t) \subseteq {v} PROVE FALSE
      <4>1. IsFiniteSet({v}) /\ Cardinality({v}) = 1
        BY FS_Singleton
      <4>2. Cardinality(AdminsOf(t)) <= 1
        BY <3>1, <4>1, FS_Subset
      <4>3. Cardinality(AdminsOf(t)) > 1
        BY <1>1, <2>2
      <4>4. Cardinality(AdminsOf(t)) \in Nat
        BY <3>1, <4>1, FS_Subset, FS_CardinalityType
      <4>5. QED
        BY <4>2, <4>3, <4>4
    <3>2. QED
      BY <3>1
  <2>3. QED
    BY <1>0, <2>1, <2>2 DEF RequestsWereChecked
<1>3. u \in Users /\ roles[<<u, t>>] = Admin
  BY <1>2 DEF AdminsOf
<1>4. AccNext
  BY DEF accVars
<1>5. RequestStep(r)
  <2>1. SignInStep => req' = req
    BY SignInFrame
  <2>2. \A q \in Requests : RequestStep(q) => q = r
    BY RequestFrame
  <2>3. QED
    BY <1>4, <2>1, <2>2, AccountsSteps
<1>6. ASSUME ~RequestEnds(r), ~RemoveMember(r) PROVE FALSE
  BY <1>5, <1>6, <1>0 DEF RequestStep, Authenticate, create_token, revoke_token, renew_token, restore_token,
     delete_token, CountAdmins, CheckTarget, handle_add_member, handle_update_role,
     handle_revoke_sessions, handle_update_tenant_config, PurgeTelemetry, PurgeRecords,
     require_admin
<1>7. CASE RequestEnds(r)
  BY <1>1, <1>3, <1>7 DEF RequestEnds
<1>8. CASE RemoveMember(r)
  <2>1. roles' = [roles EXCEPT ![<<v, t>>] = NoRole]
    BY <1>1, <1>8 DEF RemoveMember, SetRoles
  <2>2. roles'[<<u, t>>] = roles[<<u, t>>]
    BY <1>0, <1>2, <1>3, <2>1 DEF AccountsTypeOK
  <2>3. QED
    BY <1>1, <1>3, <2>2
<1>9. QED
  BY <1>6, <1>7, <1>8

(* The guard of the last administrator: it can only be passed by a removal *)
(* that read something which has changed since.                            *)
THEOREM RemovalKeepsAdmin == AccSpec => GuardedRemovalKeepsAdmin
<1>1. AccountsInv /\ [AccNext]_accVars =>
        [\A r \in Requests :
         LET t == req[r].tenant
             read == [admins |-> req[r].admins, role |-> req[r].targetRole]
             now  == [admins |-> Cardinality(AdminsOf(t)), role |-> roles[<<req[r].target, t>>]]
         IN req[r].pc = "removing" /\ req'[r] # req[r] /\ read = now /\ AdminsOf(t) # {}
            => \E u \in Users : roles'[<<u, t>>] = Admin]_accVars
  BY RemovalLeavesAdmin
<1>2. QED
  BY <1>1, AccountsInvariant, PTL DEF AccSpec, GuardedRemovalKeepsAdmin
==============================================================================
